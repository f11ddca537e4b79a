------------------------------- MODULE Cubes -------------------------------
(***************************************************************************)
(* The data sets behind a request: a single cube, or the intersection of   *)
(* two cubes whose values are combined by an operator (metadatahandle.cpp, *)
(* coordinate_transformer.hpp, datahandle.cpp).                            *)
(*                                                                         *)
(* A cube has a survey and a sequence of axes [name, unit, min, max, n],   *)
(* in dimension order.  Annotations are integers in a unit of 1 / Unit;    *)
(* a stepsize is the fraction (max - min) / (n - 1).                       *)
(***************************************************************************)
EXTENDS Integers, Sequences, FiniteSetsExt

CONSTANTS
    Requests,     \* [cubes, operator]: one or two cubes and an operator
    Unit,         \* annotation units in 1
    IntMin, IntMax

ASSUME CubesAssumption ==
    /\ Unit \in Nat \ {0}
    /\ IntMin \in Int /\ IntMax \in Int /\ IntMin < 0 /\ 2 < IntMax

AxisLayout == [name : STRING, unit : STRING, min : Int, max : Int, n : Nat]

ASSUME RequestsAssumption ==
    \A r \in Requests :
        /\ r.cubes \in Seq([axes : Seq(AxisLayout), survey : STRING])
        /\ Len(r.cubes) \in 1 .. 2

VARIABLES
    cubes, operator,
    number,       \* of the cube that is opened
    dimension,    \* loop index
    axes,         \* of the metadata handle, one per dimension
    zero,         \* voxel 0 of the handle as index in every cube, by IJK axis
    handle,       \* "opening", "reading", "comparing", "combining", "open" or an error
    read,         \* what is read from every cube
    doc           \* the metadata of a cube or of a slice

cubeVars == <<cubes, operator, number, dimension, axes, zero, handle, read, doc>>
request == <<cubes, operator>>

Dimensions == 1 .. 3
IJK == <<"I", "J", "K">>

axis_name_to_axis_type ==
    [Inline |-> "I", Crossline |-> "J", Depth |-> "K", Time |-> "K", Sample |-> "K"]
AxisType(axis) == axis_name_to_axis_type[axis.name]

Width(axis) == axis.max - axis.min
Steps(axis) == axis.n - 1

\* Truncation toward zero.
Trunc(num, den) == IF num < 0 THEN - ((- num) \div den) ELSE num \div den

-----------------------------------------------------------------------------
InitCubes ==
    /\ \E r \in Requests : cubes = r.cubes /\ operator = r.operator
    /\ number = 1
    /\ dimension = 1
    /\ axes = <<>>
    /\ zero = <<>>
    /\ handle = "opening"
    /\ read = <<>>
    /\ doc = <<>>

Fail(error) ==
    /\ handle' = error
    /\ UNCHANGED <<request, number, dimension, axes, zero, read, doc>>

(***************************************************************************)
(* make_single_datahandle up to validate_dimensionality.                   *)
(***************************************************************************)
OpenCube ==
    /\ handle = "opening"
    /\ \/ Fail("not_opened")
       \/ /\ Len(cubes[number].axes) # 3
          /\ Fail("error")
       \/ /\ Len(cubes[number].axes) = 3
          /\ handle' = "reading"
          /\ dimension' = 1
          /\ UNCHANGED <<request, number, axes, zero, read, doc>>

\* An unknown name, or a second axis of a type.
IsBadName(axis) ==
    axis.name \in DOMAIN axis_name_to_axis_type =>
        \E d \in 1 .. dimension - 1 : AxisType(cubes[number].axes[d]) = AxisType(axis)
IsSupported(axis) == axis.n >= 2 /\ Width(axis) > 0

AfterReading ==
    IF number < Len(cubes) THEN "opening"
    ELSE IF Len(cubes) = 1 THEN "open" ELSE "comparing"

(***************************************************************************)
(* SingleMetadataHandle::create, one dimension.                            *)
(***************************************************************************)
ReadAxis ==
    LET axis == cubes[number].axes[dimension]
        isLast == dimension = 3
    IN  /\ handle = "reading"
        /\ \/ IsBadName(axis) /\ Fail("error")
           \/ ~ IsBadName(axis) /\ ~ IsSupported(axis) /\ Fail("bad_request")
           \/ /\ ~ IsBadName(axis) /\ IsSupported(axis)
              /\ handle' = IF isLast THEN AfterReading ELSE "reading"
              /\ number' = IF isLast /\ number < Len(cubes) THEN number + 1 ELSE number
              /\ dimension' = dimension + 1
              /\ axes' = IF isLast /\ Len(cubes) = 1 THEN cubes[1].axes ELSE <<>>
              /\ zero' = IF isLast /\ Len(cubes) = 1 THEN <<[t \in {"I", "J", "K"} |-> 0]>> ELSE <<>>
              /\ UNCHANGED <<request, read, doc>>

(***************************************************************************)
(* DoubleMetadataHandle::create before its loop: CRS, origin and spacings. *)
(***************************************************************************)
CompareSurveys ==
    /\ handle = "comparing"
    /\ \/ cubes[1].survey # cubes[2].survey /\ Fail("bad_request")
       \/ /\ cubes[1].survey = cubes[2].survey
          /\ handle' = "combining"
          /\ dimension' = 1
          /\ UNCHANGED <<request, number, axes, zero, read, doc>>

-----------------------------------------------------------------------------
SharesUnitAndStep(a, b) ==
    /\ a.name = b.name
    /\ a.unit = b.unit
    /\ Width(a) * Steps(b) = Width(b) * Steps(a)

(***************************************************************************)
(* make_double_cube_axis: whether the axes can be combined, and how many   *)
(* samples the intersection has.  The stepsize is cast to an int first;    *)
(* the conversion of the quotient by 0 is undefined.                       *)
(***************************************************************************)
CanCombine(a, b) ==
    /\ SharesUnitAndStep(a, b)
    /\ ((b.min - a.min) * Steps(a)) % Width(a) = 0

LargerMax(a, b) == Max({a.max, b.max})
CommonMin(a, b) == Max({a.min, b.min})
CommonMax(a, b) == Min({a.max, b.max})
IntStep(axis) == Unit * Trunc(Width(axis), Steps(axis) * Unit)

SampleCounts(a, b) ==
    IF IntStep(a) = 0
    THEN {IntMin, IntMax}
    ELSE {Trunc(IntStep(a) + CommonMax(a, b) - CommonMin(a, b), IntStep(a))}

CombineAxis ==
    LET a == cubes[1].axes[dimension]
        b == cubes[2].axes[dimension]
    IN  /\ handle = "combining"
        /\ dimension <= 3
        /\ \/ ~ CanCombine(a, b) /\ Fail("bad_request")
           \/ /\ CanCombine(a, b)
              /\ \E n \in SampleCounts(a, b) :
                    LET axis == [name |-> a.name, unit |-> a.unit, n |-> n,
                                 min |-> CommonMin(a, b), max |-> CommonMax(a, b)]
                    IN  \/ ~ IsSupported(axis) /\ Fail("bad_request")
                        \/ /\ IsSupported(axis)
                           /\ axes' = Append(axes, axis)
                           /\ dimension' = dimension + 1
                           /\ UNCHANGED <<request, number, zero, handle, read, doc>>

(***************************************************************************)
(* IJKCoordinateTransformer between annotations and indices (external).    *)
(***************************************************************************)
IJKIndexToAnnotation(axis, index) == axis.min + (index * Width(axis)) \div Steps(axis)
AnnotationToIJKIndex(axis, annotation) == ((annotation - axis.min) * Steps(axis)) \div Width(axis)

\* IJKToVoxelDimensionMap: the dimension of an IJK axis.
VoxelDimension(cube, t) == CHOOSE d \in Dimensions : AxisType(cube.axes[d]) = t
IJKAxis(cube, t) == cube.axes[VoxelDimension(cube, t)]

BZeroInA(t) ==
    AnnotationToIJKIndex(IJKAxis(cubes[1], t), IJKIndexToAnnotation(IJKAxis(cubes[2], t), 0))
UnclampedZeroInA(t) == BZeroInA(t)
ZeroInA(t) == IF BZeroInA(t) >= 0 THEN BZeroInA(t) ELSE 0
ZeroInB(t) ==
    AnnotationToIJKIndex(IJKAxis(cubes[2], t), IJKIndexToAnnotation(IJKAxis(cubes[1], t), ZeroInA(t)))

(***************************************************************************)
(* The constructors of DoubleCoordinateTransformer and DoubleDataHandle.   *)
(***************************************************************************)
MakeDouble ==
    /\ handle = "combining"
    /\ dimension = 4
    /\ zero' = <<[t \in {"I", "J", "K"} |-> ZeroInA(t)], [t \in {"I", "J", "K"} |-> ZeroInB(t)]>>
    /\ handle' = IF operator = "NO_OPERATOR" THEN "bad_request" ELSE "open"
    /\ UNCHANGED <<request, number, dimension, axes, read, doc>>

-----------------------------------------------------------------------------
InVoxelOrder(c, position) == [d \in Dimensions |-> position[d] + zero[c][IJK[d]]]

(***************************************************************************)
(* to_cube_a_voxel_position and to_cube_b_voxel_position.                  *)
(***************************************************************************)
to_cube_voxel_position(c, position) ==
    [d \in Dimensions |-> position[d] + zero[c][AxisType(cubes[c].axes[d])]]

InEveryCube(lower, upper) ==
    [lower |-> lower, upper |-> upper,
     bounds |-> [c \in DOMAIN cubes |-> [lower |-> to_cube_voxel_position(c, lower),
                                         upper |-> to_cube_voxel_position(c, upper)]]]

-----------------------------------------------------------------------------
StepsFrom(axis, k) == axis.min + (k * Width(axis)) \div Steps(axis)

IndexAsIs(t, index) == index

\* An index of the handle as index of cube A.
as_cube_a_ijk_index(t, index) == index + zero[1][t]

json_axis(d, lower, upper) ==
    [min |-> StepsFrom(axes[d], lower[d]), max |-> StepsFrom(axes[d], upper[d] - 1),
     samples |-> upper[d] - lower[d]]

\* A place in the world stands for its lines.
LineOf(t, index) == IJKIndexToAnnotation(IJKAxis(cubes[1], t), as_cube_a_ijk_index(t, index))
Corner(i, j) == <<LineOf("I", i), LineOf("J", j)>>

(***************************************************************************)
(* The corners of a box, counter-clockwise from the lower one: all of them *)
(* for a horizontal slice, the ends of a line for the other slices.        *)
(***************************************************************************)
Around(lower, upper) ==
    LET i == VoxelDimension(cubes[1], "I")
        j == VoxelDimension(cubes[1], "J")
    IN  <<Corner(lower[i], lower[j]), Corner(upper[i] - 1, lower[j]),
          Corner(upper[i] - 1, upper[j] - 1), Corner(lower[i], upper[j] - 1)>>

json_slice_geospatial(direction, lower, upper) ==
    LET corners == Around(lower, upper)
    IN  IF direction = "K" THEN corners ELSE <<corners[1], corners[3]>>

BoundingBox ==
    LET ils == axes[VoxelDimension(cubes[1], "I")].n - 1
        xls == axes[VoxelDimension(cubes[1], "J")].n - 1
    IN  <<Corner(0, 0), Corner(ils, 0), Corner(ils, xls), Corner(0, xls)>>

Document(lower, upper, corners) ==
    [axis |-> [d \in Dimensions |-> json_axis(d, lower, upper)], corners |-> corners]

IsIdle == handle = "open" /\ read = <<>> /\ doc = <<>>

Metadata ==
    /\ IsIdle
    /\ doc' = Document([d \in Dimensions |-> 0], [d \in Dimensions |-> axes[d].n], BoundingBox)
    /\ UNCHANGED <<request, number, dimension, axes, zero, handle, read>>

(***************************************************************************)
(* A slice, with bounds, as a box with an exclusive upper end: its         *)
(* metadata, then read_subcube.                                            *)
(***************************************************************************)
Ranges(d) == {r \in (0 .. axes[d].n) \X (0 .. axes[d].n) : r[1] < r[2]}
IsSlice(direction, lower, upper) ==
    LET d == VoxelDimension(cubes[1], direction) IN upper[d] = lower[d] + 1

ReadSubcube ==
    /\ IsIdle
    /\ \E x \in Ranges(1), y \in Ranges(2), z \in Ranges(3), direction \in {"I", "J", "K"} :
        LET lower == <<x[1], y[1], z[1]>>
            upper == <<x[2], y[2], z[2]>>
        IN  /\ IsSlice(direction, lower, upper)
            /\ doc' = Document(lower, upper, json_slice_geospatial(direction, lower, upper))
            /\ read' = InEveryCube(lower, upper)
    /\ UNCHANGED <<request, number, dimension, axes, zero, handle>>

\* read_samples, for one sample.
ReadSamples ==
    /\ IsIdle
    /\ \E x \in 0 .. Steps(axes[1]), y \in 0 .. Steps(axes[2]), z \in 0 .. Steps(axes[3]) :
        read' = InEveryCube(<<x, y, z>>, <<x, y, z>>)
    /\ UNCHANGED <<request, number, dimension, axes, zero, handle, doc>>

Cube ==
    \/ OpenCube \/ ReadAxis \/ CompareSurveys \/ CombineAxis \/ MakeDouble
    \/ Metadata \/ ReadSubcube \/ ReadSamples

-----------------------------------------------------------------------------
IsRefused == handle \in {"bad_request", "error"}
Lines(axis) == {axis.min + k * (Width(axis) \div Steps(axis)) : k \in 0 .. Steps(axis)}
Between(lines, low, high) == {l \in lines : low <= l /\ l <= high}

IsSound(cube) ==
    /\ Len(cube.axes) = 3
    /\ \A d \in Dimensions : cube.axes[d].name \in DOMAIN axis_name_to_axis_type
    /\ {AxisType(cube.axes[d]) : d \in Dimensions} = {"I", "J", "K"}
    /\ \A d \in Dimensions : IsSupported(cube.axes[d])

HaveSameLines(a, b) ==
    /\ SharesUnitAndStep(a, b)
    /\ Between(Lines(a), CommonMin(a, b), CommonMax(a, b))
         = Between(Lines(b), CommonMin(a, b), CommonMax(a, b))
    /\ \E k, l \in Lines(a) \intersect Lines(b) : k # l

AreCombinable ==
    /\ cubes[1].survey = cubes[2].survey
    /\ operator # "NO_OPERATOR"
    /\ \A d \in Dimensions : HaveSameLines(cubes[1].axes[d], cubes[2].axes[d])

(***************************************************************************)
(* A request is refused exactly if a cube is unsound or the restrictions   *)
(* on two cubes are not met: axes in the same order with matching stepsize *)
(* and units, identical surveys, "inside the intersection both cubes       *)
(* should have data at the same lines and there should be at least two     *)
(* samples in each dimension" (request.go).  The code never compares       *)
(* lines: it compares an offset and counts with a quotient.                *)
(***************************************************************************)
RefusedExactlyAsDocumented ==
    LET isFine == /\ \A c \in DOMAIN cubes : IsSound(cubes[c])
                  /\ Len(cubes) = 2 => AreCombinable
    IN  /\ handle = "open" => isFine
        /\ IsRefused => ~ isFine

(***************************************************************************)
(* The lines of an axis of a virtual cube are the lines that both cubes    *)
(* have ("the request returns data from data set (A - B) in the            *)
(* intersection", request.go).                                             *)
(***************************************************************************)
IntersectionIsExact ==
    handle = "open" /\ Len(cubes) = 2 =>
        \A d \in Dimensions :
            {axes[d].min * Steps(axes[d]) + k * Width(axes[d]) : k \in 0 .. Steps(axes[d])}
              = {l * Steps(axes[d]) : l \in Lines(cubes[1].axes[d]) \intersect Lines(cubes[2].axes[d])}

(***************************************************************************)
(* What is combined belongs together: the voxels that read_subcube and     *)
(* read_samples read from a cube are voxels that it has, and their lines   *)
(* are those of the handle, in every dimension, whichever cube begins      *)
(* first and in whatever order the dimensions are.                         *)
(***************************************************************************)
SameLinesAreCombined ==
    read # <<>> =>
        \A c \in DOMAIN cubes : \A d \in Dimensions :
            LET axis == cubes[c].axes[d]
                step == Width(axis) \div Steps(axis)
                bounds == read.bounds[c]
            IN  /\ 0 <= bounds.lower[d] /\ bounds.upper[d] <= axis.n
                /\ axis.min + step * bounds.lower[d] = axes[d].min + step * read.lower[d]
                /\ bounds.upper[d] - bounds.lower[d] = read.upper[d] - read.lower[d]

(***************************************************************************)
(* The metadata of a handle and of its slices is one description: the      *)
(* corners, which come from the transformer of cube A shifted to the       *)
(* intersection, are at the ends of the axes, which come from the          *)
(* combined axes, in the order around the box.  Two corners are enough     *)
(* only where the box is a single line wide.                               *)
(***************************************************************************)
CornersAreEndsOfAxes ==
    doc # <<>> =>
        LET i == doc.axis[VoxelDimension(cubes[1], "I")]
            j == doc.axis[VoxelDimension(cubes[1], "J")]
        IN  \/ doc.corners = <<<<i.min, j.min>>, <<i.max, j.min>>, <<i.max, j.max>>, <<i.min, j.max>>>>
            \/ /\ doc.corners = <<<<i.min, j.min>>, <<i.max, j.max>>>>
               /\ i.min = i.max \/ j.min = j.max
=============================================================================
