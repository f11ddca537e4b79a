------------------------------- MODULE Slice -------------------------------
(***************************************************************************)
(* A slice request: SliceRequest.execute (slice.go) asks for the metadata  *)
(* and then for the data of the slice, each of which turns the bounds into *)
(* C bounds (core_slice.go) and those into a box of voxels (subcube.cpp,   *)
(* cppapi_data.cpp, cppapi_metadata.cpp).                                  *)
(***************************************************************************)
EXTENDS Integers, Sequences

CONSTANTS
    Axes,          \* [min, step, nsamples] of the axes "iline", "xline", "sample"
    Verticals,     \* [label, unit] of the vertical axis
    Directions,    \* names a client uses for directions, of slice and bounds
    Numbers,       \* line numbers a client uses
    MaxBounds,     \* bound on the number of bounds
    Width          \* bits of a C int

ASSUME WidthAssumption == Width \in Nat \ {0} /\ MaxBounds \in Nat

VARIABLES
    direction, lineno, bounds,   \* the request
    vertical,                    \* the vertical axis of the VDS
    pc,                          \* control state of execute
    k,                           \* loop index over the bounds
    lower, upper,                \* SubCube.bounds
    described,                   \* the box that the metadata describes
    outcome                      \* "running", "ok" or an error

request == <<direction, lineno, bounds, vertical>>
vars == <<request, pc, k, lower, upper, described, outcome>>

AxisType == {"iline", "xline", "sample"}

\* SingleMetadataHandle accepts any positive step and number of samples; here
\* annotations and steps are whole numbers, as they are for lines.
ASSUME AxesAssumption ==
    /\ \A a \in AxisType : /\ Axes[a].min \in Int
                           /\ Axes[a].step \in Nat \ {0}
                           /\ Axes[a].nsamples \in Nat \ {0}
    /\ Numbers \subseteq Int

Bound == [direction: Directions, lower: Numbers, upper: Numbers]

-----------------------------------------------------------------------------
\* "Inline" stands for any name that is not in lower case.
ToLower(name) == IF name = "Inline" THEN "inline" ELSE name
IsAxis(name) ==
    name \in {"i", "j", "k", "inline", "crossline", "depth", "time", "sample"}

axis_type(name) ==
    CASE name \in {"i", "inline"}                    -> "iline"
      [] name \in {"j", "crossline"}                 -> "xline"
      [] name \in {"k", "depth", "time", "sample"}   -> "sample"
IsIndex(name) == name \in {"i", "j", "k"}

(***************************************************************************)
(* C.int(x) keeps the low bits of a Go int.                                *)
(***************************************************************************)
CInt(x) == ((x + 2 ^ (Width - 1)) % 2 ^ Width) - 2 ^ (Width - 1)

LengthOf(axis) == axis.nsamples

\* Largest index of lineno_index_to_voxel.
LastIndex(axis) == axis.nsamples - 1

(***************************************************************************)
(* to_voxel: whether the line is on the axis, and its voxel.               *)
(***************************************************************************)
IsLine(name, x) ==
    LET axis == Axes[axis_type(name)]
    IN  IF IsIndex(name)
        THEN x \in 0 .. LastIndex(axis)
        ELSE /\ x \in axis.min .. axis.min + (axis.nsamples - 1) * axis.step
             /\ (x - axis.min) % axis.step = 0

Voxel(name, x) ==
    LET axis == Axes[axis_type(name)]
    IN  IF IsIndex(name) THEN x ELSE (x - axis.min) \div axis.step

(***************************************************************************)
(* validate_vertical_axis.                                                 *)
(***************************************************************************)
DepthUnits == {"m", "ft", "usft"}
TimeUnits == {"ms", "s"}
IsVerticalFit(name) ==
    /\ name = "depth" => vertical.label \in {"Depth", "Sample"} /\ vertical.unit \in DepthUnits
    /\ name = "time" => vertical.label \in {"Time", "Sample"} /\ vertical.unit \in TimeUnits

SliceFitsVertical == IsVerticalFit(ToLower(direction))

RequestFitsVertical ==
    /\ IsVerticalFit(ToLower(direction))
    /\ \A b \in 1 .. Len(bounds) : IsVerticalFit(bounds[b].direction)

-----------------------------------------------------------------------------
Whole(end) == [a \in AxisType |-> IF end = "lower" THEN 0 ELSE Axes[a].nsamples]
NoBox == [lower |-> Whole("lower"), upper |-> Whole("lower")]
Box == [lower |-> lower, upper |-> upper]
Line == CInt(lineno)
Slicing == ToLower(direction)

Init ==
    /\ direction \in Directions
    /\ lineno \in Numbers
    /\ bounds \in UNION {[1 .. n -> Bound] : n \in 0 .. MaxBounds}
    /\ vertical \in Verticals
    /\ pc = "direction"
    /\ k = 1
    /\ lower = Whole("lower")
    /\ upper = Whole("upper")
    /\ described = NoBox
    /\ outcome = "running"

Fail(error) ==
    /\ outcome' = error
    /\ pc' = "done"
    /\ UNCHANGED <<request, k, lower, upper, described>>

(***************************************************************************)
(* GetAxis of the slice's own direction, in lower case.                    *)
(***************************************************************************)
GetAxis ==
    /\ pc = "direction"
    /\ \/ /\ ~ IsAxis(Slicing)
          /\ Fail("invalid_direction")
       \/ /\ IsAxis(Slicing)
          /\ pc' = "bounds"
          /\ UNCHANGED <<request, k, lower, upper, described, outcome>>

(***************************************************************************)
(* newCSliceBounds: the names and the order of every bound, in Go.         *)
(***************************************************************************)
NewCSliceBounds ==
    /\ pc = "bounds"
    /\ \/ /\ k > Len(bounds)
          /\ pc' = "constrain_metadata"
          /\ k' = 1
          /\ UNCHANGED <<request, lower, upper, described, outcome>>
       \/ /\ k <= Len(bounds)
          /\ ~ IsAxis(bounds[k].direction)
          /\ Fail("invalid_bound_direction")
       \/ /\ k <= Len(bounds)
          /\ IsAxis(bounds[k].direction)
          /\ bounds[k].upper < bounds[k].lower
          /\ Fail("bounds_not_ordered")
       \/ /\ k <= Len(bounds)
          /\ IsAxis(bounds[k].direction)
          /\ bounds[k].upper >= bounds[k].lower
          /\ k' = k + 1
          /\ UNCHANGED <<request, pc, lower, upper, described, outcome>>

\* Bounds are inclusive, boxes are not.
UpperVoxel(name, x) == Voxel(name, x) + 1

KeepTighter(old, new) == IF old < new THEN new ELSE old

\* A later bound replaces an earlier one on the same axis.
LowerOf(old, new) == new

(***************************************************************************)
(* SubCube::constrain, one turn of the loop.                               *)
(***************************************************************************)
Constrain ==
    /\ pc \in {"constrain_metadata", "constrain_data"}
    /\ k <= Len(bounds)
    /\ LET name == bounds[k].direction
           from == CInt(bounds[k].lower)
           to == CInt(bounds[k].upper)
       IN  \/ /\ ~ (IsLine(name, from) /\ IsLine(name, to))
              /\ Fail("bound_out_of_range")
           \/ /\ IsLine(name, from) /\ IsLine(name, to)
              /\ lower' = [lower EXCEPT ![axis_type(name)] = LowerOf(@, Voxel(name, from))]
              /\ upper' = [upper EXCEPT ![axis_type(name)] = UpperVoxel(name, to)]
              /\ k' = k + 1
              /\ UNCHANGED <<request, pc, described, outcome>>

(***************************************************************************)
(* SubCube::set_slice; the metadata is then made from the box, the data    *)
(* read into a buffer of the box's size.                                   *)
(***************************************************************************)
SetSlice ==
    /\ pc \in {"constrain_metadata", "constrain_data"}
    /\ k > Len(bounds)
    /\ \/ /\ ~ IsLine(Slicing, Line)
          /\ Fail("invalid_lineno")
       \/ /\ IsLine(Slicing, Line)
          /\ lower' = [lower EXCEPT ![axis_type(Slicing)] = Voxel(Slicing, Line)]
          /\ upper' = [upper EXCEPT ![axis_type(Slicing)] = UpperVoxel(Slicing, Line)]
          /\ pc' = IF pc = "constrain_metadata" THEN "describe" ELSE "read"
          /\ UNCHANGED <<request, k, described, outcome>>

Describe ==
    /\ pc = "describe"
    /\ described' = Box
    /\ pc' = "validate"
    /\ k' = 1
    /\ UNCHANGED <<request, lower, upper, outcome>>

(***************************************************************************)
(* cppapi::slice first validates the vertical axis for the slice, if it is *)
(* a horizontal one, and for every bound; then it makes a box of its own.  *)
(***************************************************************************)
Validate ==
    /\ pc = "validate"
    /\ \/ /\ ~ RequestFitsVertical
          /\ Fail("vertical_axis_does_not_fit")
       \/ /\ RequestFitsVertical
          /\ lower' = Whole("lower")
          /\ upper' = Whole("upper")
          /\ pc' = "constrain_data"
          /\ UNCHANGED <<request, k, described, outcome>>

Read ==
    /\ pc = "read"
    /\ outcome' = "ok"
    /\ pc' = "done"
    /\ UNCHANGED <<request, k, lower, upper, described>>

Next == GetAxis \/ NewCSliceBounds \/ Constrain \/ SetSlice \/ Describe \/ Validate \/ Read

Spec == Init /\ [][Next]_vars

-----------------------------------------------------------------------------
(***************************************************************************)
(* Type invariant: a box is a corner and a size within the axes' reach.    *)
(***************************************************************************)
TypeOK ==
    /\ k \in 1 .. MaxBounds + 1
    /\ \A a \in AxisType : /\ lower[a] \in 0 .. Axes[a].nsamples - 1
                           /\ upper[a] \in 1 .. Axes[a].nsamples
    /\ pc \in {"direction", "bounds", "constrain_metadata", "describe",
               "validate", "constrain_data", "read", "done"}

(***************************************************************************)
(* What slice.go promises of a slice: along its own axis the one line; on  *)
(* another axis the last bound given for it, or all of the axis.           *)
(***************************************************************************)
LastBound(a) ==
    CHOOSE b \in 1 .. Len(bounds) :
        /\ axis_type(bounds[b].direction) = a
        /\ \A c \in b + 1 .. Len(bounds) : axis_type(bounds[c].direction) # a
IsBounded(a) == \E b \in 1 .. Len(bounds) : axis_type(bounds[b].direction) = a

Promised(a) ==
    IF a = axis_type(Slicing) THEN {Voxel(Slicing, lineno)}
    ELSE IF IsBounded(a)
         THEN LET b == bounds[LastBound(a)]
              IN  Voxel(b.direction, b.lower) .. Voxel(b.direction, b.upper)
         ELSE 0 .. Axes[a].nsamples - 1

(***************************************************************************)
(* A slice that is answered holds exactly the promised voxels, whatever    *)
(* bounds were given and in which order, and its metadata describes the    *)
(* same box although it is computed separately.                            *)
(***************************************************************************)
SliceIsAsPromised ==
    outcome = "ok" =>
        /\ \A a \in AxisType : lower[a] .. upper[a] - 1 = Promised(a)
        /\ described = Box

(***************************************************************************)
(* The box that is read is never empty or turned around (set_slice and     *)
(* constrain check the ends one by one, newCSliceBounds their order).      *)
(* This is for numbers that fit a C int: the order is checked before       *)
(* C.int cuts the numbers, see BoundsOutsideAreRefused.                    *)
(***************************************************************************)
BoxIsProper ==
    pc \in {"read", "describe"} => \A a \in AxisType : lower[a] < upper[a]

(***************************************************************************)
(* A request that names time, in the slice or in any bound, is never       *)
(* answered from a cube in depth, nor one that names depth from a cube in  *)
(* time, although only the data call looks at the vertical axis and not    *)
(* the metadata call before it ("the server returns an error if you        *)
(* request a time-slice from a depth cube and visa-versa", slice.go).      *)
(***************************************************************************)
NamedDomainIsRespected ==
    outcome = "ok" =>
        \A name \in {Slicing} \union {bounds[b].direction : b \in 1 .. Len(bounds)} :
            /\ name = "time" => vertical.unit \notin DepthUnits /\ vertical.label # "Depth"
            /\ name = "depth" => vertical.unit \notin TimeUnits /\ vertical.label # "Time"

(***************************************************************************)
(* "Bounds will throw out-of-bounds error if their range is outside the    *)
(* cubes dimensions." (slice.go).  This is about the axes that the slice   *)
(* extends along: "Any bounds in the same direction as the slice itself    *)
(* are ignored."                                                           *)
(***************************************************************************)
BoundsOutsideAreRefused ==
    outcome = "ok" =>
        \A b \in 1 .. Len(bounds) :
            axis_type(bounds[b].direction) # axis_type(Slicing) =>
                /\ IsLine(bounds[b].direction, bounds[b].lower)
                /\ IsLine(bounds[b].direction, bounds[b].upper)
=============================================================================
