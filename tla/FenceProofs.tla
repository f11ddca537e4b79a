---------------------------- MODULE FenceProofs ----------------------------
(***************************************************************************)
(* What is read through an open handle, and that a fence is what was asked *)
(* for, in every sample.                                                   *)
(***************************************************************************)
EXTENDS CubesProofs

-----------------------------------------------------------------------------
(***************************************************************************)
(* Voxel 0 of an open handle is voxel z of a cube, at the same line, and   *)
(* the cube has all lines of the handle from there on.                     *)
(***************************************************************************)
IsPlaced(axis, of, z) ==
    /\ of.min \in Int /\ of.n \in Nat /\ StepOf(of) \in Int
    /\ axis.n \in Nat /\ axis.n >= 2
    /\ axis.min = of.min + StepOf(of) * z
    /\ z + axis.n <= of.n

\* Every axis of an open handle is placed on the axes of the cubes.
LEMMA HandleIsPlaced ==
  ASSUME HandleInv, WholeSteps(2), handle = "open", NEW c \in DOMAIN cubes, NEW d \in Dimensions
  PROVE  \E z \in Nat : /\ zero[c][AxisType(cubes[c].axes[d])] = z
                        /\ IsPlaced(axes[d], cubes[c].axes[d], z)
<1>1. IsRequest /\ IsRead(cubes[c], 3)
  BY Zenon DEF HandleInv
<1>2. PICK axis : axis = cubes[c].axes[d]
  BY Zenon
<1>3. IsAxis(axis) /\ IsSupported(axis) /\ AxisType(axis) \in {"I", "J", "K"}
  BY Zenon, <1>1, <1>2, AxesOfRequest, DimensionOfType DEF IsRead, Dimensions
<1>4. StepOf(axis) \in Int
  <2>1. PICK W \in Int, S \in Nat \ {0} : W = Width(axis) /\ S = Steps(axis)
    BY <1>3 DEF IsAxis, IsSupported, Width, Steps
  <2>2. W \div S \in Int
    OBVIOUS
  <2> QED BY Zenon, <2>1, <2>2 DEF StepOf
<1>5. CASE Len(cubes) = 1
  <2>1. c = 1
    BY <1>1, <1>5, CubesOfRequest
  <2>2. axes[d] = axis /\ zero[c][AxisType(axis)] = 0
    BY <1>2, <1>3, <1>5, <2>1 DEF HandleInv
  <2>3. axis.min = axis.min + StepOf(axis) * 0
    BY <1>3, <1>4 DEF IsAxis
  <2>4. IsPlaced(axes[d], axis, 0)
    BY <1>3, <1>4, <2>2, <2>3 DEF IsPlaced, IsAxis, IsSupported
  <2> QED BY <1>2, <2>2, <2>4
<1>6. CASE Len(cubes) = 2
  <2>1. PICK w \in Nat \ {0}, za \in Nat, zb \in Nat, e \in Nat \ {0} : IsVirtual(d, w, za, zb, e)
    BY Zenon, <1>6, VirtualAxis
  <2>2. c \in {1, 2}
    BY <1>1, <1>6, CubesOfRequest
  <2>3. PICK z \in Nat : /\ z = IF c = 1 THEN za ELSE zb
                         /\ zero[c][AxisType(axis)] = z /\ w = StepOf(axis)
                         /\ axes[d].min = axis.min + z * w /\ e <= Steps(axis) - z
                         /\ axes[d].n = e + 1
    BY ZenonT(60), <1>2, <2>1, <2>2 DEF IsVirtual, Overlap
  <2>4. z * w = w * z
    OBVIOUS
  <2>5. z + (e + 1) <= axis.n
    BY <1>3, <2>3 DEF IsAxis, Steps
  <2>6. IsPlaced(axes[d], axis, z)
    BY <1>3, <1>4, <2>3, <2>4, <2>5 DEF IsPlaced, IsAxis
  <2> QED BY Zenon, <1>2, <2>3, <2>6
<1> QED BY <1>1, <1>5, <1>6, CubesOfRequest

(***************************************************************************)
(* An open handle is typed: voxel 0 of the handle is a voxel of every      *)
(* cube, so the positions that the transformers add it to are not below 0. *)
(***************************************************************************)
THEOREM HandlesAreTyped ==
  ASSUME WholeSteps(2)
  PROVE  Spec => []TypeOK
<1> DEFINE AnswerOK == answer \in {"none", "running", "bad_request", "sent"}
<1>1. Init => AnswerOK
  BY Zenon DEF Init
<1>2. ASSUME AnswerOK, [Next]_vars PROVE AnswerOK'
  BY Zenon, <1>2 DEF Next, fenceVars, vars, GetFence, CheckPoint, ReadTraces
<1>3. ASSUME HandleInv, AnswerOK PROVE TypeOK
  <2>1. ASSUME handle = "open", NEW c \in DOMAIN cubes, NEW t \in {"I", "J", "K"}
        PROVE  zero[c][t] \in 0 .. IJKAxis(cubes[c], t).n - 1
    <3>1. PICK d \in Dimensions : d = VoxelDimension(cubes[c], t) /\ AxisType(cubes[c].axes[d]) = t
      BY Zenon, <1>3, <2>1, DimensionOfType DEF HandleInv
    <3>2. PICK z \in Nat : zero[c][t] = z /\ IsPlaced(axes[d], cubes[c].axes[d], z)
      BY Zenon, <1>3, <2>1, <3>1, HandleIsPlaced
    <3> QED BY <3>1, <3>2 DEF IsPlaced, IJKAxis
  <2>2. ASSUME handle = "open" PROVE Len(axes) = 3 /\ Len(zero) = Len(cubes)
    <3>1. IsRequest /\ \A c \in DOMAIN cubes : IsRead(cubes[c], 3)
      BY Zenon, <1>3, <2>2 DEF HandleInv
    <3>2. PICK n \in 1 .. 2 : n = Len(cubes) /\ DOMAIN cubes = 1 .. n
      BY Zenon, <3>1, CubesOfRequest
    <3>3. CASE n = 1
      BY <1>3, <2>2, <3>1, <3>2, <3>3 DEF HandleInv, IsRead
    <3>4. CASE n = 2
      BY <1>3, <2>2, <3>1, <3>2, <3>4 DEF HandleInv, AreCombined
    <3> QED BY <3>3, <3>4
  <2> QED BY Zenon, <1>3, <2>1, <2>2 DEF TypeOK, HandleInv
<1> HIDE DEF AnswerOK
<1> QED BY <1>1, <1>2, <1>3, HandleIsInvariant, PTL DEF Spec

-----------------------------------------------------------------------------
(***************************************************************************)
(* SameLinesAreCombined of what is read, and CornersAreEndsOfAxes of a     *)
(* description.                                                            *)
(***************************************************************************)
IsOfSameLines(r) ==
    \A c \in DOMAIN cubes : \A d \in Dimensions :
        LET axis == cubes[c].axes[d]
            step == Width(axis) \div Steps(axis)
            bounds == r.bounds[c]
        IN  /\ 0 <= bounds.lower[d] /\ bounds.upper[d] <= axis.n
            /\ axis.min + step * bounds.lower[d] = axes[d].min + step * r.lower[d]
            /\ bounds.upper[d] - bounds.lower[d] = r.upper[d] - r.lower[d]

IsOfCorners(document) ==
    LET i == document.axis[VoxelDimension(cubes[1], "I")]
        j == document.axis[VoxelDimension(cubes[1], "J")]
    IN  \/ document.corners = <<<<i.min, j.min>>, <<i.max, j.min>>, <<i.max, j.max>>, <<i.min, j.max>>>>
        \/ /\ document.corners = <<<<i.min, j.min>>, <<i.max, j.max>>>>
           /\ i.min = i.max \/ j.min = j.max

\* The boxes that to_cube_voxel_position makes of a box of the handle.
LEMMA BoundsAreOfSameLines ==
  ASSUME HandleInv, WholeSteps(2), handle = "open", NEW lower, NEW upper,
         \A d \in Dimensions : lower[d] \in Nat /\ upper[d] \in Nat /\ upper[d] <= axes[d].n
  PROVE  IsOfSameLines(InEveryCube(lower, upper))
<1>1. SUFFICES ASSUME NEW c \in DOMAIN cubes, NEW d \in Dimensions
               PROVE  LET axis == cubes[c].axes[d]
                          step == Width(axis) \div Steps(axis)
                          bounds == InEveryCube(lower, upper).bounds[c]
                      IN  /\ 0 <= bounds.lower[d] /\ bounds.upper[d] <= axis.n
                          /\ axis.min + step * bounds.lower[d]
                               = axes[d].min + step * InEveryCube(lower, upper).lower[d]
                          /\ bounds.upper[d] - bounds.lower[d]
                               = InEveryCube(lower, upper).upper[d] - InEveryCube(lower, upper).lower[d]
  BY Zenon DEF IsOfSameLines
<1>2. PICK axis, step : axis = cubes[c].axes[d] /\ step = StepOf(axis)
  BY Zenon
<1>3. PICK z \in Nat : zero[c][AxisType(axis)] = z /\ IsPlaced(axes[d], axis, z)
  BY Zenon, <1>2, HandleIsPlaced
<1>4. /\ InEveryCube(lower, upper).lower = lower /\ InEveryCube(lower, upper).upper = upper
      /\ InEveryCube(lower, upper).bounds[c].lower[d] = lower[d] + z
      /\ InEveryCube(lower, upper).bounds[c].upper[d] = upper[d] + z
  BY Zenon, <1>2, <1>3 DEF InEveryCube, to_cube_voxel_position
<1>5. PICK l \in Nat, u \in Nat : l = lower[d] /\ u = upper[d] /\ u <= axes[d].n
  BY Zenon
<1>6. 0 <= l + z /\ u + z <= axis.n /\ (u + z) - (l + z) = u - l
  BY <1>3, <1>5 DEF IsPlaced
<1>7. axis.min + step * (l + z) = axes[d].min + step * l
  <2>1. PICK m \in Int, p \in Int, q \in Int : m = axis.min /\ p = step * l /\ q = step * z
    BY <1>2, <1>3 DEF IsPlaced
  <2>2. step * (l + z) = p + q
    BY <1>2, <1>3, <2>1 DEF IsPlaced
  <2>3. axes[d].min = m + q
    BY Zenon, <1>2, <1>3, <2>1 DEF IsPlaced
  <2> QED BY <2>1, <2>2, <2>3
<1>8. step = Width(axis) \div Steps(axis)
  BY Zenon, <1>2 DEF StepOf
<1> QED BY Zenon, <1>2, <1>4, <1>5, <1>6, <1>7, <1>8

(***************************************************************************)
(* A line by the transformer of cube A is the line by the axis.            *)
(***************************************************************************)
LEMMA LinesAgree ==
  ASSUME HandleInv, WholeSteps(2), handle = "open", NEW t \in {"I", "J", "K"}, NEW k \in Int
  PROVE  LineOf(t, k) = StepsFrom(axes[VoxelDimension(cubes[1], t)], k)
<1>1. PICK n \in 1 .. 2 : n = Len(cubes) /\ DOMAIN cubes = 1 .. n
  BY Zenon, CubesOfRequest DEF HandleInv
<1>2. IsRequest /\ IsRead(cubes[1], 3) /\ (n = 2 => IsRead(cubes[2], 3))
  BY <1>1 DEF HandleInv
<1>3. PICK d \in Dimensions : d = VoxelDimension(cubes[1], t) /\ AxisType(cubes[1].axes[d]) = t
  BY Zenon, <1>2, DimensionOfType
<1>4. PICK a : a = cubes[1].axes[d] /\ IJKAxis(cubes[1], t) = a
  BY Zenon, <1>3 DEF IJKAxis
<1>5. CASE n = 1
  <2>1. axes[d] = a /\ zero[1][t] = 0
    BY <1>1, <1>4, <1>5 DEF HandleInv
  <2>2. k + 0 = k
    OBVIOUS
  <2> QED BY Zenon, <1>3, <1>4, <2>1, <2>2 DEF LineOf, IJKIndexToAnnotation, as_cube_a_ijk_index, StepsFrom
<1>6. CASE n = 2
  <2>1. PICK w \in Nat \ {0}, za \in Nat, zb \in Nat, e \in Nat \ {0} : IsVirtual(d, w, za, zb, e)
    BY Zenon, <1>1, <1>6, VirtualAxis
  <2>2. IsAxis(a) /\ IsSupported(a) /\ HasWholeStep(a)
    BY <1>1, <1>2, <1>4, <1>6, AxesOfRequest DEF IsRead, Dimensions
  <2>3. PICK m \in Int : m = a.min
    BY Zenon, <2>2 DEF IsAxis
  <2>4. \A i \in Int : (i * Width(a)) \div Steps(a) = i * w
    <3>1. w = StepOf(a)
      BY Zenon, <1>4, <2>1 DEF IsVirtual, Overlap
    <3> QED BY Zenon, <2>2, <3>1, AxisOfWholeStep
  <2>5. LineOf(t, k) = m + (k + za) * w
    <3>1. zero[1][t] = za /\ k + za \in Int
      BY <1>3, <2>1 DEF IsVirtual
    <3> QED BY Zenon, <1>4, <2>3, <2>4, <3>1 DEF LineOf, IJKIndexToAnnotation, as_cube_a_ijk_index
  <2>6. (k * (e * w)) \div e = k * w
    <3>1. PICK g \in Int : g = k * w
      OBVIOUS
    <3>2. k * (e * w) = g * e /\ (g * e) \div e = g
      BY <3>1
    <3> QED BY Zenon, <3>1, <3>2
  <2>7. StepsFrom(axes[d], k) = m + za * w + k * w
    BY Zenon, <1>4, <2>1, <2>3, <2>6 DEF StepsFrom, IsVirtual, Overlap
  <2>8. m + (k + za) * w = m + za * w + k * w
    OBVIOUS
  <2> QED BY Zenon, <1>3, <2>5, <2>7, <2>8
<1> QED BY <1>5, <1>6

\* Corners and axes of a description agree.
LEMMA DocumentsAreOfCorners ==
  ASSUME HandleInv, WholeSteps(2), handle = "open", NEW lower, NEW upper, NEW corners,
         \A d \in Dimensions : lower[d] \in Nat /\ upper[d] \in Nat,
         LET i == VoxelDimension(cubes[1], "I")
             j == VoxelDimension(cubes[1], "J")
         IN  \/ corners = Around(lower, upper)
             \/ /\ corners = <<Corner(lower[i], lower[j]), Corner(upper[i] - 1, upper[j] - 1)>>
                /\ lower[i] = upper[i] - 1 \/ lower[j] = upper[j] - 1
  PROVE  IsOfCorners(Document(lower, upper, corners))
<1>1. IsRead(cubes[1], 3)
  BY CubesOfRequest DEF HandleInv
<1>2. PICK i \in Dimensions, j \in Dimensions :
          i = VoxelDimension(cubes[1], "I") /\ j = VoxelDimension(cubes[1], "J")
  BY Zenon, <1>1, DimensionOfType
<1>3. \A k \in Int : LineOf("I", k) = StepsFrom(axes[i], k) /\ LineOf("J", k) = StepsFrom(axes[j], k)
  BY Zenon, <1>2, LinesAgree
<1>4. /\ lower[i] \in Int /\ upper[i] - 1 \in Int /\ lower[j] \in Int /\ upper[j] - 1 \in Int
  OBVIOUS
<1>5. PICK document : document = Document(lower, upper, corners)
  BY Zenon
<1>6. /\ document.axis[i].min = LineOf("I", lower[i]) /\ document.axis[i].max = LineOf("I", upper[i] - 1)
      /\ document.axis[j].min = LineOf("J", lower[j]) /\ document.axis[j].max = LineOf("J", upper[j] - 1)
      /\ document.corners = corners
  BY Zenon, <1>3, <1>4, <1>5 DEF Document, json_axis
<1>7. CASE corners = Around(lower, upper)
  BY ZenonT(60), <1>2, <1>5, <1>6, <1>7 DEF IsOfCorners, Around, Corner
<1>8. CASE /\ corners = <<Corner(lower[i], lower[j]), Corner(upper[i] - 1, upper[j] - 1)>>
           /\ lower[i] = upper[i] - 1 \/ lower[j] = upper[j] - 1
  <2>1. document.axis[i].min = document.axis[i].max \/ document.axis[j].min = document.axis[j].max
    BY Zenon, <1>6, <1>8
  <2>2. document.corners = <<<<document.axis[i].min, document.axis[j].min>>,
                             <<document.axis[i].max, document.axis[j].max>>>>
    BY ZenonT(60), <1>6, <1>8 DEF Corner
  <2> QED BY ZenonT(60), <1>2, <1>5, <2>1, <2>2 DEF IsOfCorners
<1> QED BY Zenon, <1>2, <1>7, <1>8

(***************************************************************************)
(* What is read and described, once it is, stays as the handle does.       *)
(***************************************************************************)
ReadInv == SameLinesAreCombined /\ CornersAreEndsOfAxes

\* An open handle is never changed.
LEMMA OpenHandleStays ==
  ASSUME handle = "open", [Next]_vars
  PROVE  UNCHANGED <<cubes, axes, zero, handle>>
<1>1. CASE Metadata \/ ReadSubcube \/ ReadSamples
  BY Zenon, <1>1 DEF Metadata, ReadSubcube, ReadSamples, request
<1>2. CASE GetFence \/ CheckPoint \/ ReadTraces \/ UNCHANGED vars
  <2>1. UNCHANGED cubeVars
    BY Zenon, <1>2 DEF GetFence, CheckPoint, ReadTraces, vars
  <2> QED BY Zenon, <2>1 DEF cubeVars
<1> QED BY Zenon, <1>1, <1>2 DEF Next, Cube, OpenCube, ReadAxis, CompareSurveys, CombineAxis, MakeDouble

\* What was read and described is not changed by other steps.
LEMMA ReadStays ==
  ASSUME HandleInv, ReadInv, UNCHANGED <<read, doc>>, [Next]_vars
  PROVE  ReadInv'
<1>1. CASE handle = "open"
  BY ZenonT(60), <1>1, OpenHandleStays
     DEF ReadInv, SameLinesAreCombined, CornersAreEndsOfAxes, VoxelDimension
<1>2. CASE handle # "open"
  BY Zenon, <1>2 DEF HandleInv, ReadInv, SameLinesAreCombined, CornersAreEndsOfAxes
<1> QED BY Zenon, <1>1, <1>2

\* Every step keeps what is known of it.
LEMMA ReadInvStep ==
  ASSUME HandleInv, WholeSteps(2), ReadInv, [Next]_vars
  PROVE  ReadInv'
<1>1. ASSUME handle = "open", NEW r, NEW document, read' = r, doc' = document,
             r = <<>> \/ IsOfSameLines(r), document = <<>> \/ IsOfCorners(document)
      PROVE  ReadInv'
  <2>1. cubes' = cubes /\ axes' = axes
    BY Zenon, <1>1, OpenHandleStays
  <2>2. read' # <<>> => IsOfSameLines(r)
    BY Zenon, <1>1
  <2>3. doc' # <<>> => IsOfCorners(document)
    BY Zenon, <1>1
  <2>4. SameLinesAreCombined'
    BY Zenon, <1>1, <2>1, <2>2 DEF SameLinesAreCombined, IsOfSameLines
  <2>5. CornersAreEndsOfAxes'
    BY ZenonT(60), <1>1, <2>1, <2>3 DEF CornersAreEndsOfAxes, IsOfCorners, VoxelDimension
  <2> QED BY Zenon, <2>4, <2>5 DEF ReadInv
<1>2. ASSUME handle = "open" PROVE \A d \in Dimensions : axes[d].n \in Nat /\ axes[d].n >= 2
  <2>1. 1 \in DOMAIN cubes
    BY CubesOfRequest DEF HandleInv
  <2> QED BY Zenon, <1>2, <2>1, HandleIsPlaced DEF IsPlaced
<1>3. CASE Metadata
  <2>1. PICK lower, upper : lower = [d \in Dimensions |-> 0] /\ upper = [d \in Dimensions |-> axes[d].n]
    BY ZenonT(60)
  <2>2. handle = "open" /\ read' = <<>> /\ doc' = Document(lower, upper, BoundingBox)
    BY Zenon, <1>3, <2>1 DEF Metadata, IsIdle
  <2>3. \A d \in Dimensions : lower[d] = 0 /\ upper[d] = axes[d].n /\ lower[d] \in Nat /\ upper[d] \in Nat
    BY Zenon, <1>2, <2>1, <2>2
  <2>4. PICK i \in Dimensions, j \in Dimensions :
            i = VoxelDimension(cubes[1], "I") /\ j = VoxelDimension(cubes[1], "J")
    <3>1. IsRead(cubes[1], 3)
      BY <2>2, CubesOfRequest DEF HandleInv
    <3> QED BY Zenon, <3>1, DimensionOfType
  <2>5. BoundingBox = Around(lower, upper)
    BY Zenon, <2>3, <2>4 DEF BoundingBox, Around
  <2>6. IsOfCorners(Document(lower, upper, BoundingBox))
    BY Zenon, <2>2, <2>3, <2>5, DocumentsAreOfCorners
  <2> QED BY Zenon, <1>1, <2>2, <2>6
<1>4. CASE ReadSubcube
  <2>1. handle = "open"
    BY Zenon, <1>4 DEF ReadSubcube, IsIdle
  <2>2. PICK x, y, z, direction, lower, upper :
            /\ x \in Ranges(1) /\ y \in Ranges(2) /\ z \in Ranges(3)
            /\ lower = <<x[1], y[1], z[1]>> /\ upper = <<x[2], y[2], z[2]>>
            /\ direction \in {"I", "J", "K"} /\ IsSlice(direction, lower, upper)
            /\ doc' = Document(lower, upper, json_slice_geospatial(direction, lower, upper))
            /\ read' = InEveryCube(lower, upper)
    BY Zenon, <1>4 DEF ReadSubcube
  <2>3. \A d \in Dimensions : lower[d] \in Nat /\ upper[d] \in Nat /\ upper[d] <= axes[d].n
    BY <1>2, <2>1, <2>2 DEF Ranges, Dimensions
  <2>4. IsOfSameLines(InEveryCube(lower, upper))
    BY Zenon, <2>1, <2>3, BoundsAreOfSameLines
  <2>5. IsOfCorners(Document(lower, upper, json_slice_geospatial(direction, lower, upper)))
    <3>1. PICK i \in Dimensions, j \in Dimensions :
              i = VoxelDimension(cubes[1], "I") /\ j = VoxelDimension(cubes[1], "J")
      <4>1. IsRead(cubes[1], 3)
        BY <2>1, CubesOfRequest DEF HandleInv
      <4> QED BY Zenon, <4>1, DimensionOfType
    <3>2. CASE direction = "K"
      BY Zenon, <2>1, <2>3, <3>2, DocumentsAreOfCorners DEF json_slice_geospatial
    <3>3. CASE direction # "K"
      <4>1. lower[i] = upper[i] - 1 \/ lower[j] = upper[j] - 1
        <5>1. upper[i] = lower[i] + 1 \/ upper[j] = lower[j] + 1
          BY Zenon, <2>2, <3>1, <3>3 DEF IsSlice
        <5>2. lower[i] \in Nat /\ lower[j] \in Nat
          BY Zenon, <2>3, <3>1
        <5> QED BY <5>1, <5>2
      <4>2. json_slice_geospatial(direction, lower, upper)
              = <<Corner(lower[i], lower[j]), Corner(upper[i] - 1, upper[j] - 1)>>
        BY ZenonT(60), <3>1, <3>3 DEF json_slice_geospatial, Around
      <4> QED BY Zenon, <2>1, <2>3, <3>1, <4>1, <4>2, DocumentsAreOfCorners
    <3> QED BY Zenon, <3>2, <3>3
  <2> QED BY Zenon, <1>1, <2>1, <2>2, <2>4, <2>5
<1>5. CASE ReadSamples
  <2>1. handle = "open" /\ doc' = <<>>
    BY Zenon, <1>5 DEF ReadSamples, IsIdle
  <2>2. PICK x, y, z, v :
            /\ x \in 0 .. Steps(axes[1]) /\ y \in 0 .. Steps(axes[2]) /\ z \in 0 .. Steps(axes[3])
            /\ v = <<x, y, z>> /\ read' = InEveryCube(v, v)
    BY Zenon, <1>5 DEF ReadSamples
  <2>3. \A d \in Dimensions : v[d] \in Nat /\ v[d] <= axes[d].n
    BY <1>2, <2>1, <2>2 DEF Steps, Dimensions
  <2>4. IsOfSameLines(InEveryCube(v, v))
    BY Zenon, <2>1, <2>3, BoundsAreOfSameLines
  <2> QED BY Zenon, <1>1, <2>1, <2>2, <2>4
<1>6. CASE UNCHANGED <<read, doc>>
  BY Zenon, <1>6, ReadStays
<1>7. Metadata \/ ReadSubcube \/ ReadSamples \/ UNCHANGED <<read, doc>>
  <2>1. CASE OpenCube \/ ReadAxis \/ CompareSurveys \/ CombineAxis \/ MakeDouble
    BY ZenonT(60), <2>1 DEF OpenCube, ReadAxis, CompareSurveys, CombineAxis, MakeDouble, Fail
  <2>2. CASE GetFence \/ CheckPoint \/ ReadTraces \/ UNCHANGED vars
    BY ZenonT(60), <2>2 DEF GetFence, CheckPoint, ReadTraces, vars, cubeVars
  <2> QED BY Zenon, <2>1, <2>2 DEF Next, Cube
<1> QED BY Zenon, <1>3, <1>4, <1>5, <1>6, <1>7

(***************************************************************************)
(* ReadInv is an invariant of read_subcube, read_samples and metadata.     *)
(***************************************************************************)
THEOREM ReadIsInvariant ==
  ASSUME WholeSteps(2)
  PROVE  Spec => []ReadInv
<1>1. Init => ReadInv
  BY Zenon DEF Init, InitCubes, ReadInv, SameLinesAreCombined, CornersAreEndsOfAxes
<1> QED BY <1>1, HandleIsInvariant, ReadInvStep, PTL DEF Spec

(***************************************************************************)
(* read_subcube and read_samples combine the same lines of two cubes.      *)
(***************************************************************************)
THEOREM CombinedLinesAreSame ==
  ASSUME WholeSteps(2)
  PROVE  Spec => []SameLinesAreCombined
BY ReadIsInvariant, PTL DEF ReadInv

(***************************************************************************)
(* The corners in metadata are the ends of the axes.                       *)
(***************************************************************************)
THEOREM CornersAreEnds ==
  ASSUME WholeSteps(2)
  PROVE  Spec => []CornersAreEndsOfAxes
BY ReadIsInvariant, PTL DEF ReadInv

-----------------------------------------------------------------------------
(***************************************************************************)
(* transform_coordinate: a point in index coordinates is where Asked says  *)
(* it is, although the index goes through cube A.                          *)
(***************************************************************************)
LEMMA AskedOfPlace ==
  ASSUME HandleInv, WholeSteps(1), handle = "open", NEW t \in {"I", "J"}, NEW x \in Int
  PROVE  /\ Annotation(t, x) \in Int
         /\ Asked(t, x) = ((Annotation(t, x) - Axis(t).min) * Steps(Axis(t))) * Unit
<1>0. 1 \in DOMAIN cubes
  BY CubesOfRequest DEF HandleInv
<1>1. PICK d \in Dimensions : /\ AxisType(cubes[1].axes[d]) = t /\ Axis(t) = axes[d]
                              /\ IJKAxis(cubes[1], t) = cubes[1].axes[d]
  BY <1>0, SameDimensions
<1>2. PICK axis, of : /\ axis = axes[d] /\ of = cubes[1].axes[d]
                      /\ Axis(t) = axis /\ IJKAxis(cubes[1], t) = of
  BY Zenon, <1>1
<1>3. PICK z \in Nat, w \in Nat \ {0} : zero[1][t] = z /\ IsAligned(axis, of, z, w)
  BY Zenon, <1>0, <1>1, <1>2, HandleIsAligned
<1>4. PICK a \in Int, s \in Nat \ {0}, b \in Nat \ {0}, m \in Int :
          a = axis.min /\ s = Steps(axis) /\ b = Steps(of) /\ m = of.min
  <2>1. IsAxis(axis) /\ IsSupported(axis) /\ IsAxis(of) /\ IsSupported(of)
    BY Zenon, <1>3 DEF IsAligned
  <2> QED BY <2>1 DEF IsAxis, IsSupported, Steps
<1>5. PICK U \in Nat \ {0}, u \in Nat \ {0} : U = Unit /\ w = U * u
  BY Zenon, <1>3, CubesAssumption DEF IsAligned
<1>6. Width(axis) = s * w /\ Width(of) = b * w /\ a = m + z * w
  BY Zenon, <1>3, <1>4 DEF IsAligned
<1>7. CASE fence.system = "INDEX"
  <2>1. PICK y \in Int, f \in Nat \ {0} : y = x + U * z /\ f = U * b
    OBVIOUS
  <2>2. PICK g \in Int : g = y * u
    OBVIOUS
  <2>3. y * (b * w) = g * f /\ (g * f) \div f = g
    BY <1>5, <2>1, <2>2
  <2>4. Annotation(t, x) = m + g
    BY Zenon, <1>2, <1>3, <1>4, <1>5, <1>6, <1>7, <2>1, <2>3 DEF Annotation
  <2>5. g = x * u + z * w
    BY <1>5, <2>1, <2>2
  <2>6. PICK e \in Int, h \in Int : e = x * u /\ h = z * w
    OBVIOUS
  <2>7. Annotation(t, x) - a = e
    BY <1>6, <2>4, <2>5, <2>6
  <2>8. Asked(t, x) = x * (s * w)
    BY Zenon, <1>2, <1>6, <1>7 DEF Asked
  <2>9. x * (s * w) = (e * s) * U
    BY <1>5, <2>6
  <2> QED BY <1>2, <1>4, <1>5, <2>2, <2>4, <2>7, <2>8, <2>9
<1>8. CASE fence.system # "INDEX"
  BY Zenon, <1>8 DEF Annotation, Asked
<1> QED BY Zenon, <1>7, <1>8

(***************************************************************************)
(* The voxel of a point is on its nearest line, if that is a line of the   *)
(* handle, and exactly then the point is in range.                         *)
(***************************************************************************)
LEMMA LinesOfPlace ==
  ASSUME HandleInv, WholeSteps(1), handle = "open", NEW t \in {"I", "J"}, NEW x \in Int
  PROVE  \E q \in Int :
           /\ to_sample_position(Axis(t), Annotation(t, x)) = q
           /\ inrange_with_margin(Axis(t), Annotation(t, x)) <=> q \in 0 .. Steps(Axis(t))
           /\ NearestLines(t, x) = IF q \in 0 .. Steps(Axis(t))
                                   THEN {Axis(t).min + q * StepOf(Axis(t))} ELSE {}
<1>0. 1 \in DOMAIN cubes
  BY CubesOfRequest DEF HandleInv
<1>1. PICK d \in Dimensions : Axis(t) = axes[d]
  BY <1>0, SameDimensions
<1>2. PICK axis : axis = axes[d] /\ Axis(t) = axis
  BY Zenon, <1>1
<1>3. PICK w \in Nat \ {0} : /\ IsAxis(axis) /\ IsSupported(axis)
                             /\ Width(axis) = Steps(axis) * w /\ StepOf(axis) = w
  <2>1. \E z \in Nat, w \in Nat \ {0} : IsAligned(axis, cubes[1].axes[d], z, w)
    BY Zenon, <1>0, <1>2, HandleIsAligned
  <2> QED BY Zenon, <2>1 DEF IsAligned
<1>4. PICK y \in Int : y = Annotation(t, x) /\ Asked(t, x) = ((y - axis.min) * Steps(axis)) * Unit
  BY Zenon, <1>2, AskedOfPlace
<1>5. PICK q \in Int :
          /\ to_sample_position(axis, y) = q
          /\ inrange_with_margin(axis, y) <=> q \in 0 .. Steps(axis)
          /\ IsNearestLine(q, y - axis.min, w)
  BY Zenon, <1>3, PositionIsNearest
<1>6. PICK m \in Int, s \in Nat \ {0}, U \in Nat \ {0}, f \in Nat \ {0} :
          m = y - axis.min /\ s = Steps(axis) /\ U = Unit /\ f = s * U
  BY <1>3, CubesAssumption DEF IsAxis, IsSupported, Steps
<1>7. ASSUME NEW k \in Int PROVE IsLineOf(t, x, k) <=> k = q
  <2>1. PICK g \in Int, v \in Int : g = 2 * (m - k * w) /\ v = - w
    OBVIOUS
  <2>2. PICK half \in Int : half = Unit * Width(axis) /\ half = w * f /\ - half = v * f
    <3>1. U * (s * w) = w * f /\ - (w * f) = (- w) * f
      BY <1>6
    <3> QED BY <1>3, <1>6, <2>1, <3>1
  <2>3. 2 * (Asked(t, x) - k * half) = g * f
    <3>1. (m * s) * U = m * f /\ k * half = (k * w) * f
      BY <1>6, <2>2
    <3>2. 2 * (m * f - (k * w) * f) = g * f
      BY <2>1
    <3> QED BY Zenon, <1>4, <1>6, <3>1, <3>2
  <2>4. /\ v * f <= g * f <=> v <= g
        /\ g * f < w * f <=> g < w
    BY Cancel
  <2>5. IsLineOf(t, x, k) <=> v * f <= g * f /\ g * f < w * f
    BY Zenon, <1>2, <2>2, <2>3 DEF IsLineOf
  <2>6. k = q <=> - w <= 2 * (m - k * w) /\ 2 * (m - k * w) < w
    BY Zenon, <1>5, <1>6 DEF IsNearestLine
  <2> QED BY Zenon, <2>1, <2>4, <2>5, <2>6
<1>8. NearestLines(t, x) = {axis.min + k * w : k \in {k \in 0 .. s : IsLineOf(t, x, k)}}
  BY Zenon, <1>2, <1>3, <1>6 DEF NearestLines, StepOf
<1>9. {k \in 0 .. s : IsLineOf(t, x, k)} = IF q \in 0 .. s THEN {q} ELSE {}
  BY <1>7
<1>10. NearestLines(t, x) = IF q \in 0 .. s THEN {axis.min + q * w} ELSE {}
  BY Zenon, <1>8, <1>9
<1> QED BY Zenon, <1>2, <1>3, <1>4, <1>5, <1>6, <1>10

\* The point of a fence in a voxel of the handle, and whether it is one.
VoxelOf(xy) ==
    [d \in Dimensions |->
        IF d = VoxelDimension(cubes[1], "I") THEN to_sample_position(Axis("I"), Annotation("I", xy[1]))
        ELSE IF d = VoxelDimension(cubes[1], "J") THEN to_sample_position(Axis("J"), Annotation("J", xy[2]))
        ELSE 0]
IsInside(xy) ==
    /\ inrange_with_margin(Axis("I"), Annotation("I", xy[1]))
    /\ inrange_with_margin(Axis("J"), Annotation("J", xy[2]))

\* What read_traces and write_fillvalue make of the voxels.
Response ==
    [index \in 0 .. point * nsamples - 1 |->
        IF \E noval \in noval_indicies : index \in noval .. noval + nsamples - 1
        THEN {}
        ELSE {SourceTrace(c, Extract(c, index \div nsamples, index % nsamples)) : c \in DOMAIN cubes}]

\* The voxels of points depend on the handle and the fence alone.
LEMMA FenceStays ==
  ASSUME UNCHANGED <<cubes, axes, zero, fence>>
  PROVE  /\ nsamples' = nsamples
         /\ \A xy : VoxelOf(xy)' = VoxelOf(xy) /\ (IsInside(xy)' <=> IsInside(xy))
<1>1. nsamples' = nsamples
  BY Zenon DEF nsamples, Axis
<1>2. \A t, x : Annotation(t, x)' = Annotation(t, x) /\ Axis(t)' = Axis(t)
  BY Zenon DEF Annotation, Axis
<1>3. ASSUME NEW xy PROVE VoxelOf(xy)' = VoxelOf(xy)
  <2>1. /\ to_sample_position(Axis("I"), Annotation("I", xy[1]))'
             = to_sample_position(Axis("I"), Annotation("I", xy[1]))
        /\ to_sample_position(Axis("J"), Annotation("J", xy[2]))'
             = to_sample_position(Axis("J"), Annotation("J", xy[2]))
    BY Zenon, <1>2
  <2>2. cubes' = cubes
    BY Zenon
  <2> QED BY ZenonT(60), <2>1, <2>2 DEF VoxelOf
<1>4. ASSUME NEW xy PROVE IsInside(xy)' <=> IsInside(xy)
  BY Zenon, <1>2 DEF IsInside
<1> QED BY Zenon, <1>1, <1>3, <1>4

\* What is read depends on the handle and on what the loop has collected.
LEMMA ResponseStays ==
  ASSUME UNCHANGED <<cubes, axes, zero, point, coords, noval_indicies>>
  PROVE  Response' = Response
<1>1. nsamples' = nsamples
  BY Zenon DEF nsamples, Axis
<1>2. \A c : SourceLength(c)' = SourceLength(c)
  BY Zenon DEF SourceLength
<1>3. \A c, x : to_cube_voxel_position(c, x)' = to_cube_voxel_position(c, x)
  BY Zenon DEF to_cube_voxel_position
<1>4. \A c, p, s : Extract(c, p, s)' = Extract(c, p, s)
  BY Zenon, <1>2, <1>3 DEF Extract, TraceStart
<1>5. \A c, index : SourceTrace(c, index)' = SourceTrace(c, index)
  BY Zenon, <1>2, <1>3 DEF SourceTrace
<1> QED BY Zenon, <1>1, <1>4, <1>5 DEF Response

\* A fence that was asked for is not the one that stands for none.
LEMMA FenceIsThere ==
  ASSUME NEW f \in Fences
  PROVE  /\ f # <<>> /\ f.coordinates \in Seq(Seq(Int)) /\ f.fill \in BOOLEAN
<1>1. f \in [system : STRING, coordinates : Seq(Seq(Int)), fill : BOOLEAN]
  BY Zenon, FencesAssumption
<1>2. "fill" \in DOMAIN f
  BY Zenon, <1>1
<1>3. DOMAIN <<>> = {}
  OBVIOUS
<1>4. f # <<>>
  BY Zenon, <1>2, <1>3
<1> QED BY Zenon, <1>1, <1>4

-----------------------------------------------------------------------------
\* RequestVolumeTraces need not move a voxel that the cube has.
LEMMA NearestIsItself ==
  ASSUME NEW axis, NEW v \in Int, v \in 0 .. Steps(axis), Steps(axis) \in Nat
  PROVE  Nearest(axis, v) = v
<1>1. PICK s \in Int : s = Steps(axis) /\ v <= s /\ 0 <= v
  OBVIOUS
<1>2. Min({v, s}) = IF v <= s THEN v ELSE s
  BY Zenon, OfTwo
<1>3. Max({0, v}) = v
  <2>1. Max({0, v}) = IF 0 >= v THEN 0 ELSE v
    BY OfTwo
  <2> QED BY <1>1, <2>1
<1> QED BY Zenon, <1>1, <1>2, <1>3 DEF Nearest

\* Line k of an axis of the handle, and the place of a sample.
LineAt(t, k) == Axis(t).min + k * StepOf(Axis(t))
PlaceAt(i, j, s) == <<LineAt("I", i), LineAt("J", j), LineAt("K", s)>>

\* A voxel of the handle is at the same line in every cube.
LEMMA LineOfVoxel ==
  ASSUME HandleInv, WholeSteps(1), handle = "open", NEW c \in DOMAIN cubes,
         NEW t \in {"I", "J", "K"}, NEW k \in 0 .. Steps(Axis(t))
  PROVE  \E z \in Nat :
           /\ zero[c][t] = z /\ z + Axis(t).n <= IJKAxis(cubes[c], t).n
           /\ Axis(t).n \in Nat \ {0} /\ IJKAxis(cubes[c], t).n \in Nat \ {0}
           /\ Nearest(IJKAxis(cubes[c], t), k + z) = k + z
           /\ IJKIndexToAnnotation(IJKAxis(cubes[c], t), k + z)
                = LineAt(t, k)
<1>1. PICK d \in Dimensions : /\ AxisType(cubes[c].axes[d]) = t
                              /\ Axis(t) = axes[d] /\ IJKAxis(cubes[c], t) = cubes[c].axes[d]
  BY Zenon, SameDimensions
<1>2. PICK axis, of : /\ axis = axes[d] /\ of = cubes[c].axes[d]
                      /\ Axis(t) = axis /\ IJKAxis(cubes[c], t) = of
  BY Zenon, <1>1
<1>3. PICK z \in Nat, w \in Nat \ {0} : zero[c][t] = z /\ IsAligned(axis, of, z, w)
  BY Zenon, <1>1, <1>2, HandleIsAligned
<1>4. PICK a \in Int, m \in Int, n \in Nat, l \in Nat :
          a = axis.min /\ m = of.min /\ n = axis.n /\ l = of.n /\ n >= 2 /\ l >= 2
  <2>1. IsAxis(axis) /\ IsSupported(axis) /\ IsAxis(of) /\ IsSupported(of)
    BY Zenon, <1>3 DEF IsAligned
  <2> QED BY Zenon, <2>1 DEF IsAxis, IsSupported
<1>5. a = m + z * w /\ z + n <= l /\ StepOf(axis) = w /\ k \in 0 .. n - 1 /\ Steps(of) = l - 1
  BY Zenon, <1>2, <1>3, <1>4 DEF IsAligned, Steps
<1>6. PICK v \in Int : v = k + z /\ v \in 0 .. l - 1 /\ l - 1 \in Nat
  BY <1>4, <1>5
<1>7. Nearest(of, v) = v
  BY Zenon, <1>5, <1>6, NearestIsItself
<1>8. IJKIndexToAnnotation(of, v) = m + v * w
  BY Zenon, <1>3, <1>4 DEF IsAligned
<1>9. m + v * w = a + k * w
  BY <1>5, <1>6
<1>10. n \in Nat \ {0} /\ l \in Nat \ {0}
  BY <1>4
<1> QED BY Zenon, <1>2, <1>3, <1>4, <1>5, <1>6, <1>7, <1>8, <1>9, <1>10 DEF LineAt

\* Point p of the fence has voxel <<i, j>>.
IsVoxelAt(p, i, j) ==
    /\ coords[1][VoxelDimension(cubes[1], "K")] = 0
    /\ coords[p + 1][VoxelDimension(cubes[1], "I")] = i
    /\ coords[p + 1][VoxelDimension(cubes[1], "J")] = j

(***************************************************************************)
(* extract_continuous_part_of_trace: sample s of trace p is taken from the *)
(* line of the voxel of the point, at depth s of the handle.               *)
(***************************************************************************)
LEMMA SampleIsOfVoxel ==
  ASSUME HandleInv, WholeSteps(1), handle = "open", NEW c \in DOMAIN cubes,
         NEW p \in Nat, NEW s \in 0 .. nsamples - 1,
         NEW i \in 0 .. Steps(Axis("I")), NEW j \in 0 .. Steps(Axis("J")), IsVoxelAt(p, i, j)
  PROVE  SourceTrace(c, Extract(c, p, s)) = PlaceAt(i, j, s)
<1>1i. PICK di \in Dimensions : /\ di = VoxelDimension(cubes[1], "I") /\ di = VoxelDimension(cubes[c], "I")
                               /\ AxisType(cubes[c].axes[di]) = "I"
  BY Zenon, SameDimensions
<1>1j. PICK dj \in Dimensions : /\ dj = VoxelDimension(cubes[1], "J") /\ dj = VoxelDimension(cubes[c], "J")
                               /\ AxisType(cubes[c].axes[dj]) = "J"
  BY Zenon, SameDimensions
<1>1k. PICK dk \in Dimensions : /\ dk = VoxelDimension(cubes[1], "K") /\ dk = VoxelDimension(cubes[c], "K")
                               /\ AxisType(cubes[c].axes[dk]) = "K"
  BY Zenon, SameDimensions
<1>2. s \in 0 .. Steps(Axis("K"))
  BY Zenon DEF nsamples, Steps
<1>3. PICK zi \in Nat : /\ zero[c]["I"] = zi
                        /\ Nearest(IJKAxis(cubes[c], "I"), i + zi) = i + zi
                        /\ IJKIndexToAnnotation(IJKAxis(cubes[c], "I"), i + zi)
                             = LineAt("I", i)
  BY Zenon, LineOfVoxel
<1>4. PICK zj \in Nat : /\ zero[c]["J"] = zj
                        /\ Nearest(IJKAxis(cubes[c], "J"), j + zj) = j + zj
                        /\ IJKIndexToAnnotation(IJKAxis(cubes[c], "J"), j + zj)
                             = LineAt("J", j)
  BY Zenon, LineOfVoxel
<1>5. PICK zk \in Nat : /\ zero[c]["K"] = zk
                        /\ zk + nsamples <= SourceLength(c)
                        /\ nsamples \in Nat \ {0} /\ SourceLength(c) \in Nat \ {0}
                        /\ IJKIndexToAnnotation(IJKAxis(cubes[c], "K"), s + zk)
                             = LineAt("K", s)
  BY Zenon, <1>2, LineOfVoxel DEF nsamples, SourceLength
<1>6. PICK L \in Nat \ {0}, n \in Nat \ {0} : L = SourceLength(c) /\ n = nsamples
  BY Zenon, <1>5
<1>7. PICK index \in Int : index = p * L + (0 + zk) + s /\ p * L <= index /\ index < p * L + L
                           /\ index - p * L = s + zk
  <2>1. PICK b \in Int : b = p * L
    OBVIOUS
  <2>2. s \in 0 .. n - 1 /\ zk + n <= L
    BY Zenon, <1>5, <1>6
  <2> QED BY <2>1, <2>2
<1>8. Extract(c, p, s) = index
  <2>1. to_cube_voxel_position(c, coords[1])[dk] = 0 + zk
    BY Zenon, <1>1k, <1>5 DEF to_cube_voxel_position, IsVoxelAt
  <2> QED BY Zenon, <1>1k, <1>6, <1>7, <2>1 DEF Extract, TraceStart
<1>9. index \div L = p /\ index % L = s + zk
  BY <1>7, Quotient
<1>10. /\ to_cube_voxel_position(c, coords[p + 1])[di] = i + zi
       /\ to_cube_voxel_position(c, coords[p + 1])[dj] = j + zj
  BY Zenon, <1>1i, <1>1j, <1>3, <1>4 DEF to_cube_voxel_position, IsVoxelAt
<1> QED BY Zenon, <1>1i, <1>1j, <1>3, <1>4, <1>5, <1>6, <1>8, <1>9, <1>10 DEF SourceTrace, PlaceAt

\* The coordinates that GetFence accepts.
IsOfPairs ==
    /\ fence.coordinates # <<>>
    /\ \A p \in DOMAIN fence.coordinates : Len(fence.coordinates[p]) = 2

(***************************************************************************)
(* The loop over the points of a fence, up to a point: the voxels so far,  *)
(* and where the traces without value begin.                               *)
(***************************************************************************)
IsChecked ==
    /\ IsOfPairs
    /\ point \in 0 .. Len(fence.coordinates)
    /\ coords \in Seq([Dimensions -> Int]) /\ Len(coords) = point
    /\ \A p \in 1 .. point : coords[p] = VoxelOf(fence.coordinates[p])
    /\ \A index : index \in noval_indicies <=>
            \E p \in 1 .. point : ~ IsInside(fence.coordinates[p]) /\ index = (p - 1) * nsamples
    /\ fence.fill \/ \A p \in 1 .. point : IsInside(fence.coordinates[p])

(***************************************************************************)
(* The inductive invariant of a fence: a refusal is for a point that lies  *)
(* outside, and an answer is what is read at the voxels of all points.     *)
(***************************************************************************)
FenceInv ==
    /\ answer \in {"none", "running", "bad_request", "sent"}
    /\ answer = "none" => point = 0 /\ coords = <<>> /\ noval_indicies = {}
    /\ answer # "none" => handle = "open" /\ fence \in Fences
    /\ answer = "bad_request" /\ IsOfPairs =>
         ~ fence.fill /\ \E p \in DOMAIN fence.coordinates : ~ IsInside(fence.coordinates[p])
    /\ answer \in {"running", "sent"} => IsChecked
    /\ answer = "sent" => point = Len(fence.coordinates) /\ data = Response

\* GetFence starts the loop, or refuses points that are not pairs.
LEMMA GetFenceStep ==
  ASSUME FenceInv, GetFence
  PROVE  FenceInv'
<1>1. PICK f \in Fences : /\ fence' = f
                          /\ answer' = IF f.coordinates # <<>> /\ \A p \in DOMAIN f.coordinates : Len(f.coordinates[p]) = 2
                                       THEN "running" ELSE "bad_request"
  BY Zenon DEF GetFence
<1>2. f.coordinates \in Seq(Seq(Int)) /\ f.fill \in BOOLEAN
  BY Zenon, FenceIsThere
<1>3. answer = "none"
  BY Zenon, FenceIsThere DEF GetFence, FenceInv
<1>4. /\ handle' = "open" /\ point' = 0 /\ coords' = <<>> /\ noval_indicies' = {}
  BY Zenon, <1>3 DEF GetFence, FenceInv, IsIdle, cubeVars
<1>5. answer' \in {"running", "bad_request"} /\ (answer' = "running" <=> IsOfPairs')
  BY Zenon, <1>1 DEF IsOfPairs
<1>6. ASSUME IsOfPairs' PROVE IsChecked'
  <2>1. PICK l \in Nat : l = Len(f.coordinates)
    BY <1>2
  <2>2. point' \in 0 .. Len(fence'.coordinates)
    BY <1>1, <1>4, <2>1
  <2>3. coords' \in Seq([Dimensions -> Int]) /\ Len(coords') = point'
    BY <1>4
  <2>4. ASSUME NEW p \in 1 .. point' PROVE FALSE
    BY <1>4, <2>4
  <2> QED BY Zenon, <1>4, <1>6, <2>2, <2>3, <2>4 DEF IsChecked
<1> QED BY Zenon, <1>1, <1>4, <1>5, <1>6 DEF FenceInv

\* The loop passes a point, or refuses it.
LEMMA CheckPointStep ==
  ASSUME HandleInv, WholeSteps(1), FenceInv, CheckPoint
  PROVE  FenceInv'
<1>1. /\ answer = "running" /\ handle = "open" /\ fence \in Fences /\ IsChecked
      /\ UNCHANGED <<cubes, axes, zero, handle, fence, data>>
  BY Zenon DEF CheckPoint, FenceInv, cubeVars
<1>2. PICK l \in Nat : /\ l = Len(fence.coordinates) /\ DOMAIN fence.coordinates = 1 .. l
                       /\ \A p \in 1 .. l : fence.coordinates[p] \in Seq(Int)
  <2>1. fence.coordinates \in Seq(Seq(Int))
    BY Zenon, <1>1, FenceIsThere
  <2> QED BY <2>1
<1>3. point \in Nat /\ point < l
  BY <1>1, <1>2 DEF CheckPoint, IsChecked
<1>4. PICK k \in Nat : k = point + 1 /\ k \in 1 .. l /\ k - 1 = point
  BY <1>3
<1>5. PICK xy : xy = fence.coordinates[k]
  BY Zenon
<1>6. nsamples' = nsamples /\ \A v : VoxelOf(v)' = VoxelOf(v) /\ (IsInside(v)' <=> IsInside(v))
  BY Zenon, <1>1, FenceStays
<1>7. IsOfPairs'
  BY Zenon, <1>1 DEF IsChecked, IsOfPairs
<1>8. CASE ~ IsInside(xy) /\ ~ fence.fill /\ answer' = "bad_request"
  <2>1. \E p \in DOMAIN fence'.coordinates : ~ IsInside(fence.coordinates[p])'
    BY Zenon, <1>1, <1>2, <1>4, <1>5, <1>6, <1>8
  <2> QED BY Zenon, <1>1, <1>8, <2>1 DEF FenceInv
<1>9. CASE /\ IsInside(xy) \/ fence.fill
           /\ noval_indicies' = noval_indicies \union (IF IsInside(xy) THEN {} ELSE {NovalIndex(point)})
           /\ coords' = Append(coords, VoxelOf(xy))
           /\ point' = k /\ answer' = "running"
  <2>1. VoxelOf(xy) \in [Dimensions -> Int]
    <3>1. xy[1] \in Int /\ xy[2] \in Int
      <4>1. xy \in Seq(Int) /\ Len(xy) = 2
        BY Zenon, <1>1, <1>2, <1>4, <1>5 DEF IsChecked, IsOfPairs
      <4> QED BY <4>1
    <3>2. /\ to_sample_position(Axis("I"), Annotation("I", xy[1])) \in Int
          /\ to_sample_position(Axis("J"), Annotation("J", xy[2])) \in Int
      BY Zenon, <1>1, <3>1, LinesOfPlace
    <3> QED BY <3>2 DEF VoxelOf
  <2>2. coords' \in Seq([Dimensions -> Int]) /\ Len(coords') = k
    BY <1>1, <1>4, <1>9, <2>1 DEF IsChecked
  <2>3. coords'[k] = VoxelOf(xy) /\ \A p \in 1 .. point : coords'[p] = coords[p]
    BY <1>1, <1>4, <1>9, <2>1 DEF IsChecked
  <2>4. \A p \in 1 .. k : p = k \/ p \in 1 .. point
    BY <1>3, <1>4
  <2>5. \A p \in 1 .. point : p \in 1 .. k
    BY <1>3, <1>4
  <2>6. ASSUME NEW p \in 1 .. point'
        PROVE  coords'[p] = VoxelOf(fence.coordinates[p])'
    BY Zenon, <1>1, <1>5, <1>6, <1>9, <2>3, <2>4 DEF IsChecked
  <2>7. ASSUME NEW index
        PROVE  index \in noval_indicies' <=>
                 \E p \in 1 .. point' : /\ ~ IsInside(fence.coordinates[p])'
                                        /\ index = (p - 1) * nsamples'
    <3>1. index \in noval_indicies <=>
            \E p \in 1 .. point : ~ IsInside(fence.coordinates[p]) /\ index = (p - 1) * nsamples
      BY Zenon, <1>1 DEF IsChecked
    <3>2. index \in noval_indicies' <=>
            index \in noval_indicies \/ (~ IsInside(xy) /\ index = (k - 1) * nsamples)
      BY Zenon, <1>4, <1>9 DEF NovalIndex
    <3>3. k \in 1 .. k
      BY <1>4
    <3> QED BY Zenon, <1>1, <1>5, <1>6, <1>9, <2>4, <2>5, <3>1, <3>2, <3>3
  <2>8. fence'.fill \/ \A p \in 1 .. point' : IsInside(fence.coordinates[p])'
    BY Zenon, <1>1, <1>5, <1>6, <1>9, <2>4 DEF IsChecked
  <2>9. point' \in 0 .. Len(fence'.coordinates)
    BY <1>1, <1>2, <1>4, <1>9
  <2>10. IsChecked'
    BY Zenon, <1>7, <1>9, <2>2, <2>6, <2>7, <2>8, <2>9 DEF IsChecked
  <2> QED BY Zenon, <1>1, <1>9, <2>10 DEF FenceInv
<1>10. IsInside(xy) <=> /\ inrange_with_margin(Axis("I"), Annotation("I", xy[1]))
                        /\ inrange_with_margin(Axis("J"), Annotation("J", xy[2]))
  BY Zenon DEF IsInside
<1> QED BY ZenonT(60), <1>1, <1>4, <1>5, <1>8, <1>9 DEF CheckPoint, IsInside, VoxelOf

\* The other steps leave a fence alone.
LEMMA FenceInvStays ==
  ASSUME FenceInv, UNCHANGED fenceVars, [Next]_vars
  PROVE  FenceInv'
<1>1. CASE answer = "none"
  BY Zenon, <1>1 DEF FenceInv, fenceVars
<1>2. CASE answer # "none"
  <2>1. UNCHANGED <<cubes, axes, zero, handle>> /\ handle = "open"
    BY Zenon, <1>2, OpenHandleStays DEF FenceInv
  <2>2. UNCHANGED <<fence, point, coords, noval_indicies, answer, data>>
    BY Zenon DEF fenceVars
  <2>3. nsamples' = nsamples /\ \A v : VoxelOf(v)' = VoxelOf(v) /\ (IsInside(v)' <=> IsInside(v))
    BY Zenon, <2>1, <2>2, FenceStays
  <2>4. Response' = Response
    BY Zenon, <2>1, <2>2, ResponseStays
  <2>5. IsOfPairs' <=> IsOfPairs
    BY Zenon, <2>2 DEF IsOfPairs
  <2>6. IsChecked' <=> IsChecked
    BY Zenon, <2>2, <2>3, <2>5 DEF IsChecked
  <2> QED BY Zenon, <1>2, <2>1, <2>2, <2>3, <2>4, <2>5, <2>6 DEF FenceInv
<1> QED BY Zenon, <1>1, <1>2

\* ReadTraces answers when the loop is through.
LEMMA ReadTracesStep ==
  ASSUME FenceInv, ReadTraces
  PROVE  FenceInv'
<1>1. /\ answer = "running" /\ answer' = "sent" /\ handle = "open" /\ fence \in Fences /\ IsChecked
      /\ UNCHANGED <<cubes, axes, zero, handle, fence, point, coords, noval_indicies>>
      /\ point = Len(fence.coordinates)
  BY Zenon DEF ReadTraces, FenceInv, cubeVars
<1>2. data' = Response
  BY Zenon DEF ReadTraces, Response
<1>3. nsamples' = nsamples /\ \A v : VoxelOf(v)' = VoxelOf(v) /\ (IsInside(v)' <=> IsInside(v))
  BY Zenon, <1>1, FenceStays
<1>4. Response' = Response
  BY Zenon, <1>1, ResponseStays
<1>5. IsChecked'
  BY Zenon, <1>1, <1>3 DEF IsChecked, IsOfPairs
<1> QED BY Zenon, <1>1, <1>2, <1>4, <1>5 DEF FenceInv

(***************************************************************************)
(* GetFence, the loop of fence and read_traces keep the invariant, and no  *)
(* other step disturbs it.                                                 *)
(***************************************************************************)
THEOREM FenceIsInvariant ==
  ASSUME WholeSteps(1)
  PROVE  Spec => [](HandleInv /\ FenceInv)
<1>0. WholeSteps(2)
  <2>1. \A r \in Requests : Len(r.cubes) >= 2 => Len(r.cubes) >= 1
    BY RequestsAssumption
  <2> QED BY Zenon, <2>1 DEF WholeSteps
<1>1. Init => FenceInv
  BY Zenon DEF Init, FenceInv
<1>2. ASSUME HandleInv, FenceInv, [Next]_vars PROVE FenceInv'
  <2>1. UNCHANGED fenceVars \/ GetFence \/ CheckPoint \/ ReadTraces
    BY Zenon, <1>2 DEF Next, vars
  <2> QED BY Zenon, <1>2, <2>1, FenceInvStays, GetFenceStep, CheckPointStep, ReadTracesStep
<1> QED BY <1>0, <1>1, <1>2, HandleIsInvariant, PTL DEF Spec

\* The lines that a point asks for, in both directions.
TraceOf(xy) == NearestLines("I", xy[1]) \X NearestLines("J", xy[2])

\* The voxel of a point is on these lines, if there are any.
LEMMA VoxelIsAsked ==
  ASSUME HandleInv, WholeSteps(1), handle = "open", NEW xy, xy[1] \in Int, xy[2] \in Int
  PROVE  /\ VoxelOf(xy)[VoxelDimension(cubes[1], "K")] = 0
         /\ ~ IsInside(xy) => TraceOf(xy) = {}
         /\ IsInside(xy) =>
              \E i \in 0 .. Steps(Axis("I")), j \in 0 .. Steps(Axis("J")) :
                /\ VoxelOf(xy)[VoxelDimension(cubes[1], "I")] = i
                /\ VoxelOf(xy)[VoxelDimension(cubes[1], "J")] = j
                /\ TraceOf(xy) = {<<LineAt("I", i), LineAt("J", j)>>}
<1>1. PICK i \in Int :
          /\ to_sample_position(Axis("I"), Annotation("I", xy[1])) = i
          /\ inrange_with_margin(Axis("I"), Annotation("I", xy[1])) <=> i \in 0 .. Steps(Axis("I"))
          /\ NearestLines("I", xy[1]) = IF i \in 0 .. Steps(Axis("I")) THEN {LineAt("I", i)} ELSE {}
  BY Zenon, LinesOfPlace DEF LineAt
<1>2. PICK j \in Int :
          /\ to_sample_position(Axis("J"), Annotation("J", xy[2])) = j
          /\ inrange_with_margin(Axis("J"), Annotation("J", xy[2])) <=> j \in 0 .. Steps(Axis("J"))
          /\ NearestLines("J", xy[2]) = IF j \in 0 .. Steps(Axis("J")) THEN {LineAt("J", j)} ELSE {}
  BY Zenon, LinesOfPlace DEF LineAt
<1>3. PICK di \in Dimensions, dj \in Dimensions, dk \in Dimensions :
          /\ di = VoxelDimension(cubes[1], "I") /\ dj = VoxelDimension(cubes[1], "J")
          /\ dk = VoxelDimension(cubes[1], "K") /\ di # dj /\ di # dk /\ dj # dk
  <2>1. IsRead(cubes[1], 3)
    BY CubesOfRequest DEF HandleInv
  <2>2. \A t \in {"I", "J", "K"} : /\ VoxelDimension(cubes[1], t) \in Dimensions
                                   /\ AxisType(cubes[1].axes[VoxelDimension(cubes[1], t)]) = t
    BY Zenon, <2>1, DimensionOfType
  <2>3. "I" # "J" /\ "I" # "K" /\ "J" # "K"
    BY Zenon
  <2> QED BY Zenon, <2>2, <2>3
<1>4. VoxelOf(xy)[di] = i /\ VoxelOf(xy)[dj] = j /\ VoxelOf(xy)[dk] = 0
  BY Zenon, <1>1, <1>2, <1>3 DEF VoxelOf
<1>5. IsInside(xy) <=> i \in 0 .. Steps(Axis("I")) /\ j \in 0 .. Steps(Axis("J"))
  BY Zenon, <1>1, <1>2 DEF IsInside
<1>6. ~ IsInside(xy) => TraceOf(xy) = {}
  <2>1. \A A, B : (A = {} \/ B = {}) => A \X B = {}
    BY Zenon
  <2> QED BY Zenon, <1>1, <1>2, <1>5, <2>1 DEF TraceOf
<1>7. IsInside(xy) => TraceOf(xy) = {<<LineAt("I", i), LineAt("J", j)>>}
  <2>1. \A a, b : {a} \X {b} = {<<a, b>>}
    OBVIOUS
  <2>2. PICK a, b : a = LineAt("I", i) /\ b = LineAt("J", j)
    BY Zenon
  <2>3. IsInside(xy) => NearestLines("I", xy[1]) = {a} /\ NearestLines("J", xy[2]) = {b}
    BY Zenon, <1>1, <1>2, <1>5, <2>2
  <2> QED BY Zenon, <2>1, <2>2, <2>3 DEF TraceOf
<1> QED BY Zenon, <1>3, <1>4, <1>5, <1>6, <1>7

\* Every sample of an answer is the one that was asked for.
LEMMA AnswerIsAsked ==
  ASSUME HandleInv, WholeSteps(1), FenceInv, answer = "sent",
         NEW p \in 0 .. Len(fence.coordinates) - 1, NEW s \in 0 .. nsamples - 1
  PROVE  data[p * nsamples + s]
           = {<<xy[1], xy[2], LineAt("K", s)>> : xy \in TraceOf(fence.coordinates[p + 1])}
<1>1. /\ handle = "open" /\ fence \in Fences /\ IsChecked /\ data = Response
      /\ point = Len(fence.coordinates)
  BY Zenon DEF FenceInv
<1>2. PICK l \in Nat : /\ l = Len(fence.coordinates) /\ DOMAIN fence.coordinates = 1 .. l
                       /\ \A k \in 1 .. l : fence.coordinates[k] \in Seq(Int)
  <2>1. fence.coordinates \in Seq(Seq(Int))
    BY Zenon, <1>1, FenceIsThere
  <2> QED BY <2>1
<1>3. p \in Nat /\ p + 1 \in 1 .. l /\ 1 \in 1 .. l /\ p < l /\ (p + 1) - 1 = p
  BY <1>2
<1>4. \A k \in 1 .. l : fence.coordinates[k][1] \in Int /\ fence.coordinates[k][2] \in Int
  <2>1. \A k \in 1 .. l : fence.coordinates[k] \in Seq(Int) /\ Len(fence.coordinates[k]) = 2
    BY Zenon, <1>1, <1>2 DEF IsChecked, IsOfPairs
  <2> QED BY <2>1
<1>5. PICK xy : xy = fence.coordinates[p + 1] /\ xy[1] \in Int /\ xy[2] \in Int
  BY Zenon, <1>3, <1>4
<1>6. coords[1] = VoxelOf(fence.coordinates[1]) /\ coords[p + 1] = VoxelOf(xy)
  BY Zenon, <1>1, <1>2, <1>3, <1>5 DEF IsChecked
<1>7. coords[1][VoxelDimension(cubes[1], "K")] = 0
  BY Zenon, <1>1, <1>3, <1>4, <1>6, VoxelIsAsked
<1>8. PICK n \in Nat \ {0} : n = nsamples
  <2>1. 1 \in DOMAIN cubes
    BY CubesOfRequest DEF HandleInv
  <2>2. PICK d \in Dimensions : Axis("K") = axes[d]
    BY Zenon, <1>1, <2>1, SameDimensions
  <2>3. IsAxis(axes[d]) /\ IsSupported(axes[d])
    BY Zenon, <1>1, <2>1, HandleIsAligned DEF IsAligned
  <2> QED BY <2>2, <2>3 DEF nsamples, IsAxis, IsSupported
<1>9. PICK index \in Int : /\ index = p * n + s /\ index \in 0 .. l * n - 1
                           /\ index \div n = p /\ index % n = s
  <2>1. s \in 0 .. n - 1
    BY Zenon, <1>8
  <2>2. PICK b \in Nat, e \in Int : b = p * n /\ e = l * n /\ b + n <= e
    <3>1. (p + 1) * n <= l * n
      BY <1>3, Cancel
    <3>2. (p + 1) * n = p * n + n /\ p * n \in Nat
      BY <1>3
    <3> QED BY <3>1, <3>2
  <2>3. PICK m \in Int : m = b + s /\ m \in 0 .. e - 1 /\ b <= m /\ m < b + n /\ m - b = s
    BY <2>1, <2>2
  <2>4. m \div n = p /\ m % n = s
    BY <2>2, <2>3, Quotient
  <2> QED BY Zenon, <2>2, <2>3, <2>4
<1>10. (\E noval \in noval_indicies : index \in noval .. noval + n - 1) <=> ~ IsInside(xy)
  <2>1. ASSUME NEW k \in 1 .. l, index \in (k - 1) * n .. (k - 1) * n + n - 1 PROVE k = p + 1
    <3>1. PICK q \in Int, b \in Int : q = k - 1 /\ b = q * n
      OBVIOUS
    <3>2. b <= index /\ index < b + n
      BY <2>1, <3>1
    <3>3. index \div n = q
      BY Zenon, <3>1, <3>2, Quotient
    <3> QED BY <1>3, <1>9, <3>1, <3>3
  <2>2. index \in p * n .. p * n + n - 1
    <3>1. PICK b \in Int : b = p * n
      BY <1>3
    <3> QED BY <1>8, <1>9, <3>1
  <2>3. \A noval : noval \in noval_indicies <=>
            \E k \in 1 .. l : ~ IsInside(fence.coordinates[k]) /\ noval = (k - 1) * n
    BY Zenon, <1>1, <1>2, <1>8 DEF IsChecked
  <2> QED BY Zenon, <1>3, <1>5, <2>1, <2>2, <2>3
<1>11. data[index] = IF ~ IsInside(xy) THEN {}
                     ELSE {SourceTrace(c, Extract(c, p, s)) : c \in DOMAIN cubes}
  BY Zenon, <1>1, <1>2, <1>8, <1>9, <1>10 DEF Response
<1>12. CASE ~ IsInside(xy)
  <2>1. TraceOf(xy) = {}
    BY Zenon, <1>1, <1>5, <1>12, VoxelIsAsked
  <2> QED BY Zenon, <1>5, <1>8, <1>9, <1>11, <1>12, <2>1
<1>13. CASE IsInside(xy)
  <2>1. PICK i \in 0 .. Steps(Axis("I")), j \in 0 .. Steps(Axis("J")) :
            /\ VoxelOf(xy)[VoxelDimension(cubes[1], "I")] = i
            /\ VoxelOf(xy)[VoxelDimension(cubes[1], "J")] = j
            /\ TraceOf(xy) = {<<LineAt("I", i), LineAt("J", j)>>}
    BY Zenon, <1>1, <1>5, <1>13, VoxelIsAsked
  <2>2. PICK v : v = PlaceAt(i, j, s)
    BY Zenon
  <2>3. \A c \in DOMAIN cubes : SourceTrace(c, Extract(c, p, s)) = v
    <3>1. IsVoxelAt(p, i, j)
      BY Zenon, <1>6, <1>7, <2>1 DEF IsVoxelAt
    <3>2. /\ HandleInv /\ WholeSteps(1) /\ handle = "open"
          /\ p \in Nat /\ s \in 0 .. nsamples - 1
      BY Zenon, <1>1, <1>3
    <3>3. ASSUME NEW c \in DOMAIN cubes
          PROVE  SourceTrace(c, Extract(c, p, s)) = PlaceAt(i, j, s)
      BY <3>1, <3>2, SampleIsOfVoxel
    <3> QED BY Zenon, <2>2, <3>3
  <2>4. 1 \in DOMAIN cubes
    BY CubesOfRequest DEF HandleInv
  <2>5. data[index] = {v}
    BY Zenon, <1>11, <1>13, <2>3, <2>4
  <2>6. {<<u[1], u[2], LineAt("K", s)>> : u \in {<<LineAt("I", i), LineAt("J", j)>>}} = {v}
    <3>1. \A a, b, e : {<<u[1], u[2], e>> : u \in {<<a, b>>}} = {<<a, b, e>>}
      OBVIOUS
    <3> QED BY Zenon, <2>2, <3>1 DEF PlaceAt
  <2> QED BY Zenon, <1>5, <1>8, <1>9, <2>1, <2>5, <2>6
<1> QED BY Zenon, <1>12, <1>13

(***************************************************************************)
(* fence and read_traces: a fence of any length over cubes of any size, in *)
(* index or annotation coordinates, has at every sample the trace nearest  *)
(* to its point, the same one of both cubes; it is filled or refused for   *)
(* exactly the points that have none.                                      *)
(***************************************************************************)
THEOREM FencesAreAsAsked ==
  ASSUME WholeSteps(1)
  PROVE  Spec => []FenceIsAsAsked
<1>1. ASSUME HandleInv, FenceInv PROVE FenceIsAsAsked
  <2> DEFINE Trace(p) == NearestLines("I", fence.coordinates[p + 1][1])
                           \X NearestLines("J", fence.coordinates[p + 1][2])
             points == 0 .. Len(fence.coordinates) - 1
  <2>1. \A p : Trace(p) = TraceOf(fence.coordinates[p + 1])
    BY Zenon DEF TraceOf
  <2>2. ASSUME answer # "none", IsOfPairs, NEW p \in points
        PROVE  Trace(p) = {} <=> ~ IsInside(fence.coordinates[p + 1])
    <3>1. handle = "open" /\ fence.coordinates \in Seq(Seq(Int))
      BY Zenon, <1>1, <2>2, FenceIsThere DEF FenceInv
    <3>2. p + 1 \in DOMAIN fence.coordinates
      BY <2>2, <3>1
    <3>3. fence.coordinates[p + 1] \in Seq(Int) /\ Len(fence.coordinates[p + 1]) = 2
      BY Zenon, <2>2, <3>1, <3>2, Element DEF IsOfPairs
    <3>4. PICK xy : xy = fence.coordinates[p + 1] /\ xy[1] \in Int /\ xy[2] \in Int
      BY <3>3
    <3> QED BY Zenon, <1>1, <2>1, <3>1, <3>4, VoxelIsAsked
  <2>3. ASSUME answer # "none" PROVE fence.coordinates \in Seq(Seq(Int)) /\ fence.fill \in BOOLEAN
    BY Zenon, <1>1, <2>3, FenceIsThere DEF FenceInv
  <2>4. ASSUME answer = "sent"
        PROVE  /\ (\A p \in points : Trace(p) # {}) \/ fence.fill
               /\ \A p \in points : \A s \in 0 .. nsamples - 1 :
                    data[p * nsamples + s] = {<<xy[1], xy[2], LineAt("K", s)>> : xy \in Trace(p)}
    <3>1. IsChecked /\ IsOfPairs /\ point = Len(fence.coordinates) /\ answer # "none"
      BY Zenon, <1>1, <2>4 DEF FenceInv, IsChecked
    <3>2. \A p \in points : p + 1 \in 1 .. point
      BY <2>3, <3>1
    <3>3. (\A p \in points : Trace(p) # {}) \/ fence.fill
      BY Zenon, <2>2, <3>1, <3>2 DEF IsChecked
    <3> HIDE DEF Trace
    <3> QED BY Zenon, <1>1, <2>1, <2>4, <3>3, AnswerIsAsked
  <2>5. ASSUME answer = "bad_request", IsOfPairs
        PROVE  ~ (\A p \in points : Trace(p) # {}) /\ ~ fence.fill
    <3>1. PICK k \in DOMAIN fence.coordinates : ~ IsInside(fence.coordinates[k])
      BY Zenon, <1>1, <2>5 DEF FenceInv
    <3>2. PICK l \in Nat : l = Len(fence.coordinates) /\ DOMAIN fence.coordinates = 1 .. l
      BY <2>3, <2>5
    <3>3. k - 1 \in 0 .. l - 1 /\ (k - 1) + 1 = k
      BY <3>1, <3>2
    <3>4. PICK p \in points : p + 1 = k
      BY Zenon, <3>2, <3>3
    <3> QED BY Zenon, <1>1, <2>2, <2>5, <3>1, <3>4 DEF FenceInv
  <2> QED BY Zenon, <2>4, <2>5 DEF FenceIsAsAsked, IsOfPairs, LineAt, StepOf
<1> QED BY <1>1, FenceIsInvariant, PTL
=============================================================================
