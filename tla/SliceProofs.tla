---------------------------- MODULE SliceProofs ----------------------------
(***************************************************************************)
(* Proofs about Slice: for every cube, every number of bounds and all      *)
(* names and line numbers.  The theorems about the content of a box need   *)
(* line numbers that fit a C int (NumbersFit); what happens with others is *)
(* the subject of BoundsOutsideAreRefused.                                 *)
(***************************************************************************)
EXTENDS Slice, TLAPS

NumbersFit == \A x \in Numbers : CInt(x) = x

-----------------------------------------------------------------------------
\* A bound is the last one on an axis among the first n, or there is none.
IsLast(b, n, a) ==
    /\ axis_type(bounds[b].direction) = a
    /\ \A c \in b + 1 .. n : axis_type(bounds[c].direction) # a
IsFree(n, a) == \A b \in 1 .. n : axis_type(bounds[b].direction) # a

IsFromBound(lo, up, b, a) ==
    /\ lo[a] = Voxel(bounds[b].direction, CInt(bounds[b].lower))
    /\ up[a] = UpperVoxel(bounds[b].direction, CInt(bounds[b].upper))

(***************************************************************************)
(* What constrain has made of an axis after n bounds, and what set_slice   *)
(* makes of it in the end.                                                 *)
(***************************************************************************)
IsConstrained(lo, up, n, a) ==
    \/ IsFree(n, a) /\ lo[a] = 0 /\ up[a] = Axes[a].nsamples
    \/ \E b \in 1 .. n : IsLast(b, n, a) /\ IsFromBound(lo, up, b, a)

IsFinal(lo, up) ==
    \A a \in AxisType :
        IF a = axis_type(Slicing)
        THEN lo[a] = Voxel(Slicing, Line) /\ up[a] = UpperVoxel(Slicing, Line)
        ELSE IsConstrained(lo, up, Len(bounds), a)

IsChecked(n) ==
    \A b \in 1 .. n : IsAxis(bounds[b].direction) /\ bounds[b].lower <= bounds[b].upper
IsOnAxes(n) ==
    \A b \in 1 .. n : /\ IsLine(bounds[b].direction, CInt(bounds[b].lower))
                      /\ IsLine(bounds[b].direction, CInt(bounds[b].upper))

Constraining == pc \in {"constrain_metadata", "constrain_data"}
Complete == pc \in {"describe", "read"} \/ outcome = "ok"
Described == pc \in {"validate", "constrain_data", "read"} \/ outcome = "ok"

Types ==
    /\ direction \in Directions /\ lineno \in Numbers
    /\ bounds \in Seq(Bound) /\ Len(bounds) <= MaxBounds
    /\ k \in 1 .. Len(bounds) + 1
    /\ lower \in [AxisType -> Int] /\ upper \in [AxisType -> Int]
    /\ described = [lower |-> described.lower, upper |-> described.upper]
    /\ described.lower \in [AxisType -> Int] /\ described.upper \in [AxisType -> Int]
    /\ TypeOK

(***************************************************************************)
(* The inductive invariant: which checks have been passed at each point,   *)
(* and what the box is after the bounds that have been applied.            *)
(***************************************************************************)
SliceInv ==
    /\ Types
    /\ outcome = "running" <=> pc # "done"
    /\ pc \in {"direction", "validate"} => k = 1
    /\ pc \in {"direction", "bounds"} => lower = Whole("lower") /\ upper = Whole("upper")
    /\ pc = "bounds" => IsAxis(Slicing) /\ IsChecked(k - 1)
    /\ Constraining \/ Complete \/ Described => IsAxis(Slicing) /\ IsChecked(Len(bounds))
    /\ Constraining => /\ IsOnAxes(k - 1)
                       /\ \A a \in AxisType : IsConstrained(lower, upper, k - 1, a)
    /\ Complete => /\ IsOnAxes(Len(bounds)) /\ IsLine(Slicing, Line)
                   /\ IsFinal(lower, upper)
    /\ Described => IsFinal(described.lower, described.upper)
    /\ pc \in {"constrain_data", "read"} \/ outcome = "ok" => RequestFitsVertical

-----------------------------------------------------------------------------
\* Integer division of line numbers by a stepsize keeps their order.
LEMMA DivIsMonotone ==
  ASSUME NEW d \in Int, NEW e \in Int, NEW s \in Nat \ {0}, d <= e
  PROVE  d \div s <= e \div s
<1> DEFINE p == d \div s
           q == e \div s
<1>1. p \in Int /\ p * s <= d
  OBVIOUS
<1>2. q \in Int /\ e < q * s + s
  OBVIOUS
<1> HIDE DEF p, q
<1>3. p * s < (q + 1) * s
  BY <1>1, <1>2
<1>4. p < q + 1
  BY <1>1, <1>2, <1>3
<1> QED BY <1>1, <1>2, <1>4 DEF p, q

\* GetAxis: every accepted name has an axis.
LEMMA NamesHaveAxes == \A name : IsAxis(name) => axis_type(name) \in AxisType
  BY DEF IsAxis, axis_type, AxisType

\* A line between the first and the last one has an index on the axis.
LEMMA IndexOnAxis ==
  ASSUME NEW x \in Int, NEW m \in Int, NEW n \in Nat \ {0}, NEW s \in Nat \ {0},
         m <= x, x <= m + (n - 1) * s
  PROVE  (x - m) \div s \in 0 .. n - 1
<1>1. 0 \div s <= (x - m) \div s
  BY DivIsMonotone
<1>2. PICK t \in Int : t = (n - 1) * s
  OBVIOUS
<1>3. (x - m) \div s <= t \div s
  BY <1>2, DivIsMonotone
<1>4. t \div s = n - 1
  BY <1>2
<1> QED BY <1>1, <1>3, <1>4

\* to_voxel: the voxel of a line of an axis is one of the axis.
LEMMA LinesHaveVoxels ==
  ASSUME NEW name, IsAxis(name), NEW x, IsLine(name, x)
  PROVE  /\ x \in Int
         /\ Voxel(name, x) \in 0 .. Axes[axis_type(name)].nsamples - 1
<1>1. PICK axis : axis = Axes[axis_type(name)]
  OBVIOUS
<1>2. /\ axis.min \in Int
      /\ axis.step \in Nat \ {0}
      /\ axis.nsamples \in Nat \ {0}
  BY <1>1, NamesHaveAxes, AxesAssumption
<1>3. CASE IsIndex(name)
  BY <1>1, <1>2, <1>3 DEF IsLine, Voxel, LastIndex
<1>4. CASE ~ IsIndex(name)
  <2>1. /\ x \in Int /\ axis.min <= x
        /\ x <= axis.min + (axis.nsamples - 1) * axis.step
    BY <1>1, <1>2, <1>4 DEF IsLine
  <2>2. (x - axis.min) \div axis.step \in 0 .. axis.nsamples - 1
    BY <1>2, <2>1, IndexOnAxis
  <2> QED BY <1>1, <1>4, <2>1, <2>2 DEF Voxel
<1> QED BY <1>3, <1>4

\* to_voxel keeps the order of lines.
LEMMA VoxelsAreOrdered ==
  ASSUME NEW name, IsAxis(name), NEW x, NEW y, IsLine(name, x), IsLine(name, y), x <= y
  PROVE  Voxel(name, x) <= Voxel(name, y)
<1>1. PICK axis : axis = Axes[axis_type(name)]
  OBVIOUS
<1>2. axis.min \in Int /\ axis.step \in Nat \ {0}
  BY <1>1, NamesHaveAxes, AxesAssumption
<1>3. x \in Int /\ y \in Int
  BY LinesHaveVoxels
<1>4. PICK d \in Int, e \in Int : d = x - axis.min /\ e = y - axis.min
  BY <1>2, <1>3
<1>5. d <= e
  BY <1>2, <1>3, <1>4
<1>6. d \div axis.step <= e \div axis.step
  BY <1>2, <1>5, DivIsMonotone
<1> QED BY <1>1, <1>3, <1>4, <1>6 DEF Voxel

-----------------------------------------------------------------------------
\* The start of SliceRequest.execute.
LEMMA SliceInit == Init => SliceInv
<1> SUFFICES ASSUME Init PROVE SliceInv
  OBVIOUS
<1>1. bounds \in Seq(Bound) /\ Len(bounds) \in 0 .. MaxBounds
  BY WidthAssumption DEF Init
<1>2. /\ Whole("lower") \in [AxisType -> Int]
      /\ Whole("upper") \in [AxisType -> Int]
      /\ \A a \in AxisType : /\ Whole("lower")[a] \in 0 .. Axes[a].nsamples - 1
                             /\ Whole("upper")[a] \in 1 .. Axes[a].nsamples
  BY AxesAssumption DEF Whole
<1>3. Types
  BY <1>1, <1>2, WidthAssumption DEF Init, Types, TypeOK, NoBox
<1> QED BY <1>3 DEF Init, SliceInv, Constraining, Complete, Described

\* An error ends the request, whatever has been done so far.
LEMMA FailStep ==
  ASSUME SliceInv, NEW error, error \notin {"running", "ok"}, Fail(error)
  PROVE  SliceInv'
<1>1. Types'
  BY DEF SliceInv, Types, TypeOK, Fail, request
<1> QED BY <1>1 DEF SliceInv, Fail, Constraining, Complete, Described

\* The request is not changed, and neither is what is known of it.
LEMMA RequestStays ==
  ASSUME request' = request
  PROVE  /\ IsAxis(Slicing)' = IsAxis(Slicing)
         /\ \A n : IsChecked(n)' = IsChecked(n) /\ IsOnAxes(n)' = IsOnAxes(n)
         /\ IsLine(Slicing, Line)' = IsLine(Slicing, Line)
         /\ RequestFitsVertical' = RequestFitsVertical
         /\ \A lo, up, n, a : IsConstrained(lo, up, n, a)' = IsConstrained(lo, up, n, a)
         /\ \A lo, up : IsFinal(lo, up)' = IsFinal(lo, up)
  BY DEF request, Slicing, Line, IsChecked, IsOnAxes, RequestFitsVertical, IsVerticalFit,
         IsConstrained, IsFree, IsLast, IsFromBound, IsFinal

\* GetAxis accepts a known direction and nothing else.
LEMMA GetAxisStep == SliceInv /\ GetAxis => SliceInv'
<1> SUFFICES ASSUME SliceInv, GetAxis PROVE SliceInv'
  OBVIOUS
<1>1. CASE Fail("invalid_direction")
  BY <1>1, FailStep
<1>2. CASE ~ Fail("invalid_direction")
  <2>1. /\ pc = "direction" /\ pc' = "bounds" /\ IsAxis(Slicing)
        /\ UNCHANGED <<request, k, lower, upper, described, outcome>>
    BY <1>2 DEF GetAxis
  <2>2. Types'
    BY <2>1 DEF SliceInv, Types, TypeOK, request
  <2>3. IsAxis(Slicing)' /\ IsChecked(k - 1)'
    BY <2>1 DEF SliceInv, IsChecked, Slicing, request
  <2> QED BY <2>1, <2>2, <2>3 DEF SliceInv, Constraining, Complete, Described, Whole
<1> QED BY <1>1, <1>2

\* newCSliceBounds accepts one bound more, ends in order, or refuses.
LEMMA NewCSliceBoundsStep == SliceInv /\ NewCSliceBounds => SliceInv'
<1> SUFFICES ASSUME SliceInv, NewCSliceBounds PROVE SliceInv'
  OBVIOUS
<1>1. CASE Fail("invalid_bound_direction") \/ Fail("bounds_not_ordered")
  BY <1>1, FailStep
<1>2. ASSUME k > Len(bounds), pc = "bounds", pc' = "constrain_metadata", k' = 1,
             UNCHANGED <<request, lower, upper, described, outcome>>
      PROVE  SliceInv'
  <2>1. Types'
    BY <1>2, WidthAssumption DEF SliceInv, Types, TypeOK, request
  <2>2. IsAxis(Slicing)' /\ IsChecked(Len(bounds))'
    <3>1. k - 1 = Len(bounds)
      BY <1>2 DEF SliceInv, Types
    <3> QED BY <1>2, <3>1 DEF SliceInv, IsChecked, Slicing, request
  <2>3. IsOnAxes(k - 1)' /\ (\A a \in AxisType : IsConstrained(lower, upper, k - 1, a))'
    BY <1>2 DEF SliceInv, IsOnAxes, IsConstrained, IsFree, Whole
  <2> QED BY <1>2, <2>1, <2>2, <2>3 DEF SliceInv, Constraining, Complete, Described
<1>3. ASSUME k <= Len(bounds), pc = "bounds", IsAxis(bounds[k].direction),
             bounds[k].upper >= bounds[k].lower, k' = k + 1,
             UNCHANGED <<request, pc, lower, upper, described, outcome>>
      PROVE  SliceInv'
  <2>1. k \in Int /\ Len(bounds) \in Nat /\ bounds[k] \in Bound /\ Numbers \subseteq Int
    BY <1>3, AxesAssumption DEF SliceInv, Types
  <2>2. Types'
    BY <1>3, <2>1, WidthAssumption DEF SliceInv, Types, TypeOK, request
  <2>3. IsAxis(Slicing)' /\ IsChecked(k - 1)'
    BY <1>3, <2>1 DEF SliceInv, IsChecked, Slicing, request, Bound
  <2> QED BY <1>3, <2>2, <2>3 DEF SliceInv, Constraining, Complete, Described
<1> QED BY <1>1, <1>2, <1>3 DEF NewCSliceBounds

(***************************************************************************)
(* SubCube::constrain: the bound that is applied becomes the last one on   *)
(* its axis, and the other axes keep theirs.                               *)
(***************************************************************************)
LEMMA ConstrainStep == SliceInv /\ Constrain => SliceInv'
<1> SUFFICES ASSUME SliceInv, Constrain PROVE SliceInv'
  OBVIOUS
<1> DEFINE name == bounds[k].direction
           from == CInt(bounds[k].lower)
           to == CInt(bounds[k].upper)
<1>1. CASE Fail("bound_out_of_range")
  BY <1>1, FailStep
<1>2. CASE ~ Fail("bound_out_of_range")
  <2>1. /\ Constraining /\ k <= Len(bounds)
        /\ IsLine(name, from) /\ IsLine(name, to)
        /\ lower' = [lower EXCEPT ![axis_type(name)] = Voxel(name, from)]
        /\ upper' = [upper EXCEPT ![axis_type(name)] = UpperVoxel(name, to)]
        /\ k' = k + 1
        /\ UNCHANGED <<request, pc, described, outcome>>
    BY <1>2 DEF Constrain, LowerOf, Constraining
  <2>2. k \in Int /\ Len(bounds) \in Nat /\ k \in 1 .. Len(bounds)
    BY <2>1 DEF SliceInv, Types
  <2>3. IsAxis(name) /\ axis_type(name) \in AxisType
    BY <2>1, <2>2, NamesHaveAxes DEF SliceInv, IsChecked
  <2>4. /\ Voxel(name, from) \in 0 .. Axes[axis_type(name)].nsamples - 1
        /\ UpperVoxel(name, to) \in 1 .. Axes[axis_type(name)].nsamples
        /\ Axes[axis_type(name)].nsamples \in Nat
    BY <2>1, <2>3, LinesHaveVoxels, AxesAssumption DEF UpperVoxel
  <2> HIDE DEF name, from, to
  <2>5. Types'
    <3>1. lower' \in [AxisType -> Int] /\ upper' \in [AxisType -> Int]
      BY <2>1, <2>3, <2>4 DEF SliceInv, Types
    <3>2. \A a \in AxisType : /\ lower'[a] \in 0 .. Axes[a].nsamples - 1
                              /\ upper'[a] \in 1 .. Axes[a].nsamples
      BY <2>1, <2>3, <2>4 DEF SliceInv, Types, TypeOK
    <3> QED BY <2>1, <2>2, <3>1, <3>2, WidthAssumption DEF SliceInv, Types, TypeOK, request
  <2>6. IsOnAxes(k - 1)'
    BY <2>1, <2>2 DEF SliceInv, IsOnAxes, request, name, from, to
  <2>7. ASSUME NEW a \in AxisType PROVE IsConstrained(lower', upper', k, a)
    <3>1. CASE a = axis_type(name)
      <4>1. lower'[a] = Voxel(name, from) /\ upper'[a] = UpperVoxel(name, to)
        BY <2>1, <3>1 DEF SliceInv, Types
      <4>2. IsLast(k, k, a)
        BY <2>2, <3>1 DEF IsLast, name
      <4> QED BY <2>2, <4>1, <4>2 DEF IsConstrained, IsFromBound, name, from, to
    <3>2. CASE a # axis_type(name)
      <4>1. lower'[a] = lower[a] /\ upper'[a] = upper[a]
        BY <2>1, <3>2 DEF SliceInv, Types
      <4>2. IsConstrained(lower, upper, k - 1, a)
        BY <2>1 DEF SliceInv
      <4>3. CASE IsFree(k - 1, a) /\ lower[a] = 0 /\ upper[a] = Axes[a].nsamples
        BY <2>2, <3>2, <4>1, <4>3 DEF IsConstrained, IsFree, name
      <4>4. ASSUME NEW b \in 1 .. k - 1, IsLast(b, k - 1, a), IsFromBound(lower, upper, b, a)
            PROVE  IsConstrained(lower', upper', k, a)
        <5>1. b \in 1 .. k /\ IsLast(b, k, a)
          BY <2>2, <3>2, <4>4 DEF IsLast, name
        <5> QED BY <4>1, <4>4, <5>1 DEF IsConstrained, IsFromBound
      <4> QED BY <4>2, <4>3, <4>4 DEF IsConstrained
    <3> QED BY <3>1, <3>2
  <2>8. (\A a \in AxisType : IsConstrained(lower, upper, k - 1, a))'
    <3>1. k' - 1 = k /\ bounds' = bounds
      BY <2>1, <2>2 DEF request
    <3>2. ASSUME NEW lo, NEW up, NEW n, NEW a, IsConstrained(lo, up, n, a)
          PROVE  IsConstrained(lo, up, n, a)'
      BY <3>1, <3>2 DEF IsConstrained, IsFree, IsLast, IsFromBound
    <3> QED BY <2>7, <3>1, <3>2
  <2>9. /\ (IsAxis(Slicing) /\ IsChecked(Len(bounds)))'
        /\ Described' => IsFinal(described.lower, described.upper)'
        /\ pc' \in {"constrain_data", "read"} \/ outcome' = "ok" => RequestFitsVertical'
    BY <2>1, RequestStays DEF SliceInv, Described, request
  <2> QED BY <2>1, <2>5, <2>6, <2>8, <2>9 DEF SliceInv, Constraining, Complete, Described
<1> QED BY <1>1, <1>2

\* SubCube::set_slice replaces whatever the bounds said of the slice's axis.
LEMMA SetSliceStep == SliceInv /\ SetSlice => SliceInv'
<1> SUFFICES ASSUME SliceInv, SetSlice PROVE SliceInv'
  OBVIOUS
<1>1. CASE Fail("invalid_lineno")
  BY <1>1, FailStep
<1>2. CASE ~ Fail("invalid_lineno")
  <2>1. /\ Constraining /\ k > Len(bounds)
        /\ IsLine(Slicing, Line)
        /\ lower' = [lower EXCEPT ![axis_type(Slicing)] = Voxel(Slicing, Line)]
        /\ upper' = [upper EXCEPT ![axis_type(Slicing)] = UpperVoxel(Slicing, Line)]
        /\ pc' = IF pc = "constrain_metadata" THEN "describe" ELSE "read"
        /\ UNCHANGED <<request, k, described, outcome>>
    BY <1>2 DEF SetSlice, Constraining
  <2>2. k - 1 = Len(bounds)
    BY <2>1 DEF SliceInv, Types
  <2>3. IsAxis(Slicing) /\ axis_type(Slicing) \in AxisType
    BY <2>1, NamesHaveAxes DEF SliceInv
  <2>4. /\ Voxel(Slicing, Line) \in 0 .. Axes[axis_type(Slicing)].nsamples - 1
        /\ UpperVoxel(Slicing, Line) \in 1 .. Axes[axis_type(Slicing)].nsamples
    BY <2>1, <2>3, LinesHaveVoxels, AxesAssumption DEF UpperVoxel
  <2>5. Types'
    <3>1. lower' \in [AxisType -> Int] /\ upper' \in [AxisType -> Int]
      BY <2>1, <2>3, <2>4, AxesAssumption DEF SliceInv, Types
    <3>2. \A a \in AxisType : /\ lower'[a] \in 0 .. Axes[a].nsamples - 1
                              /\ upper'[a] \in 1 .. Axes[a].nsamples
      BY <2>1, <2>3, <2>4 DEF SliceInv, Types, TypeOK
    <3> QED BY <2>1, <3>1, <3>2 DEF SliceInv, Types, TypeOK, request
  <2>6. IsFinal(lower', upper')
    <3>1. \A a \in AxisType : IsConstrained(lower, upper, Len(bounds), a)
      BY <2>1, <2>2 DEF SliceInv
    <3>2. \A a \in AxisType :
             a # axis_type(Slicing) => lower'[a] = lower[a] /\ upper'[a] = upper[a]
      BY <2>1 DEF SliceInv, Types
    <3>3. \A a \in AxisType :
             a = axis_type(Slicing) => /\ lower'[a] = Voxel(Slicing, Line)
                                       /\ upper'[a] = UpperVoxel(Slicing, Line)
      BY <2>1 DEF SliceInv, Types
    <3> QED BY <3>1, <3>2, <3>3 DEF IsFinal, IsConstrained, IsFromBound
  <2>7. IsFinal(lower, upper)'
    BY <2>1, <2>6 DEF IsFinal, IsConstrained, IsFromBound, IsFree, IsLast, Slicing, Line, request
  <2>8. (IsOnAxes(Len(bounds)) /\ IsLine(Slicing, Line))'
    BY <2>1, <2>2, RequestStays DEF SliceInv, request
  <2>9. /\ (IsAxis(Slicing) /\ IsChecked(Len(bounds)))'
        /\ pc' = "read" => RequestFitsVertical'
        /\ pc' = "read" => IsFinal(described.lower, described.upper)'
    BY <2>1, RequestStays DEF SliceInv, Constraining, Described, request
  <2>10. outcome' = "running" /\ pc' \in {"describe", "read"}
    BY <2>1 DEF SliceInv, Constraining, Complete, Described
  <2> QED BY <2>5, <2>7, <2>8, <2>9, <2>10 DEF SliceInv, Constraining, Complete, Described
<1> QED BY <1>1, <1>2

\* The metadata call describes the box that was made for it.
LEMMA DescribeStep == SliceInv /\ Describe => SliceInv'
<1> SUFFICES ASSUME SliceInv, Describe PROVE SliceInv'
  OBVIOUS
<1>1. Types'
  BY WidthAssumption DEF Describe, Box, SliceInv, Types, TypeOK, request
<1>2. IsFinal(described.lower, described.upper)'
  <2>1. IsFinal(lower, upper) /\ described'.lower = lower /\ described'.upper = upper
    BY DEF SliceInv, Complete, Describe, Box
  <2> QED BY <2>1, RequestStays DEF Describe, request
<1>3. (IsAxis(Slicing) /\ IsChecked(Len(bounds)))'
  BY RequestStays DEF SliceInv, Describe, Complete, request
<1>4. outcome' = "running" /\ pc' = "validate" /\ k' = 1
  BY DEF SliceInv, Describe, Complete
<1> QED BY <1>1, <1>2, <1>3, <1>4 DEF SliceInv, Constraining, Complete, Described

\* The data call starts from a box of its own.
LEMMA ValidateStep == SliceInv /\ Validate => SliceInv'
<1> SUFFICES ASSUME SliceInv, Validate PROVE SliceInv'
  OBVIOUS
<1>1. CASE Fail("vertical_axis_does_not_fit")
  BY <1>1, FailStep
<1>2. CASE ~ Fail("vertical_axis_does_not_fit")
  <2>1. /\ pc = "validate" /\ RequestFitsVertical
        /\ lower' = Whole("lower") /\ upper' = Whole("upper")
        /\ pc' = "constrain_data"
        /\ UNCHANGED <<request, k, described, outcome>>
    BY <1>2 DEF Validate
  <2>2. Types'
    <3>1. /\ lower' \in [AxisType -> Int] /\ upper' \in [AxisType -> Int]
          /\ \A a \in AxisType : /\ lower'[a] \in 0 .. Axes[a].nsamples - 1
                                 /\ upper'[a] \in 1 .. Axes[a].nsamples
      BY <2>1, AxesAssumption DEF Whole
    <3> QED BY <2>1, <3>1 DEF SliceInv, Types, TypeOK, request
  <2>3. k' = 1 /\ outcome' = "running"
    BY <2>1 DEF SliceInv
  <2>4. IsOnAxes(k - 1)' /\ (\A a \in AxisType : IsConstrained(lower, upper, k - 1, a))'
    BY <2>1, <2>3 DEF IsOnAxes, IsConstrained, IsFree, Whole
  <2>5. (IsAxis(Slicing) /\ IsChecked(Len(bounds)) /\ RequestFitsVertical)'
    BY <2>1, RequestStays DEF SliceInv, Described, request
  <2>6. IsFinal(described.lower, described.upper)'
    BY <2>1, RequestStays DEF SliceInv, Described
  <2> QED BY <2>1, <2>2, <2>3, <2>4, <2>5, <2>6 DEF SliceInv, Constraining, Complete, Described
<1> QED BY <1>1, <1>2

\* Reading the slice ends the request.
LEMMA ReadStep == SliceInv /\ Read => SliceInv'
<1> SUFFICES ASSUME SliceInv, Read PROVE SliceInv'
  OBVIOUS
<1>1. Types'
  BY DEF Read, SliceInv, Types, TypeOK, request
<1>2. IsFinal(lower, upper)' /\ IsFinal(described.lower, described.upper)'
  BY RequestStays DEF Read, SliceInv, Complete, Described
<1>3. /\ (IsAxis(Slicing) /\ IsChecked(Len(bounds)) /\ RequestFitsVertical)'
      /\ (IsOnAxes(Len(bounds)) /\ IsLine(Slicing, Line))'
  BY RequestStays DEF Read, SliceInv, Complete, request
<1> QED BY <1>1, <1>2, <1>3 DEF Read, SliceInv, Constraining, Complete, Described

\* Every step of execute keeps the invariant.
LEMMA SliceStep == SliceInv /\ [Next]_vars => SliceInv'
<1> SUFFICES ASSUME SliceInv, [Next]_vars PROVE SliceInv'
  OBVIOUS
<1>1. CASE UNCHANGED vars
  <2>1. Types'
    BY <1>1 DEF SliceInv, Types, TypeOK, vars, request
  <2>2. /\ IsAxis(Slicing)' = IsAxis(Slicing) /\ IsLine(Slicing, Line)' = IsLine(Slicing, Line)
        /\ IsChecked(k - 1)' = IsChecked(k - 1) /\ IsOnAxes(k - 1)' = IsOnAxes(k - 1)
        /\ IsChecked(Len(bounds))' = IsChecked(Len(bounds))
        /\ IsOnAxes(Len(bounds))' = IsOnAxes(Len(bounds))
        /\ RequestFitsVertical' = RequestFitsVertical
    BY <1>1, RequestStays DEF vars, request
  <2>3. /\ (\A a \in AxisType : IsConstrained(lower, upper, k - 1, a))'
             = (\A a \in AxisType : IsConstrained(lower, upper, k - 1, a))
        /\ IsFinal(lower, upper)' = IsFinal(lower, upper)
        /\ IsFinal(described.lower, described.upper)' = IsFinal(described.lower, described.upper)
    BY <1>1, RequestStays DEF vars
  <2> QED BY <1>1, <2>1, <2>2, <2>3 DEF SliceInv, Constraining, Complete, Described, vars
<1> QED BY <1>1, GetAxisStep, NewCSliceBoundsStep, ConstrainStep, SetSliceStep, DescribeStep,
           ValidateStep, ReadStep DEF Next

\* SliceInv is an invariant of execute.
LEMMA SliceInvariant == Spec => []SliceInv
  BY SliceInit, SliceStep, PTL DEF Spec

-----------------------------------------------------------------------------
(***************************************************************************)
(* The box of a slice never leaves the cube, whatever the client asks for. *)
(***************************************************************************)
THEOREM BoxStaysInCube == Spec => []TypeOK
<1>1. SliceInv => TypeOK
  BY DEF SliceInv, Types
<1> QED BY <1>1, SliceInvariant, PTL

(***************************************************************************)
(* Boxes that are read are neither empty nor turned around, when the line  *)
(* numbers fit a C int.                                                    *)
(***************************************************************************)
THEOREM BoxesAreProper ==
  ASSUME NumbersFit
  PROVE  Spec => []BoxIsProper
<1>1. SliceInv => BoxIsProper
  <2> SUFFICES ASSUME SliceInv, pc \in {"read", "describe"}, NEW a \in AxisType
               PROVE  lower[a] < upper[a]
    BY DEF BoxIsProper
  <2>1. /\ IsAxis(Slicing) /\ IsChecked(Len(bounds)) /\ IsOnAxes(Len(bounds))
        /\ IsLine(Slicing, Line) /\ IsFinal(lower, upper)
    BY DEF SliceInv, Complete
  <2>2. CASE a = axis_type(Slicing)
    <3>1. Voxel(Slicing, Line) \in Int
      BY <2>1, LinesHaveVoxels
    <3> QED BY <2>1, <2>2, <3>1 DEF IsFinal, UpperVoxel
  <2>3. CASE IsFree(Len(bounds), a) /\ lower[a] = 0 /\ upper[a] = Axes[a].nsamples
    BY <2>3, AxesAssumption
  <2>4. ASSUME NEW b \in 1 .. Len(bounds), IsFromBound(lower, upper, b, a)
        PROVE  lower[a] < upper[a]
    <3> DEFINE name == bounds[b].direction
               from == bounds[b].lower
               to == bounds[b].upper
    <3>1. from \in Numbers /\ to \in Numbers
      <4>1. bounds[b] \in Bound
        BY DEF SliceInv, Types
      <4> QED BY <4>1 DEF Bound
    <3>2. CInt(from) = from /\ CInt(to) = to
      BY <3>1 DEF NumbersFit
    <3>3. IsAxis(name) /\ from <= to /\ IsLine(name, from) /\ IsLine(name, to)
      BY <2>1, <3>2 DEF IsChecked, IsOnAxes
    <3>4. lower[a] = Voxel(name, from) /\ upper[a] = Voxel(name, to) + 1
      BY <2>4, <3>2 DEF IsFromBound, UpperVoxel
    <3> HIDE DEF name, from, to
    <3>5. Voxel(name, from) <= Voxel(name, to)
      BY <3>3, VoxelsAreOrdered
    <3>6. Voxel(name, from) \in Int /\ Voxel(name, to) \in Int
      BY <3>3, LinesHaveVoxels
    <3> QED BY <3>4, <3>5, <3>6
  <2> QED BY <2>1, <2>2, <2>3, <2>4 DEF IsFinal, IsConstrained
<1> QED BY <1>1, SliceInvariant, PTL

\* LastBound finds the last bound on an axis.
LEMMA LastBoundIsLast ==
  ASSUME NEW a, NEW b \in 1 .. Len(bounds), Len(bounds) \in Nat, IsLast(b, Len(bounds), a)
  PROVE  LastBound(a) = b
<1>1. ASSUME NEW c \in 1 .. Len(bounds), IsLast(c, Len(bounds), a)
      PROVE  c = b
  <2>1. ~ (c < b) /\ ~ (b < c)
    BY <1>1 DEF IsLast
  <2> QED BY <2>1
<1> QED BY <1>1 DEF LastBound, IsLast

\* Two boxes that are made of the same request are the same.
LEMMA FinalBoxIsUnique ==
  ASSUME Len(bounds) \in Nat, NEW lo, NEW up, NEW lo2, NEW up2,
         IsFinal(lo, up), IsFinal(lo2, up2), NEW a \in AxisType
  PROVE  lo[a] = lo2[a] /\ up[a] = up2[a]
<1>1. CASE a = axis_type(Slicing)
  BY <1>1 DEF IsFinal
<1>2. CASE a # axis_type(Slicing)
  <2>1. IsConstrained(lo, up, Len(bounds), a) /\ IsConstrained(lo2, up2, Len(bounds), a)
    BY <1>2 DEF IsFinal
  <2>2. CASE IsFree(Len(bounds), a)
    BY <2>1, <2>2 DEF IsConstrained, IsFree, IsLast
  <2>3. CASE ~ IsFree(Len(bounds), a)
    <3>1. PICK b \in 1 .. Len(bounds) : IsLast(b, Len(bounds), a) /\ IsFromBound(lo, up, b, a)
      BY <2>1, <2>3 DEF IsConstrained
    <3>2. PICK c \in 1 .. Len(bounds) : IsLast(c, Len(bounds), a) /\ IsFromBound(lo2, up2, c, a)
      BY <2>1, <2>3 DEF IsConstrained
    <3>3. b = c
      BY <3>1, <3>2, LastBoundIsLast
    <3> QED BY <3>1, <3>2, <3>3 DEF IsFromBound
  <2> QED BY <2>2, <2>3
<1> QED BY <1>1, <1>2

(***************************************************************************)
(* A slice that is answered holds the promised voxels, and its metadata    *)
(* describes the same box, when the line numbers fit a C int.              *)
(***************************************************************************)
THEOREM SlicesAreAsPromised ==
  ASSUME NumbersFit
  PROVE  Spec => []SliceIsAsPromised
<1>1. SliceInv => SliceIsAsPromised
  <2> SUFFICES ASSUME SliceInv, outcome = "ok"
               PROVE  /\ \A a \in AxisType : lower[a] .. upper[a] - 1 = Promised(a)
                      /\ described = Box
    BY DEF SliceIsAsPromised
  <2>1. /\ IsAxis(Slicing) /\ IsOnAxes(Len(bounds)) /\ IsLine(Slicing, Line)
        /\ IsChecked(Len(bounds))
        /\ IsFinal(lower, upper) /\ IsFinal(described.lower, described.upper)
        /\ Len(bounds) \in Nat
    BY DEF SliceInv, Complete, Described, Types
  <2>2. ASSUME NEW a \in AxisType
        PROVE  lower[a] .. upper[a] - 1 = Promised(a)
    <3>1. CASE a = axis_type(Slicing)
      <4>1. Line = lineno
        BY DEF SliceInv, Types, Line, NumbersFit
      <4>2. Voxel(Slicing, lineno) \in Int
        BY <2>1, <4>1, LinesHaveVoxels
      <4>3. lower[a] = Voxel(Slicing, lineno) /\ upper[a] = Voxel(Slicing, lineno) + 1
        BY <2>1, <3>1, <4>1 DEF IsFinal, UpperVoxel
      <4> QED BY <3>1, <4>2, <4>3 DEF Promised
    <3>2. CASE /\ a # axis_type(Slicing) /\ IsFree(Len(bounds), a)
               /\ lower[a] = 0 /\ upper[a] = Axes[a].nsamples
      BY <3>2 DEF Promised, IsBounded, IsFree
    <3>3. ASSUME a # axis_type(Slicing), NEW b \in 1 .. Len(bounds),
                 IsLast(b, Len(bounds), a), IsFromBound(lower, upper, b, a)
          PROVE  lower[a] .. upper[a] - 1 = Promised(a)
      <4> DEFINE name == bounds[b].direction
                 from == bounds[b].lower
                 to == bounds[b].upper
      <4>1. LastBound(a) = b /\ IsBounded(a)
        BY <2>1, <3>3, LastBoundIsLast DEF IsBounded, IsLast
      <4>2. from \in Numbers /\ to \in Numbers
        <5>1. bounds[b] \in Bound
          BY DEF SliceInv, Types
        <5> QED BY <5>1 DEF Bound
      <4>3. CInt(from) = from /\ CInt(to) = to
        BY <4>2 DEF NumbersFit
      <4>4. lower[a] = Voxel(name, from) /\ upper[a] = Voxel(name, to) + 1
        BY <3>3, <4>3 DEF IsFromBound, UpperVoxel
      <4>5. IsAxis(name) /\ IsLine(name, to)
        BY <2>1, <4>3 DEF IsChecked, IsOnAxes
      <4>6. Promised(a) = Voxel(name, from) .. Voxel(name, to)
        BY <3>3, <4>1 DEF Promised
      <4> HIDE DEF name, from, to
      <4>7. Voxel(name, to) \in Int
        BY <4>5, LinesHaveVoxels
      <4> QED BY <4>4, <4>6, <4>7
    <3> QED BY <2>1, <3>1, <3>2, <3>3 DEF IsFinal, IsConstrained
  <2>3. described = Box
    <3>1. \A a \in AxisType : described.lower[a] = lower[a] /\ described.upper[a] = upper[a]
      BY <2>1, FinalBoxIsUnique
    <3>2. described.lower = lower /\ described.upper = upper
      BY <3>1 DEF SliceInv, Types
    <3> QED BY <3>2 DEF SliceInv, Types, Box
  <2> QED BY <2>2, <2>3
<1> QED BY <1>1, SliceInvariant, PTL

(***************************************************************************)
(* Time is never answered from depth, nor depth from time.                 *)
(***************************************************************************)
THEOREM NamedDomainsAreRespected == Spec => []NamedDomainIsRespected
<1>1. SliceInv => NamedDomainIsRespected
  <2> SUFFICES ASSUME SliceInv, outcome = "ok",
                      NEW name \in {Slicing} \union {bounds[b].direction : b \in 1 .. Len(bounds)}
               PROVE  /\ name = "time" => vertical.unit \notin DepthUnits /\ vertical.label # "Depth"
                      /\ name = "depth" => vertical.unit \notin TimeUnits /\ vertical.label # "Time"
    BY DEF NamedDomainIsRespected
  <2>1. IsVerticalFit(name)
    BY DEF SliceInv, RequestFitsVertical, Slicing
  <2> QED BY <2>1 DEF IsVerticalFit, DepthUnits, TimeUnits
<1> QED BY <1>1, SliceInvariant, PTL
=============================================================================
