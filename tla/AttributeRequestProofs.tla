----------------------- MODULE AttributeRequestProofs -----------------------
(***************************************************************************)
(* For surfaces of every size, on all grids, with all values: crossing     *)
(* surfaces are refused, and no others; what is accepted reaches           *)
(* make_subvolume in order; the sub-volume that it lays out has the        *)
(* samples that its readers need; and the surface that is aligned has the  *)
(* closest values.                                                         *)
(***************************************************************************)
EXTENDS AttributeRequest, TLAPS

(***************************************************************************)
(* What a surface says of a cell changes only with the surfaces.           *)
(***************************************************************************)
LEMMA CounterpartsAreStable ==
    ASSUME UNCHANGED surfaces
    PROVE  /\ \A c : HasCounterpart(c)' = HasCounterpart(c)
           /\ \A c : SecondaryValue(c)' = SecondaryValue(c)
           /\ Above' = Above /\ Below' = Below
<1>1. primary' = primary /\ secondary' = secondary /\ grids' = grids
  BY Zenon DEF surfaces
<1>2. ASSUME NEW c PROVE SecondaryPosition(c)' = SecondaryPosition(c)
  BY Zenon, <1>1 DEF SecondaryPosition
<1>3. ASSUME NEW c PROVE SecondaryValue(c)' = SecondaryValue(c)
  BY Zenon, <1>1, <1>2 DEF SecondaryValue
<1>4. ASSUME NEW c PROVE HasCounterpart(c)' = HasCounterpart(c)
  BY Zenon, <1>1, <1>2, <1>3 DEF HasCounterpart, IsInSecondary
<1> QED
  BY Zenon, <1>1, <1>3, <1>4 DEF Above, Below

(***************************************************************************)
(* The value at a row and a column of the secondary surface is one of its  *)
(* values (as_pair in align_surfaces stays within the array).              *)
(***************************************************************************)
LEMMA SecondaryValueType ==
    ASSUME NEW c, AlignmentInv, HasCounterpart(c)
    PROVE  SecondaryValue(c) \in Int
<1> DEFINE r == SecondaryPosition(c)[1]
           q == SecondaryPosition(c)[2]
           nr == grids.secondary.nrows
           nc == grids.secondary.ncols
<1>1. r \in 0 .. nr - 1 /\ q \in 0 .. nc - 1 /\ nr \in Nat /\ nc \in Nat
  BY Zenon DEF HasCounterpart, IsInSecondary, AlignmentInv
<1>2. r * nc + q \in 0 .. nr * nc - 1
  <2> HIDE DEF r, q, nr, nc
  <2>1. r * nc <= (nr - 1) * nc
    BY <1>1
  <2>2. (nr - 1) * nc = nr * nc - nc
    BY <1>1
  <2>3. 0 <= r * nc /\ r * nc \in Int /\ nr * nc \in Int
    BY <1>1
  <2> QED
    BY <1>1, <2>1, <2>2, <2>3
<1>3. secondary \in [0 .. nr * nc - 1 -> Int]
  BY Zenon DEF AlignmentInv
<1> QED
  BY Zenon, <1>2, <1>3 DEF SecondaryValue

(***************************************************************************)
(* OrderInv holds of the surfaces that a request begins with: shifts are   *)
(* not negative, or the request is refused, and fill values stay.          *)
(***************************************************************************)
LEMMA OrderInvInit == Init => OrderInv
<1> SUFFICES ASSUME Init PROVE OrderInv
  BY Zenon
<1>1. i \in 0 .. NCells /\ cell = 0 /\ aligned \in [Cells -> Int]
      /\ primary_is_top = FALSE /\ primary_is_bottom = FALSE
  BY SurfaceAssumption DEF Init, StartLayout, StartAlignment
<1>2. CASE GetAttributesAlongSurface
  <2>1. PICK a \in Along :
            /\ alignment = "none"
            /\ outcome = IF IsWindow(a.above, a.below) THEN "running" ELSE "invalid"
            /\ ref = [c \in Cells |-> toCdata(a.surface[c], 0)]
            /\ top = [c \in Cells |-> toCdata(a.surface[c], - a.above)]
            /\ bottom = [c \in Cells |-> toCdata(a.surface[c], a.below)]
    BY Zenon, <1>2 DEF GetAttributesAlongSurface
  <2>2. ASSUME NEW c \in Cells, outcome # "invalid" PROVE IsFill(c) \/ IsOrdered(c)
    <3>1. a.surface[c] \in Int /\ a.above \in Int /\ a.below \in Int
      BY Zenon, RequestAssumption
    <3>2. a.above >= 0 /\ a.below >= 0
      BY Zenon, <2>1, <2>2 DEF IsWindow
    <3> QED
      BY <2>1, <3>1, <3>2 DEF IsFill, IsOrdered, toCdata
  <2> QED
    BY Zenon, <1>1, <2>1, <2>2 DEF OrderInv
<1>3. CASE GetAttributesBetweenSurfaces
  <2>1. PICK b \in Between :
            /\ primary = b.primary /\ secondary = b.secondary /\ grids = b.grids
            /\ alignment = "running" /\ outcome = "waiting"
            /\ ref = [c \in Cells |-> toCdata(b.primary[c], 0)]
    BY Zenon, <1>3 DEF GetAttributesBetweenSurfaces
  <2>2. /\ b.primary \in [Cells -> Int]
        /\ b.grids.secondary.nrows \in Nat /\ b.grids.secondary.ncols \in Nat
        /\ b.secondary \in [0 .. b.grids.secondary.nrows * b.grids.secondary.ncols - 1 -> Int]
    BY Zenon, RequestAssumption
  <2>3. ref = primary
    BY <2>1, <2>2 DEF toCdata
  <2>4. AlignmentInv
    <3>1. 0 .. cell - 1 = {} /\ cell \in 0 .. NCells
      BY <1>1, SurfaceAssumption
    <3>2. primary_is_top \in BOOLEAN /\ primary_is_bottom \in BOOLEAN
          /\ ~ primary_is_top /\ ~ primary_is_bottom
      BY ZenonT(30), <1>1
    <3>3. alignment # "intersect" /\ alignment # "aligned"
      BY Zenon, <2>1
    <3> QED
      BY Zenon, <1>1, <2>1, <2>2, <3>1, <3>2, <3>3 DEF AlignmentInv
  <2> QED
    BY Zenon, <1>1, <2>1, <2>3, <2>4 DEF OrderInv
<1> QED
  BY Zenon, <1>2, <1>3 DEF Init

(***************************************************************************)
(* The loop of align_surfaces.                                             *)
(***************************************************************************)
LEMMA AlignmentInvStep ==
    ASSUME AlignmentInv, Align
    PROVE  AlignmentInv'
<1> SUFFICES ASSUME AlignmentInv, Align PROVE AlignmentInv'
  BY Zenon
<1>s. UNCHANGED surfaces
  BY Zenon DEF Align, AlignToFill, AlignCell, EndAlignment
<1>p. primary' = primary /\ secondary' = secondary /\ grids' = grids
  BY Zenon, <1>s DEF surfaces
<1>c. /\ \A c : HasCounterpart(c)' = HasCounterpart(c)
      /\ \A c : SecondaryValue(c)' = SecondaryValue(c)
      /\ Above' = Above /\ Below' = Below
  BY Zenon, <1>s, CounterpartsAreStable
<1>t. NCells \in Nat /\ Fill \in Int /\ Cells = 0 .. NCells - 1
  BY Zenon, SurfaceAssumption DEF Cells
<1>1. CASE AlignToFill
  <2>1. /\ alignment = "running" /\ cell < NCells /\ ~ HasCounterpart(cell)
        /\ aligned' = [aligned EXCEPT ![cell] = Fill]
        /\ cell' = cell + 1
        /\ primary_is_top' = primary_is_top /\ primary_is_bottom' = primary_is_bottom
        /\ alignment' = alignment
    BY Zenon, <1>1 DEF AlignToFill, Aligning
  <2>2. cell \in Cells /\ 0 .. cell' - 1 = (0 .. cell - 1) \union {cell} /\ cell' \in 0 .. NCells
    <3>1. cell \in 0 .. NCells /\ cell < NCells /\ cell' = cell + 1
      BY Zenon, <2>1 DEF AlignmentInv
    <3> QED
      BY <3>1, <1>t, SMTT(30)
  <2>3. aligned' \in [Cells -> Int]
    BY Zenon, <2>1, <1>t DEF AlignmentInv
  <2>4. \A c \in 0 .. cell' - 1 :
            aligned'[c] = IF HasCounterpart(c) THEN SecondaryValue(c) ELSE Fill
    BY <2>1, <2>2, <1>t DEF AlignmentInv
  <2>5. \A c \in 0 .. cell' - 1 : HasCounterpart(c) =>
            /\ primary[c] < SecondaryValue(c) => primary_is_top
            /\ primary[c] > SecondaryValue(c) => primary_is_bottom
    BY Zenon, <2>1, <2>2 DEF AlignmentInv
  <2> QED
    BY Zenon, <2>1, <2>2, <2>3, <2>4, <2>5, <1>p, <1>c DEF AlignmentInv
<1>2. CASE AlignCell
  <2> DEFINE value == SecondaryValue(cell)
             crossed == primary[cell] # value /\ IsTop(value) = IsBottom(value)
  <2>1. /\ alignment = "running" /\ cell < NCells /\ HasCounterpart(cell)
        /\ aligned' = [aligned EXCEPT ![cell] = value]
        /\ primary_is_top' = IsTop(value)
        /\ primary_is_bottom' = IsBottom(value)
        /\ cell' = IF crossed THEN cell ELSE cell + 1
        /\ alignment' = IF crossed THEN "intersect" ELSE "running"
    BY Zenon, <1>2 DEF AlignCell, Aligning
  <2>2. value \in Int /\ primary[cell] \in Int /\ cell \in Cells
    <3>1. value \in Int
      BY Zenon, <2>1, SecondaryValueType
    <3>2. cell \in Cells
      BY <2>1, <1>t DEF AlignmentInv
    <3> QED
      BY Zenon, <3>1, <3>2 DEF AlignmentInv
  <2>3. /\ primary[cell] < value => Above # {}
        /\ primary[cell] > value => Below # {}
    BY Zenon, <2>1, <2>2 DEF Above, Below
  <2>4. /\ IsTop(value) <=> (primary_is_top \/ primary[cell] < value)
        /\ IsBottom(value) <=> (primary_is_bottom \/ primary[cell] > value)
        /\ IsTop(value) \in BOOLEAN /\ IsBottom(value) \in BOOLEAN
    BY Zenon DEF IsTop, IsBottom
  <2> HIDE DEF value
  <2>5. \A c \in 0 .. cell' - 1 :
            aligned'[c] = IF HasCounterpart(c) THEN SecondaryValue(c) ELSE Fill
    BY <2>1, <2>2, <1>t DEF AlignmentInv, value
  <2>6. CASE crossed
    BY <2>1, <2>2, <2>3, <2>4, <2>5, <2>6, <1>p, <1>c, <1>t DEF AlignmentInv
  <2>7. CASE ~ crossed
    <3>1. ~ (primary_is_top' /\ primary_is_bottom')
      BY <2>1, <2>2, <2>4, <2>7 DEF AlignmentInv
    <3>2. ASSUME NEW c \in 0 .. cell' - 1, HasCounterpart(c)
          PROVE  /\ primary[c] < SecondaryValue(c) => primary_is_top'
                 /\ primary[c] > SecondaryValue(c) => primary_is_bottom'
      <4>1. CASE c = cell
        BY Zenon, <4>1, <2>1, <2>4 DEF value
      <4>2. CASE c # cell
        <5>1. c \in 0 .. cell - 1
          BY <4>2, <2>1, <2>2, <2>7, <1>t
        <5> QED
          BY Zenon, <5>1, <3>2, <2>1, <2>4 DEF AlignmentInv
      <4> QED
        BY Zenon, <4>1, <4>2
    <3>3. /\ alignment' = "running" /\ cell' \in 0 .. NCells
          /\ aligned' \in [Cells -> Int]
          /\ primary_is_top' \in BOOLEAN /\ primary_is_bottom' \in BOOLEAN
      BY <2>1, <2>2, <2>4, <2>7, <1>t DEF AlignmentInv
    <3>4. /\ primary_is_top' => Above # {}
          /\ primary_is_bottom' => Below # {}
      BY Zenon, <2>1, <2>3, <2>4 DEF AlignmentInv
    <3> QED
      BY ZenonT(30), <2>5, <3>1, <3>2, <3>3, <3>4, <1>p, <1>c DEF AlignmentInv
  <2> QED
    BY Zenon, <2>6, <2>7
<1>3. CASE EndAlignment
  BY Zenon, <1>3, <1>p, <1>c, <1>t DEF AlignmentInv, EndAlignment
<1> QED
  BY Zenon, <1>1, <1>2, <1>3 DEF Align

(***************************************************************************)
(* Aligned surfaces do not cross, so the primary surface and the aligned   *)
(* one are ordered in every cell where both have a value.                  *)
(***************************************************************************)
LEMMA ChooseTopStep ==
    ASSUME OrderInv, ChooseTop
    PROVE  \A c \in Cells : (IsFill(c) \/ IsOrdered(c))'
<1>1. /\ alignment = "aligned" /\ AlignmentInv /\ cell = NCells
      /\ ref' = primary
      /\ top' = IF primary_is_top THEN primary ELSE aligned
      /\ bottom' = IF primary_is_top THEN aligned ELSE primary
  BY ZenonT(30) DEF OrderInv, ChooseTop, primaryIsTop, AlignmentInv
<1>2. NCells \in Nat /\ Cells = 0 .. NCells - 1
  BY Zenon, SurfaceAssumption DEF Cells
<1> SUFFICES ASSUME NEW c \in Cells PROVE IsFill(c)' \/ IsOrdered(c)'
  BY Zenon
<1>3. c \in 0 .. cell - 1 /\ primary[c] \in Int
  BY Zenon, <1>1, <1>2 DEF AlignmentInv
<1>4. CASE ~ HasCounterpart(c)
  <2>1. aligned[c] = Fill
    BY Zenon, <1>1, <1>3, <1>4 DEF AlignmentInv
  <2> QED
    BY Zenon, <1>1, <2>1 DEF IsFill
<1>5. CASE HasCounterpart(c)
  <2>1. aligned[c] = SecondaryValue(c) /\ SecondaryValue(c) \in Int
    BY Zenon, <1>1, <1>3, <1>5, SecondaryValueType DEF AlignmentInv
  <2>2. CASE primary_is_top
    <3>1. primary[c] <= SecondaryValue(c)
      BY <1>1, <1>3, <1>5, <2>1, <2>2 DEF AlignmentInv
    <3> QED
      BY <1>1, <1>3, <2>1, <2>2, <3>1 DEF IsOrdered
  <2>3. CASE ~ primary_is_top
    <3>1. primary[c] >= SecondaryValue(c)
      BY <1>1, <1>3, <1>5, <2>1, <2>3 DEF AlignmentInv
    <3> QED
      BY <1>1, <1>3, <2>1, <2>3, <3>1 DEF IsOrdered
  <2> QED
    BY Zenon, <2>2, <2>3
<1> QED
  BY Zenon, <1>4, <1>5

(***************************************************************************)
(* Every step of a request keeps OrderInv.                                 *)
(***************************************************************************)
LEMMA OrderInvStep == OrderInv /\ [Next]_vars => OrderInv'
<1> SUFFICES ASSUME OrderInv, [Next]_vars PROVE OrderInv'
  BY Zenon
<1>t. NCells \in Nat /\ Cells = 0 .. NCells - 1
  BY Zenon, SurfaceAssumption DEF Cells
<1>s. ASSUME UNCHANGED <<surfaces, alignVars>>
      PROVE  /\ alignment' = alignment /\ primary' = primary
             /\ AlignmentInv' = AlignmentInv
  <2>1. /\ \A c : HasCounterpart(c)' = HasCounterpart(c)
        /\ \A c : SecondaryValue(c)' = SecondaryValue(c)
        /\ Above' = Above /\ Below' = Below
    BY Zenon, <1>s, CounterpartsAreStable
  <2> QED
    BY Zenon, <1>s, <2>1 DEF AlignmentInv, surfaces, alignVars
<1>o. ASSUME UNCHANGED inputs
      PROVE  \A c \in Cells : IsFill(c)' = IsFill(c) /\ IsOrdered(c)' = IsOrdered(c)
  BY Zenon, <1>o DEF inputs, IsFill, IsOrdered
<1>1. CASE AlignSurfaces
  <2>1. Align /\ UNCHANGED inputs /\ UNCHANGED layoutVars
    BY Zenon, <1>1 DEF AlignSurfaces
  <2>2. /\ alignment = "running" /\ alignment' \in {"running", "aligned", "intersect"}
        /\ primary' = primary
    BY Zenon, <2>1 DEF Align, AlignToFill, AlignCell, EndAlignment, Aligning, surfaces
  <2>3. AlignmentInv'
    BY Zenon, <2>1, <2>2, AlignmentInvStep DEF OrderInv
  <2> QED
    BY Zenon, <2>1, <2>2, <2>3, <1>o DEF OrderInv, inputs, layoutVars
<1>2. CASE ChooseTop
  <2>1. /\ UNCHANGED <<surfaces, alignVars>> /\ ref' = ref /\ i' = i
        /\ outcome' = "running" /\ alignment = "aligned"
    BY Zenon, <1>2 DEF ChooseTop
  <2>2. \A c \in Cells : IsFill(c)' \/ IsOrdered(c)'
    BY Zenon, <1>2, ChooseTopStep
  <2> QED
    BY Zenon, <2>1, <2>2, <1>s DEF OrderInv
<1>3. CASE MakeSubVolume
  <2>1. Layout /\ UNCHANGED <<surfaces, alignVars>>
    BY Zenon, <1>3 DEF MakeSubVolume
  <2>2. UNCHANGED inputs /\ outcome = "running" /\ outcome' # "waiting"
    BY Zenon, <2>1 DEF Layout, Skip, Refuse, MakeSegment, Release, Throw, Running
  <2>3. i' \in 0 .. NCells
    BY <2>1, <1>t DEF Layout, Skip, Refuse, MakeSegment, Release, Throw, Running, Advance, OrderInv
  <2>4. outcome' # "not_ordered"
    <3>1. CASE Refuse
      <4>1. i \in Cells
        BY <3>1, <1>t DEF Refuse, Running, OrderInv
      <4>2. IsOrdered(i)
        BY Zenon, <4>1, <3>1, <2>2 DEF OrderInv, Refuse, IsSkipped
      <4> QED
        BY Zenon, <3>1, <4>2 DEF Refuse, Throw
    <3> QED
      BY Zenon, <2>1, <2>2, <3>1 DEF Layout, Skip, MakeSegment, Release, Throw
  <2> QED
    BY Zenon, <2>1, <2>2, <2>3, <2>4, <1>s, <1>o DEF OrderInv, inputs
<1>4. CASE WriteFill \/ Reduce \/ UNCHANGED vars
  <2>1. UNCHANGED <<surfaces, alignVars>> /\ UNCHANGED inputs /\ UNCHANGED layoutVars
    BY Zenon, <1>4 DEF WriteFill, Reduce, vars
  <2> QED
    BY Zenon, <2>1, <1>s, <1>o DEF OrderInv, inputs, layoutVars
<1>5. CASE OutsideSpline
  <2>1. /\ UNCHANGED <<surfaces, alignVars>> /\ UNCHANGED inputs /\ i' = i
        /\ outcome = "made" /\ outcome' = "outside_spline"
    BY Zenon, <1>5 DEF OutsideSpline
  <2> QED
    BY Zenon, <2>1, <1>s, <1>o DEF OrderInv, inputs
<1> QED
  BY Zenon, <1>1, <1>2, <1>3, <1>4, <1>5 DEF Next

(***************************************************************************)
(* What align_surfaces has found and the order of the surfaces that are    *)
(* passed to make_subvolume, at every point of a request.                  *)
(***************************************************************************)
THEOREM OrderIsInvariant == Spec => []OrderInv
<1> QED
  BY OrderInvInit, OrderInvStep, PTL DEF Spec

(***************************************************************************)
(* make_subvolume never refuses surfaces for their order, for requests     *)
(* along one surface and between two.                                      *)
(***************************************************************************)
THEOREM SurfacesAreOrderedTheorem == Spec => []SurfacesAreOrdered
<1>1. OrderInv => SurfacesAreOrdered
  BY Zenon DEF OrderInv, SurfacesAreOrdered
<1> QED
  BY <1>1, OrderIsInvariant, PTL

(***************************************************************************)
(* align_surfaces refuses surfaces exactly if they cross.                  *)
(***************************************************************************)
THEOREM CrossingIsRefusedTheorem == Spec => []CrossingIsRefused
<1>1. OrderInv => CrossingIsRefused
  <2> SUFFICES ASSUME OrderInv PROVE CrossingIsRefused
    BY Zenon
  <2>1. CASE alignment = "aligned"
    <3>1. AlignmentInv /\ cell = NCells /\ Cells = 0 .. cell - 1
      BY Zenon, <2>1 DEF OrderInv, AlignmentInv, Cells
    <3>2. Above # {} => primary_is_top
      BY Zenon, <2>1, <3>1 DEF AlignmentInv, Above
    <3>3. Below # {} => primary_is_bottom
      BY Zenon, <2>1, <3>1 DEF AlignmentInv, Below
    <3> QED
      BY Zenon, <2>1, <3>1, <3>2, <3>3 DEF AlignmentInv, CrossingIsRefused
  <2>2. CASE alignment # "aligned"
    BY Zenon, <2>2 DEF OrderInv, AlignmentInv, CrossingIsRefused
  <2> QED
    BY Zenon, <2>1, <2>2
<1> QED
  BY <1>1, OrderIsInvariant, PTL
-----------------------------------------------------------------------------
(***************************************************************************)
(* The layout of make_subvolume, for surfaces of every size, traces of     *)
(* every length and all stepsizes.                                         *)
(***************************************************************************)

-----------------------------------------------------------------------------
\* Multiples of a stepsize are ordered as their numbers are.
LEMMA MultiplesAreOrdered ==
  ASSUME NEW p \in Int, NEW q \in Int, NEW s \in Nat \ {0}
  PROVE  /\ p * s < q * s + s => p <= q
         /\ p <= q => p * s <= q * s
<1>1. p * s < q * s + s => p <= q
  <2> SUFFICES ASSUME p * s < q * s + s, q + 1 <= p PROVE FALSE
    OBVIOUS
  <2>1. (q + 1) * s <= p * s
    OBVIOUS
  <2> QED BY <2>1
<1>2. p <= q => p * s <= q * s
  OBVIOUS
<1> QED BY Zenon, <1>1, <1>2

\* Division rounded down and rounded up.
LEMMA DownAndUp ==
  ASSUME NEW d \in Int, NEW s \in Nat \ {0}
  PROVE  /\ Down(d, s) \in Int /\ Up(d, s) \in Int
         /\ Down(d, s) * s <= d /\ d < Down(d, s) * s + s
         /\ d <= Up(d, s) * s /\ Up(d, s) * s < d + s
<1>1. \A e \in Int : /\ e \div s \in Int
                     /\ (e \div s) * s <= e /\ e < (e \div s) * s + s
  OBVIOUS
<1>2. PICK q \in Int : q = (- d) \div s /\ q * s <= - d /\ - d < q * s + s
  BY <1>1
<1>3. (- q) * s = - (q * s)
  OBVIOUS
<1> QED BY <1>1, <1>2, <1>3 DEF Down, Up

(***************************************************************************)
(* ceil_with_tolerance: at most a step above, and below by less than the   *)
(* tolerance; it keeps to the multiples that the distance keeps to, and is *)
(* not below at all if nothing is rounded.                                 *)
(***************************************************************************)
LEMMA CeilWithTolerance ==
  ASSUME NEW d \in Int, NEW s \in Nat \ {0}
  PROVE  /\ ceil_with_tolerance(d, s) \in Int
         /\ ceil_with_tolerance(d, s) * s < d + s
         /\ (d - ceil_with_tolerance(d, s) * s) * TolDen < s
         /\ \A k \in Int : /\ k * s <= d => k <= ceil_with_tolerance(d, s)
                           /\ d <= k * s => ceil_with_tolerance(d, s) <= k
         /\ ~ IsRounded(d, s) => d <= ceil_with_tolerance(d, s) * s
<1> DEFINE c == ceil_with_tolerance(d, s)
           q == Down(d, s)
           r == Up(d, s)
<1>1. /\ q \in Int /\ r \in Int
      /\ q * s <= d /\ d < q * s + s
      /\ d <= r * s /\ r * s < d + s
  BY Zenon, DownAndUp
<1>2. \/ c = q /\ (d - q * s) * TolDen < s
      \/ c = r /\ ~ ((d - q * s) * TolDen < s)
  BY Zenon DEF ceil_with_tolerance
<1>3. d % s = d - q * s
  BY DEF Down
<1>t. TolDen \in Nat \ {0} /\ q * s \in Int /\ r * s \in Int
  BY <1>1, StepAssumption
<1> HIDE DEF c, q, r
<1>4. (d - r * s) * TolDen <= 0
  <2>1. PICK e \in Int : e = d - r * s
    BY <1>t
  <2>2. e <= 0
    BY <2>1, <1>1, <1>t
  <2> QED BY <2>1, <2>2, <1>t
<1>5. c \in Int /\ c * s < d + s /\ (d - c * s) * TolDen < s
  BY <1>1, <1>2, <1>4, <1>t
<1>6. ASSUME NEW k \in Int
      PROVE  /\ k * s <= d => k <= c
             /\ d <= k * s => c <= k
  <2>1. k * s \in Int
    OBVIOUS
  <2>2. k * s <= d => k <= q /\ k <= r
    BY <1>1, <1>t, <2>1, MultiplesAreOrdered
  <2>3. d <= k * s => q <= k /\ r <= k
    BY <1>1, <1>t, <2>1, MultiplesAreOrdered
  <2> QED BY Zenon, <1>2, <2>2, <2>3
<1>7. ~ IsRounded(d, s) => d <= c * s
  <2> SUFFICES ASSUME ~ IsRounded(d, s), c = q, (d - q * s) * TolDen < s
               PROVE  d <= c * s
    BY Zenon, <1>1, <1>2
  <2>1. d % s = 0
    BY Zenon, <1>3 DEF IsRounded
  <2> QED BY <1>3, <1>t, <2>1
<1> QED BY Zenon, <1>5, <1>6, <1>7 DEF c

(***************************************************************************)
(* floor_with_tolerance, the other way around.                             *)
(***************************************************************************)
LEMMA FloorWithTolerance ==
  ASSUME NEW d \in Int, NEW s \in Nat \ {0}
  PROVE  /\ floor_with_tolerance(d, s) \in Int
         /\ d < floor_with_tolerance(d, s) * s + s
         /\ (floor_with_tolerance(d, s) * s - d) * TolDen < s
         /\ \A k \in Int : /\ k * s <= d => k <= floor_with_tolerance(d, s)
                           /\ d <= k * s => floor_with_tolerance(d, s) <= k
         /\ ~ IsRounded(d, s) => floor_with_tolerance(d, s) * s <= d
<1> DEFINE f == floor_with_tolerance(d, s)
           q == Down(d, s)
           r == Up(d, s)
<1>1. /\ q \in Int /\ r \in Int
      /\ q * s <= d /\ d < q * s + s
      /\ d <= r * s /\ r * s < d + s
  BY Zenon, DownAndUp
<1>2. \/ f = r /\ (r * s - d) * TolDen < s
      \/ f = q /\ ~ ((r * s - d) * TolDen < s)
  BY Zenon DEF floor_with_tolerance
<1>3. d % s = d - q * s
  BY DEF Down
<1>t. TolDen \in Nat \ {0} /\ q * s \in Int /\ r * s \in Int
  BY <1>1, StepAssumption
<1> HIDE DEF f, q, r
<1>4. (q * s - d) * TolDen <= 0
  <2>1. PICK e \in Int : e = q * s - d
    BY <1>t
  <2>2. e <= 0
    BY <2>1, <1>1, <1>t
  <2> QED BY <2>1, <2>2, <1>t
<1>5. f \in Int /\ d < f * s + s /\ (f * s - d) * TolDen < s
  BY <1>1, <1>2, <1>4, <1>t
<1>6. ASSUME NEW k \in Int
      PROVE  /\ k * s <= d => k <= f
             /\ d <= k * s => f <= k
  <2>1. k * s \in Int
    OBVIOUS
  <2>2. k * s <= d => k <= q /\ k <= r
    BY <1>1, <1>t, <2>1, MultiplesAreOrdered
  <2>3. d <= k * s => q <= k /\ r <= k
    BY <1>1, <1>t, <2>1, MultiplesAreOrdered
  <2> QED BY Zenon, <1>2, <2>2, <2>3
<1>7. ~ IsRounded(d, s) => f * s <= d
  <2> SUFFICES ASSUME ~ IsRounded(d, s), f = r, (r * s - d) * TolDen < s
               PROVE  f * s <= d
    BY Zenon, <1>1, <1>2
  <2>1. CASE d % s = 0
    <3>1. d = q * s /\ r * s < q * s + s
      BY <1>1, <1>3, <1>t, <2>1
    <3>2. r <= q
      BY Zenon, <1>1, <3>1, MultiplesAreOrdered
    <3>3. r * s <= q * s
      BY Zenon, <1>1, <3>2, MultiplesAreOrdered
    <3> QED BY Zenon, <3>1, <3>3
  <2>2. CASE d % s # 0
    <3>1. q < r
      BY <1>1, <1>3, <1>t, <2>2, MultiplesAreOrdered
    <3>2. r * s = q * s + s
      BY <1>1, <1>t, <3>1, MultiplesAreOrdered
    <3>3. r * s - d = s - (d % s)
      BY <1>3, <1>t, <3>2
    <3> QED BY Zenon, <2>2, <3>3 DEF IsRounded
  <2> QED BY Zenon, <2>1, <2>2
<1> QED BY Zenon, <1>5, <1>6, <1>7 DEF f

-----------------------------------------------------------------------------
(***************************************************************************)
(* What make_subvolume has decided about a cell.                           *)
(***************************************************************************)
Missing(c) == min_samples - Size(c, TopMargin(c), BottomMargin(c))
ChosenTop(c) ==
    IF Missing(c) > 0 /\ TopMargin(c) = preferred_margin
    THEN TopMargin(c) + Missing(c) ELSE TopMargin(c)
ChosenBottom(c) ==
    IF Missing(c) > 0 /\ TopMargin(c) # preferred_margin
    THEN BottomMargin(c) + Missing(c) ELSE BottomMargin(c)
IsTooSmall(c) ==
    /\ Missing(c) > 0
    /\ TopMargin(c) # preferred_margin /\ BottomMargin(c) # preferred_margin

HasNoSamples(c) == IsFill(c) \/ ~ inside[c]
HasSamples(c) ==
    /\ IsOrdered(c) /\ IsInBounds(c) /\ ~ IsTooSmall(c)
    /\ offsets[c + 1] = offsets[c] + Size(c, ChosenTop(c), ChosenBottom(c))
    /\ top_margin(c) = ChosenTop(c)

Outcomes == {"invalid", "waiting", "running", "made", "not_ordered",
             "out_of_bounds", "too_small", "outside_spline"}

(***************************************************************************)
(* The inductive invariant of the loop in make_subvolume, on top of        *)
(* OrderInv: the offsets of the cells before i are those of the margins    *)
(* that calculate_margin and the extension chose, and what is not in       *)
(* topMargins is the preferred margin.                                     *)
(***************************************************************************)
LayoutInv ==
    /\ nsamples \in Nat \ {0, 1} /\ outstep \in Nat \ {0}
    /\ inside \in [Cells -> BOOLEAN]
    /\ outcome \in Outcomes
    /\ outcome \in {"waiting", "invalid"} => i = 0
    /\ outcome \notin {"waiting", "invalid"} =>
         ref \in [Cells -> Int] /\ top \in [Cells -> Int] /\ bottom \in [Cells -> Int]
    /\ offsets \in [0 .. i -> Nat]
    /\ DOMAIN topMargins \subseteq 0 .. i - 1
    /\ \A c \in 0 .. i - 1 :
         IF HasNoSamples(c) THEN offsets[c + 1] = offsets[c] ELSE HasSamples(c)

-----------------------------------------------------------------------------
(***************************************************************************)
(* A set of margins has a largest one.                                     *)
(***************************************************************************)
LEMMA LargestMargin ==
  ASSUME NEW S \in SUBSET (1 .. 2)
  PROVE  /\ Max({0} \union S) \in 0 .. 2
         /\ Max({0} \union S) # 0 => Max({0} \union S) \in S
         /\ \A m \in S : m <= Max({0} \union S)
<1> DEFINE M == {0} \union S
<1>1. \E x \in M : \A y \in M : x >= y
  <2>1. CASE 2 \in S
    BY <2>1
  <2>2. CASE 2 \notin S /\ 1 \in S
    BY <2>2
  <2>3. CASE 2 \notin S /\ 1 \notin S
    BY <2>3
  <2> QED BY Zenon, <2>1, <2>2, <2>3
<1>2. Max(M) \in M /\ \A y \in M : Max(M) >= y
  <2> HIDE DEF M
  <2> QED BY Zenon, <1>1 DEF Max
<1>3. PICK x : x = Max({0} \union S)
  BY Zenon
<1>4. x \in {0} \union S /\ \A y \in {0} \union S : x >= y
  BY Zenon, <1>2, <1>3
<1>5. x \in 0 .. 2 /\ (x # 0 => x \in S) /\ \A m \in S : m <= x
  BY <1>4
<1> QED BY Zenon, <1>3, <1>5

(***************************************************************************)
(* calculate_margin for a cell whose surfaces are ordered and on the axis: *)
(* T and B are the first and the last sample of the window; they are       *)
(* samples of the trace, and B may be one less than T; a margin of two is  *)
(* cut by the end of the trace.                                            *)
(***************************************************************************)
LEMMA MarginsOfWindow ==
  ASSUME LayoutInv, NEW c \in Cells, outcome \notin {"waiting", "invalid"},
         IsOrdered(c), IsInBounds(c)
  PROVE  LET T == TopSample(c, 0)
             B == BottomSample(c, 0)
             t == TopMargin(c)
             b == BottomMargin(c)
         IN  /\ T \in 0 .. nsamples - 1 /\ B \in 0 .. nsamples - 1 /\ T <= B + 1
             /\ t = IF T >= 2 THEN 2 ELSE T
             /\ b = IF nsamples - 1 - B >= 2 THEN 2 ELSE nsamples - 1 - B
             /\ \A x \in Int : TopSample(c, x) = T - x /\ BottomSample(c, x) = B + x
             /\ T * Step < top[c] - AxisMin + Step
             /\ bottom[c] - AxisMin < B * Step + Step
<1> DEFINE T == TopSample(c, 0)
           B == BottomSample(c, 0)
           d == top[c] - AxisMin
           e == bottom[c] - AxisMin
           last == nsamples - 1
           C == ceil_with_tolerance(d, Step)
           F == floor_with_tolerance(e, Step)
<1>1. /\ top[c] \in Int /\ ref[c] \in Int /\ bottom[c] \in Int
      /\ AxisMin \in Int /\ Step \in Nat \ {0} /\ nsamples \in Nat /\ nsamples >= 2
  BY StepAssumption DEF LayoutInv
<1>2. /\ d \in Int /\ e \in Int /\ last \in Nat /\ d <= e
      /\ 0 <= d /\ d <= last * Step /\ 0 <= e /\ e <= last * Step
  <2>1. last * Step \in Int
    BY <1>1
  <2> QED BY <1>1, <2>1 DEF IsOrdered, IsInBounds, inrange, AxisMax
<1>3. /\ C \in Int /\ F \in Int
      /\ \A x \in Int : TopSample(c, x) = C - x /\ BottomSample(c, x) = F + x
  BY Zenon, <1>1, <1>2, CeilWithTolerance, FloorWithTolerance DEF TopSample, BottomSample
<1>4. T = C /\ B = F
  BY <1>3
<1> HIDE DEF T, B, d, e, C, F, last
<1>5. /\ C * Step < d + Step
      /\ \A k \in Int : /\ k * Step <= d => k <= C
                        /\ d <= k * Step => C <= k
  BY Zenon, <1>1, <1>2, CeilWithTolerance DEF C
<1>6. /\ e < F * Step + Step
      /\ \A k \in Int : /\ k * Step <= e => k <= F
                        /\ e <= k * Step => F <= k
  BY Zenon, <1>1, <1>2, FloorWithTolerance DEF F
<1>7. C \in 0 .. last /\ F \in 0 .. last
  <2>1. 0 * Step <= d /\ 0 * Step <= e /\ 0 \in Int /\ last \in Int
    BY <1>1, <1>2
  <2>2. 0 <= C /\ C <= last
    BY Zenon, <1>2, <1>5, <2>1
  <2>3. 0 <= F /\ F <= last
    BY Zenon, <1>2, <1>6, <2>1
  <2> QED BY <1>2, <1>3, <2>2, <2>3
<1>8. C <= F + 1
  <2>1. (F + 1) * Step = F * Step + Step
    BY <1>1, <1>3
  <2>2. d <= (F + 1) * Step
    BY <1>1, <1>2, <1>3, <1>6, <2>1
  <2> QED BY <1>3, <1>5, <2>2
<1>9. ASSUME NEW k \in Int
      PROVE  inrange(AxisMin + k * Step) <=> k \in 0 .. last
  <2>1. k * Step \in Int /\ last * Step \in Int /\ last \in Int
    BY <1>1, <1>2
  <2>2. inrange(AxisMin + k * Step) <=> 0 <= k * Step /\ k * Step <= last * Step
    BY <1>1, <2>1 DEF inrange, AxisMax, last
  <2>3. 0 <= k <=> 0 <= k * Step
    BY <1>1
  <2>4. k <= last <=> k * Step <= last * Step
    <3>1. k <= last => k * Step <= last * Step
      BY Zenon, <1>1, <2>1, MultiplesAreOrdered
    <3>2. k * Step <= last * Step => k <= last
      BY <1>1, <2>1, MultiplesAreOrdered
    <3> QED BY Zenon, <3>1, <3>2
  <2> QED BY <2>1, <2>2, <2>3, <2>4
<1>10. TopMargin(c) = IF C >= 2 THEN 2 ELSE C
  <2> DEFINE S == {m \in 1 .. 2 : inrange(AxisMin + TopSample(c, m) * Step)}
  <2>1. \A m \in 1 .. 2 : m \in S <=> C - m >= 0
    BY <1>3, <1>7, <1>9, <1>2
  <2>2. TopMargin(c) = Max({0} \union S)
    BY Zenon DEF TopMargin, preferred_margin
  <2>3. S \in SUBSET (1 .. 2)
    BY Zenon
  <2> HIDE DEF S
  <2>4. /\ TopMargin(c) \in 0 .. 2
        /\ TopMargin(c) # 0 => TopMargin(c) \in S
        /\ \A m \in S : m <= TopMargin(c)
    BY Zenon, <2>2, <2>3, LargestMargin
  <2> QED BY <1>2, <1>7, <2>1, <2>3, <2>4
<1>11. BottomMargin(c) = IF last - F >= 2 THEN 2 ELSE last - F
  <2> DEFINE S == {m \in 1 .. 2 : inrange(AxisMin + BottomSample(c, m) * Step)}
  <2>1. \A m \in 1 .. 2 : m \in S <=> F + m <= last
    BY <1>3, <1>7, <1>9, <1>2
  <2>2. BottomMargin(c) = Max({0} \union S)
    BY Zenon DEF BottomMargin, preferred_margin
  <2>3. S \in SUBSET (1 .. 2)
    BY Zenon
  <2> HIDE DEF S
  <2>4. /\ BottomMargin(c) \in 0 .. 2
        /\ BottomMargin(c) # 0 => BottomMargin(c) \in S
        /\ \A m \in S : m <= BottomMargin(c)
    BY Zenon, <2>2, <2>3, LargestMargin
  <2> QED BY <1>2, <1>7, <2>1, <2>3, <2>4
<1> QED BY Zenon, <1>3, <1>4, <1>5, <1>6, <1>7, <1>8, <1>10, <1>11 DEF T, B, d, e, last

(***************************************************************************)
(* The segment of a cell that has samples: it has four samples or more, it *)
(* begins and ends at margins that are not negative, and is cut only where *)
(* the trace ends.                                                         *)
(***************************************************************************)
LEMMA SegmentOfCell ==
  ASSUME LayoutInv, NEW c \in Cells, outcome \notin {"waiting", "invalid"},
         IsOrdered(c), IsInBounds(c), ~ IsTooSmall(c)
  PROVE  LET T == TopSample(c, 0)
             B == BottomSample(c, 0)
             x == ChosenTop(c)
             y == ChosenBottom(c)
         IN  /\ x \in Nat /\ y \in Nat
             /\ Size(c, x, y) = (B + y) - (T - x) + 1 /\ Size(c, x, y) >= 4
             /\ x = 0 => T = 0
             /\ y = 0 => B = nsamples - 1
             /\ nsamples # 3 => 0 <= T - x /\ B + y <= nsamples - 1
<1> DEFINE T == TopSample(c, 0)
           B == BottomSample(c, 0)
           t == TopMargin(c)
           b == BottomMargin(c)
<1>1. /\ T \in 0 .. nsamples - 1 /\ B \in 0 .. nsamples - 1 /\ T <= B + 1
      /\ t = IF T >= 2 THEN 2 ELSE T
      /\ b = IF nsamples - 1 - B >= 2 THEN 2 ELSE nsamples - 1 - B
      /\ \A x \in Int : TopSample(c, x) = T - x /\ BottomSample(c, x) = B + x
  BY Zenon, MarginsOfWindow
<1>n. nsamples \in Nat /\ nsamples >= 2
  BY DEF LayoutInv
<1>2. \A x, y \in Int : Size(c, x, y) = (B + y) - (T - x) + 1
  BY Zenon, <1>1 DEF Size
<1>3. Missing(c) = 4 - ((B + b) - (T - t) + 1)
  <2>1. Missing(c) = 4 - Size(c, t, b)
    BY Zenon DEF Missing, min_samples
  <2> HIDE DEF T, B, t, b
  <2>2. t \in Int /\ b \in Int
    BY <1>1, <1>n
  <2> QED BY Zenon, <1>2, <2>1, <2>2
<1>4. /\ ChosenTop(c) = IF Missing(c) > 0 /\ t = 2 THEN t + Missing(c) ELSE t
      /\ ChosenBottom(c) = IF Missing(c) > 0 /\ t # 2 THEN b + Missing(c) ELSE b
      /\ ~ (Missing(c) > 0 /\ t # 2 /\ b # 2)
  BY Zenon DEF ChosenTop, ChosenBottom, IsTooSmall, preferred_margin
<1> HIDE DEF T, B, t, b
<1>5. ChosenTop(c) \in Nat /\ ChosenBottom(c) \in Nat
  BY <1>1, <1>n, <1>3, <1>4
<1>6. /\ ChosenTop(c) = 0 => T = 0
      /\ ChosenBottom(c) = 0 => B = nsamples - 1
  BY <1>1, <1>n, <1>3, <1>4
<1>7. nsamples # 3 => 0 <= T - ChosenTop(c) /\ B + ChosenBottom(c) <= nsamples - 1
  BY <1>1, <1>n, <1>3, <1>4
<1>8. (B + ChosenBottom(c)) - (T - ChosenTop(c)) + 1 >= 4
  BY <1>1, <1>n, <1>3, <1>4
<1> QED BY <1>2, <1>5, <1>6, <1>7, <1>8 DEF T, B

-----------------------------------------------------------------------------
(***************************************************************************)
(* What is decided about a cell changes only with the inputs.              *)
(***************************************************************************)
LEMMA DecisionsAreStable ==
  ASSUME UNCHANGED inputs, NEW c
  PROVE  /\ HasNoSamples(c)' = HasNoSamples(c)
         /\ IsOrdered(c)' = IsOrdered(c) /\ IsInBounds(c)' = IsInBounds(c)
         /\ IsTooSmall(c)' = IsTooSmall(c) /\ ChosenTop(c)' = ChosenTop(c)
         /\ Size(c, ChosenTop(c), ChosenBottom(c))' = Size(c, ChosenTop(c), ChosenBottom(c))
<1>1. /\ nsamples' = nsamples /\ ref' = ref /\ top' = top /\ bottom' = bottom
      /\ inside' = inside
  BY Zenon DEF inputs
<1>2. /\ HasNoSamples(c)' = HasNoSamples(c)
      /\ IsOrdered(c)' = IsOrdered(c)
      /\ IsInBounds(c)' = IsInBounds(c)
  BY Zenon, <1>1 DEF HasNoSamples, IsFill, IsOrdered, IsInBounds, inrange, AxisMax
<1>3. TopMargin(c)' = TopMargin(c)
  BY Zenon, <1>1 DEF TopMargin, inrange, AxisMax, TopSample
<1>4. BottomMargin(c)' = BottomMargin(c)
  BY Zenon, <1>1 DEF BottomMargin, inrange, AxisMax, BottomSample
<1>5. Missing(c)' = Missing(c)
  BY Zenon, <1>1, <1>3, <1>4 DEF Missing, Size, TopSample, BottomSample
<1>6. ChosenTop(c)' = ChosenTop(c) /\ ChosenBottom(c)' = ChosenBottom(c)
  BY Zenon, <1>3, <1>4, <1>5 DEF ChosenTop, ChosenBottom
<1>7. IsTooSmall(c)' = IsTooSmall(c)
  BY Zenon, <1>3, <1>4, <1>5 DEF IsTooSmall
<1>8. Size(c, ChosenTop(c), ChosenBottom(c))' = Size(c, ChosenTop(c), ChosenBottom(c))
  BY Zenon, <1>1, <1>6 DEF Size, TopSample, BottomSample
<1> QED BY Zenon, <1>2, <1>6, <1>7, <1>8

(***************************************************************************)
(* A request begins with no cell laid out; a request along a surface has   *)
(* its three surfaces.                                                     *)
(***************************************************************************)
LEMMA LayoutInvInit == Init => LayoutInv
<1> SUFFICES ASSUME Init PROVE LayoutInv
  BY Zenon
<1>1. nsamples \in Nat \ {0, 1} /\ outstep \in Nat \ {0}
  BY Zenon, RequestAssumption DEF Init
<1>2. inside \in [Cells -> BOOLEAN] /\ i = 0
      /\ offsets = [c \in {0} |-> 0] /\ topMargins = [c \in {} |-> 0]
  BY Zenon DEF Init, StartLayout
<1>3. /\ outcome \in Outcomes
      /\ outcome \notin {"waiting", "invalid"} =>
           ref \in [Cells -> Int] /\ top \in [Cells -> Int] /\ bottom \in [Cells -> Int]
  <2>1. CASE GetAttributesAlongSurface
    <3>1. PICK a \in Along :
              /\ outcome = IF IsWindow(a.above, a.below) THEN "running" ELSE "invalid"
              /\ ref = [c \in Cells |-> toCdata(a.surface[c], 0)]
              /\ top = [c \in Cells |-> toCdata(a.surface[c], - a.above)]
              /\ bottom = [c \in Cells |-> toCdata(a.surface[c], a.below)]
      BY Zenon, <2>1 DEF GetAttributesAlongSurface
    <3>2. a.surface \in [Cells -> Int] /\ a.above \in Int /\ a.below \in Int
      BY Zenon, RequestAssumption
    <3> QED BY <3>1, <3>2 DEF toCdata, Outcomes
  <2>2. CASE GetAttributesBetweenSurfaces
    BY Zenon, <2>2 DEF GetAttributesBetweenSurfaces, Outcomes
  <2> QED BY Zenon, <2>1, <2>2 DEF Init
<1>4. 0 .. i = {0} /\ 0 .. i - 1 = {}
  BY <1>2
<1> QED BY Zenon, <1>1, <1>2, <1>3, <1>4 DEF LayoutInv

(***************************************************************************)
(* A pass of the loop that does not throw: the offset of the next cell is  *)
(* the one of this cell and its size, and nothing changes for the cells    *)
(* before it.                                                              *)
(***************************************************************************)
LEMMA AdvanceStep ==
  ASSUME LayoutInv, OrderInv, Running, UNCHANGED inputs, outcome' = outcome,
         NEW size \in Nat, Advance(size), NEW j, j = i,
         DOMAIN topMargins' \subseteq 0 .. i,
         \A c \in 0 .. i - 1 : top_margin(c)' = top_margin(c),
         IF HasNoSamples(j) THEN size = 0
         ELSE /\ IsOrdered(j) /\ IsInBounds(j) /\ ~ IsTooSmall(j)
              /\ size = Size(j, ChosenTop(j), ChosenBottom(j))
              /\ top_margin(j)' = ChosenTop(j)
  PROVE  LayoutInv'
<1>1. i \in Nat /\ i' = i + 1 /\ offsets \in [0 .. i -> Nat] /\ outcome = "running"
  BY DEF OrderInv, Advance, LayoutInv, Running
<1>2. offsets' = [c \in 0 .. i + 1 |-> IF c = i + 1 THEN offsets[i] + size ELSE offsets[c]]
  BY Zenon DEF Advance, NextOffset
<1>3. offsets' \in [0 .. i' -> Nat]
  BY <1>1, <1>2
<1>4. /\ offsets'[i + 1] = offsets[i] + size
      /\ \A c \in 0 .. i : offsets'[c] = offsets[c]
  BY <1>1, <1>2
<1>5. ASSUME NEW c \in 0 .. i' - 1
      PROVE  IF HasNoSamples(c)' THEN offsets'[c + 1] = offsets'[c] ELSE HasSamples(c)'
  <2>1. CASE c = j
    <3>1. offsets'[c] = offsets[i] /\ offsets'[c + 1] = offsets[i] + size /\ offsets[i] \in Nat
      BY <1>1, <1>4, <2>1
    <3>2. CASE HasNoSamples(j)
      <4>1. HasNoSamples(c)' /\ size = 0
        BY Zenon, <2>1, <3>2, DecisionsAreStable
      <4> QED BY <3>1, <4>1
    <3>3. CASE ~ HasNoSamples(j)
      <4>1. /\ IsOrdered(j)' /\ IsInBounds(j)' /\ ~ IsTooSmall(j)'
            /\ Size(j, ChosenTop(j), ChosenBottom(j))' = size
            /\ top_margin(j)' = ChosenTop(j)'
        BY Zenon, <3>3, DecisionsAreStable
      <4>2. ~ HasNoSamples(j)'
        BY Zenon, <3>3, DecisionsAreStable
      <4>3. HasSamples(j)'
        BY Zenon, <4>1, <3>1, <2>1 DEF HasSamples
      <4> QED BY Zenon, <4>2, <4>3, <2>1
    <3> QED BY Zenon, <3>2, <3>3
  <2>2. CASE c # j
    <3>1. c \in 0 .. i - 1 /\ c \in 0 .. i /\ c + 1 \in 0 .. i
      BY <1>1, <2>2
    <3>2. offsets'[c] = offsets[c] /\ offsets'[c + 1] = offsets[c + 1]
      BY Zenon, <1>4, <3>1
    <3>3. IF HasNoSamples(c) THEN offsets[c + 1] = offsets[c] ELSE HasSamples(c)
      BY Zenon, <3>1 DEF LayoutInv
    <3>4. top_margin(c)' = top_margin(c)
      BY Zenon, <3>1
    <3>5. CASE HasNoSamples(c)
      <4>1. HasNoSamples(c)'
        BY Zenon, <3>5, DecisionsAreStable
      <4> QED BY Zenon, <3>2, <3>3, <3>5, <4>1
    <3>6. CASE ~ HasNoSamples(c)
      <4>1. ~ HasNoSamples(c)' /\ HasSamples(c)
        BY Zenon, <3>3, <3>6, DecisionsAreStable
      <4>2. HasSamples(c)'
        BY Zenon, <3>2, <3>4, <4>1, DecisionsAreStable DEF HasSamples
      <4> QED BY Zenon, <4>1, <4>2
    <3> QED BY Zenon, <3>5, <3>6
  <2> QED BY Zenon, <2>1, <2>2
<1>6. DOMAIN topMargins' \subseteq 0 .. i' - 1
  BY <1>1
<1>7. /\ nsamples' = nsamples /\ outstep' = outstep /\ inside' = inside
      /\ ref' = ref /\ top' = top /\ bottom' = bottom
  BY Zenon DEF inputs
<1> QED BY Zenon, <1>1, <1>3, <1>5, <1>6, <1>7 DEF LayoutInv

(***************************************************************************)
(* Steps that leave the inputs and the layout alone.                       *)
(***************************************************************************)
LEMMA LayoutStays ==
  ASSUME LayoutInv, UNCHANGED inputs, i' = i, offsets' = offsets, topMargins' = topMargins,
         outcome' \in Outcomes,
         outcome' \in {"waiting", "invalid"} <=> outcome \in {"waiting", "invalid"}
  PROVE  LayoutInv'
<1>1. /\ nsamples' = nsamples /\ outstep' = outstep /\ inside' = inside
      /\ ref' = ref /\ top' = top /\ bottom' = bottom
  BY Zenon DEF inputs
<1>2. ASSUME NEW c \in 0 .. i - 1
      PROVE  IF HasNoSamples(c)' THEN offsets'[c + 1] = offsets'[c] ELSE HasSamples(c)'
  <2>1. top_margin(c)' = top_margin(c)
    BY Zenon DEF top_margin
  <2>2. HasNoSamples(c)' = HasNoSamples(c) /\ HasSamples(c)' = HasSamples(c)
    BY <2>1, DecisionsAreStable DEF HasSamples
  <2> QED BY Zenon, <2>2 DEF LayoutInv
<1> QED BY Zenon, <1>1, <1>2 DEF LayoutInv

(***************************************************************************)
(* A cell that is laid out.                                                *)
(***************************************************************************)
LEMMA MakeSegmentStep ==
  ASSUME LayoutInv, OrderInv, MakeSegment
  PROVE  LayoutInv'
<1>0. PICK j : j = i
  BY Zenon
<1>1. /\ Running /\ ~ IsSkipped(j) /\ IsOrdered(j) /\ IsInBounds(j)
      /\ outcome = "running" /\ i < NCells
  BY Zenon, <1>0 DEF MakeSegment, Running
<1>2. j \in Cells /\ i \in Nat /\ inside[j] \in BOOLEAN
  BY <1>0, <1>1, SurfaceAssumption DEF OrderInv, Cells, LayoutInv
<1>3. ~ HasNoSamples(j)
  BY Zenon, <1>1, <1>2 DEF IsSkipped, HasNoSamples
<1>4. CASE IsTooSmall(j)
  <2>1. Throw("too_small")
    BY Zenon, <1>0, <1>4 DEF MakeSegment, IsTooSmall, Missing
  <2> QED BY Zenon, <1>1, <2>1, LayoutStays DEF Throw, Outcomes
<1>5. CASE ~ IsTooSmall(j)
  <2> DEFINE t == TopMargin(j)
             extendTop == Missing(j) > 0 /\ t = preferred_margin
             size == Size(j, ChosenTop(j), ChosenBottom(j))
  <2>1. /\ Advance(size)
        /\ topMargins' = IF IsStored(t, extendTop)
                          THEN [c \in DOMAIN topMargins \union {j} |->
                                  IF c = j THEN ChosenTop(j) ELSE topMargins[c]]
                          ELSE topMargins
        /\ UNCHANGED inputs /\ outcome' = outcome
    BY Zenon, <1>0, <1>5 DEF MakeSegment, IsTooSmall, Missing, ChosenTop, ChosenBottom
  <2>2. size \in Nat
    <3>1. /\ size = (BottomSample(j, 0) + ChosenBottom(j)) - (TopSample(j, 0) - ChosenTop(j)) + 1
          /\ size >= 4 /\ ChosenTop(j) \in Nat /\ ChosenBottom(j) \in Nat
      BY Zenon, <1>1, <1>2, <1>5, SegmentOfCell
    <3>2. TopSample(j, 0) \in Int /\ BottomSample(j, 0) \in Int
      BY <1>1, <1>2, MarginsOfWindow
    <3> QED BY <3>1, <3>2
  <2>3. DOMAIN topMargins \subseteq 0 .. i - 1
    BY Zenon DEF LayoutInv
  <2>4. top_margin(j)' = ChosenTop(j)
    <3>1. CASE IsStored(t, extendTop)
      BY Zenon, <2>1, <3>1 DEF top_margin
    <3>2. CASE ~ IsStored(t, extendTop)
      <4>1. t = preferred_margin /\ ~ extendTop
        BY Zenon, <3>2 DEF IsStored
      <4>2. ChosenTop(j) = preferred_margin
        BY Zenon, <4>1 DEF ChosenTop
      <4>3. j \notin DOMAIN topMargins /\ topMargins' = topMargins
        BY <1>0, <1>2, <2>1, <2>3, <3>2
      <4> QED BY Zenon, <4>2, <4>3 DEF top_margin
    <3> QED BY Zenon, <3>1, <3>2
  <2> HIDE DEF extendTop, size, t
  <2>5. DOMAIN topMargins' \subseteq 0 .. i
    BY <1>0, <1>2, <2>1, <2>3
  <2>6. ASSUME NEW c \in 0 .. i - 1 PROVE top_margin(c)' = top_margin(c)
    <3>1. c # j
      BY <1>0, <1>2
    <3> QED BY Zenon, <2>1, <3>1 DEF top_margin
  <2> QED BY Zenon, <1>0, <1>1, <1>3, <1>5, <2>1, <2>2, <2>4, <2>5, <2>6, AdvanceStep DEF size
<1> QED BY Zenon, <1>4, <1>5

(***************************************************************************)
(* Every step of a request keeps the layout as it should be.               *)
(***************************************************************************)
LEMMA LayoutInvStep == LayoutInv /\ OrderInv /\ [Next]_vars => LayoutInv'
<1> SUFFICES ASSUME LayoutInv, OrderInv, [Next]_vars PROVE LayoutInv'
  BY Zenon
<1>1. CASE AlignSurfaces
  BY Zenon, <1>1, LayoutStays DEF AlignSurfaces, layoutVars, LayoutInv
<1>2. CASE ChooseTop
  <2>1. /\ outcome = "waiting" /\ outcome' = "running" /\ alignment = "aligned"
        /\ top' = IF primaryIsTop THEN primary ELSE aligned
        /\ bottom' = IF primaryIsTop THEN aligned ELSE primary
        /\ nsamples' = nsamples /\ ref' = ref /\ inside' = inside /\ outstep' = outstep
        /\ i' = i /\ offsets' = offsets /\ topMargins' = topMargins
    BY Zenon, <1>2 DEF ChooseTop
  <2>2. primary \in [Cells -> Int] /\ aligned \in [Cells -> Int] /\ ref = primary
    BY Zenon, <2>1 DEF OrderInv, AlignmentInv
  <2>3. i = 0 /\ 0 .. i' - 1 = {}
    BY <2>1 DEF LayoutInv
  <2> QED BY Zenon, <2>1, <2>2, <2>3 DEF LayoutInv, Outcomes
<1>3. CASE MakeSubVolume
  <2>1. CASE Skip
    <3>0. PICK j : j = i
      BY Zenon
    <3>1. /\ Running /\ IsSkipped(j) /\ Advance(0)
          /\ UNCHANGED inputs /\ topMargins' = topMargins /\ outcome' = outcome
      BY Zenon, <2>1, <3>0 DEF Skip
    <3>2. HasNoSamples(j)
      BY Zenon, <3>1 DEF IsSkipped, HasNoSamples
    <3>3. DOMAIN topMargins' \subseteq 0 .. i
      BY <3>1 DEF LayoutInv, OrderInv
    <3>4. \A c \in 0 .. i - 1 : top_margin(c)' = top_margin(c)
      BY Zenon, <3>1 DEF top_margin
    <3> QED BY Zenon, <3>0, <3>1, <3>2, <3>3, <3>4, AdvanceStep
  <2>2. CASE Refuse
    <3>1. Throw("out_of_bounds") \/ Throw("not_ordered")
      BY Zenon, <2>2 DEF Refuse
    <3>2. outcome = "running"
      BY Zenon, <2>2 DEF Refuse, Running
    <3> QED BY Zenon, <3>1, <3>2, LayoutStays DEF Throw, Outcomes
  <2>3. CASE MakeSegment
    BY Zenon, <2>3, MakeSegmentStep
  <2>4. CASE Release
    BY Zenon, <2>4, LayoutStays DEF Release, Outcomes
  <2> QED BY Zenon, <1>3, <2>1, <2>2, <2>3, <2>4 DEF MakeSubVolume, Layout
<1>4. CASE WriteFill \/ Reduce \/ UNCHANGED vars
  BY Zenon, <1>4, LayoutStays DEF WriteFill, Reduce, vars, layoutVars, LayoutInv
<1>5. CASE OutsideSpline
  BY Zenon, <1>5, LayoutStays DEF OutsideSpline, Outcomes
<1> QED BY Zenon, <1>1, <1>2, <1>3, <1>4, <1>5 DEF Next

(***************************************************************************)
(* Both invariants hold of every request.                                  *)
(***************************************************************************)
LEMMA LayoutIsInvariant == Spec => [](OrderInv /\ LayoutInv)
<1>1. Init => OrderInv /\ LayoutInv
  BY Zenon, OrderInvInit, LayoutInvInit
<1>2. OrderInv /\ LayoutInv /\ [Next]_vars => (OrderInv /\ LayoutInv)'
  BY Zenon, OrderInvStep, LayoutInvStep
<1> QED BY <1>1, <1>2, PTL DEF Spec

-----------------------------------------------------------------------------
(***************************************************************************)
(* A cell below i is laid out exactly if it has samples, and then its      *)
(* segment is the one that vertical_segment rebuilds: from the window's    *)
(* first sample less the top margin to its last and the bottom margin.     *)
(***************************************************************************)
LEMMA CellsBelow ==
  ASSUME OrderInv, LayoutInv, NEW c \in 0 .. i - 1
  PROVE  /\ c \in Cells /\ outcome \notin {"waiting", "invalid"}
         /\ offsets[c] \in Nat /\ offsets[c + 1] \in Nat
         /\ HasNoSamples(c) => offsets[c + 1] = offsets[c]
         /\ ~ HasNoSamples(c) =>
              /\ HasSamples(c)
              /\ offsets[c + 1] = offsets[c] + Size(c, ChosenTop(c), ChosenBottom(c))
              /\ Size(c, ChosenTop(c), ChosenBottom(c)) \in Nat
              /\ Size(c, ChosenTop(c), ChosenBottom(c)) >= 4
<1>1. i \in 0 .. NCells /\ c \in Cells /\ c \in 0 .. i /\ c + 1 \in 0 .. i
  BY SurfaceAssumption DEF OrderInv, Cells
<1>2. outcome \notin {"waiting", "invalid"}
  BY <1>1 DEF LayoutInv
<1>3. offsets[c] \in Nat /\ offsets[c + 1] \in Nat
  BY Zenon, <1>1 DEF LayoutInv
<1>4. IF HasNoSamples(c) THEN offsets[c + 1] = offsets[c] ELSE HasSamples(c)
  BY Zenon DEF LayoutInv
<1>5. ASSUME HasSamples(c)
      PROVE  /\ Size(c, ChosenTop(c), ChosenBottom(c)) \in Nat
             /\ Size(c, ChosenTop(c), ChosenBottom(c)) >= 4
  <2>1. TopSample(c, 0) \in Int /\ BottomSample(c, 0) \in Int
    BY <1>1, <1>2, <1>5, MarginsOfWindow DEF HasSamples
  <2>2. LET T == TopSample(c, 0)
            B == BottomSample(c, 0)
            x == ChosenTop(c)
            y == ChosenBottom(c)
        IN  /\ x \in Nat /\ y \in Nat
            /\ Size(c, x, y) = (B + y) - (T - x) + 1 /\ Size(c, x, y) >= 4
    BY Zenon, <1>1, <1>2, <1>5, SegmentOfCell DEF HasSamples
  <2> QED BY <2>1, <2>2
<1> QED BY Zenon, <1>1, <1>2, <1>3, <1>4, <1>5 DEF HasSamples

(***************************************************************************)
(* The segment of a cell that is laid out, in samples of the trace.        *)
(***************************************************************************)
LEMMA LaidSegment ==
  ASSUME OrderInv, LayoutInv, NEW c \in Laid
  PROVE  LET T == TopSample(c, 0)
             B == BottomSample(c, 0)
             x == ChosenTop(c)
             y == ChosenBottom(c)
         IN  /\ c \in Cells /\ outcome \notin {"waiting", "invalid"}
             /\ HasSamples(c) /\ x \in Nat /\ y \in Nat
             /\ T \in 0 .. nsamples - 1 /\ B \in 0 .. nsamples - 1
             /\ FirstSample(c) = T - x /\ LastSample(c) = B + y
             /\ offsets[c + 1] - offsets[c] >= 4
             /\ T * Step < top[c] - AxisMin + Step
             /\ bottom[c] - AxisMin < B * Step + Step
             /\ x = 0 => T = 0
             /\ y = 0 => B = nsamples - 1
             /\ nsamples # 3 => 0 <= T - x /\ B + y <= nsamples - 1
<1> DEFINE T == TopSample(c, 0)
           B == BottomSample(c, 0)
           x == ChosenTop(c)
           y == ChosenBottom(c)
           size == Size(c, ChosenTop(c), ChosenBottom(c))
<1>1. c \in 0 .. i - 1 /\ offsets[c] # offsets[c + 1]
  BY Zenon DEF Laid, is_empty
<1>2. /\ c \in Cells /\ outcome \notin {"waiting", "invalid"}
      /\ offsets[c] \in Nat /\ offsets[c + 1] = offsets[c] + size
      /\ size \in Nat /\ size >= 4 /\ HasSamples(c)
  BY Zenon, <1>1, CellsBelow
<1>3. IsOrdered(c) /\ IsInBounds(c) /\ ~ IsTooSmall(c) /\ top_margin(c) = x
  BY Zenon, <1>2 DEF HasSamples
<1>4. /\ T \in 0 .. nsamples - 1 /\ B \in 0 .. nsamples - 1
      /\ \A z \in Int : TopSample(c, z) = T - z /\ BottomSample(c, z) = B + z
      /\ T * Step < top[c] - AxisMin + Step
      /\ bottom[c] - AxisMin < B * Step + Step
  BY Zenon, <1>2, <1>3, MarginsOfWindow
<1>5. /\ x \in Nat /\ y \in Nat
      /\ size = (B + y) - (T - x) + 1
      /\ x = 0 => T = 0
      /\ y = 0 => B = nsamples - 1
      /\ nsamples # 3 => 0 <= T - x /\ B + y <= nsamples - 1
  BY Zenon, <1>2, <1>3, SegmentOfCell
<1>6. FirstSample(c) = T - x
  BY <1>3, <1>4, <1>5 DEF FirstSample
<1>7. LastSample(c) = (T - x) + offsets[c + 1] - offsets[c] - 1
  BY Zenon, <1>6 DEF LastSample
<1> HIDE DEF T, B, x, y, size
<1>8. LastSample(c) = B + y /\ offsets[c + 1] - offsets[c] >= 4
  <2>1. nsamples \in Nat
    BY Zenon DEF LayoutInv
  <2>2. T \in Int /\ B \in Int /\ x \in Int /\ y \in Int
    BY <1>4, <1>5, <2>1
  <2>3. offsets[c + 1] = offsets[c] + ((B + y) - (T - x) + 1)
    BY Zenon, <1>2, <1>5
  <2>4. PICK o \in Nat : o = offsets[c]
    BY Zenon, <1>2
  <2>5. LastSample(c) = (T - x) + (o + ((B + y) - (T - x) + 1)) - o - 1
    BY Zenon, <1>7, <2>3, <2>4
  <2>6. LastSample(c) = B + y
    BY <2>2, <2>4, <2>5
  <2>7. offsets[c + 1] - offsets[c] >= 4
    BY <1>2
  <2> QED BY Zenon, <2>6, <2>7
<1> QED BY Zenon, <1>2, <1>4, <1>5, <1>6, <1>8 DEF T, B, x, y

(***************************************************************************)
(* Types of a request, and the offsets of its cells never decrease.        *)
(***************************************************************************)
THEOREM LayoutIsTyped == Spec => []TypeOK
<1>0. ASSUME OrderInv, LayoutInv, aligned \in [Cells -> Int], cell \in 0 .. NCells PROVE TypeOK
  <2>1. \A c \in 0 .. i - 1 : offsets[c] <= offsets[c + 1]
    BY <1>0, CellsBelow
  <2> QED BY Zenon, <1>0, <2>1 DEF OrderInv, LayoutInv, TypeOK, Outcomes
<1>1. Init => aligned \in [Cells -> Int] /\ cell \in 0 .. NCells
  BY SurfaceAssumption DEF Init, StartAlignment
<1>2. /\ OrderInv /\ LayoutInv /\ [Next]_vars
      /\ aligned \in [Cells -> Int] /\ cell \in 0 .. NCells
      => (aligned \in [Cells -> Int] /\ cell \in 0 .. NCells)'
  <2> SUFFICES ASSUME OrderInv, [Next]_vars,
                      aligned \in [Cells -> Int], cell \in 0 .. NCells
               PROVE  aligned' \in [Cells -> Int] /\ cell' \in 0 .. NCells
    BY Zenon
  <2>1. CASE AlignSurfaces
    <3>1. Align /\ alignment = "running"
      BY Zenon, <2>1 DEF AlignSurfaces, Align, AlignToFill, AlignCell, EndAlignment, Aligning
    <3> QED BY Zenon, <3>1, AlignmentInvStep DEF OrderInv, AlignmentInv
  <2>2. CASE ~ AlignSurfaces
    <3>1. UNCHANGED alignVars
      BY Zenon, <2>2 DEF Next, ChooseTop, MakeSubVolume, WriteFill, Reduce, OutsideSpline, vars
    <3> QED BY Zenon, <3>1 DEF alignVars
  <2> QED BY Zenon, <2>1, <2>2
<1> QED BY <1>0, <1>1, <1>2, LayoutIsInvariant, PTL DEF Spec

(***************************************************************************)
(* The segment offsets of make_subvolume say exactly which cells are       *)
(* skipped, so that calc_attributes writes the fill value where it should. *)
(***************************************************************************)
THEOREM EmptyCellsAreSkipped == Spec => []EmptyExactlyIfSkipped
<1>1. OrderInv /\ LayoutInv => EmptyExactlyIfSkipped
  BY CellsBelow DEF EmptyExactlyIfSkipped, is_empty, HasNoSamples
<1> QED BY <1>1, LayoutIsInvariant, PTL

(***************************************************************************)
(* make_subvolume gives every segment the four samples that makima needs,  *)
(* or refuses the request.                                                 *)
(***************************************************************************)
THEOREM SegmentsSufficeForMakima == Spec => []EnoughForMakima
<1>1. OrderInv /\ LayoutInv => EnoughForMakima
  BY Zenon, LaidSegment DEF EnoughForMakima
<1> QED BY <1>1, LayoutIsInvariant, PTL

(***************************************************************************)
(* vertical_segment, which knows the top margin and the offsets only,      *)
(* rebuilds a segment that holds the whole window.                         *)
(***************************************************************************)
THEOREM SegmentsHoldWindows == Spec => []SegmentHoldsWindow
<1>1. ASSUME OrderInv, LayoutInv, NEW c \in Laid
      PROVE  FirstSample(c) <= TopSample(c, 0) /\ BottomSample(c, 0) <= LastSample(c)
  <2>1. /\ ChosenTop(c) \in Nat /\ ChosenBottom(c) \in Nat
        /\ TopSample(c, 0) \in 0 .. nsamples - 1 /\ BottomSample(c, 0) \in 0 .. nsamples - 1
        /\ FirstSample(c) = TopSample(c, 0) - ChosenTop(c)
        /\ LastSample(c) = BottomSample(c, 0) + ChosenBottom(c)
    BY Zenon, <1>1, LaidSegment
  <2>2. nsamples \in Nat
    BY Zenon, <1>1 DEF LayoutInv
  <2> QED BY <2>1, <2>2
<1>2. OrderInv /\ LayoutInv => SegmentHoldsWindow
  BY Zenon, <1>1 DEF SegmentHoldsWindow
<1> QED BY <1>2, LayoutIsInvariant, PTL

(***************************************************************************)
(* fetch_subvolume asks for samples that the trace has, on traces of all   *)
(* lengths but three: there the extension to four samples leaves the       *)
(* trace, whatever the side.                                               *)
(***************************************************************************)
THEOREM FetchesStayWithinTrace ==
  ASSUME \A l \in Layouts : l.nsamples # 3
  PROVE  Spec => []FetchWithinTrace
<1>1. Init => nsamples # 3
  BY Zenon DEF Init
<1>2. nsamples # 3 /\ [Next]_vars => (nsamples # 3)'
  BY Zenon DEF Next, vars, AlignSurfaces, ChooseTop, MakeSubVolume, Layout, Skip, Refuse, Throw,
         MakeSegment, Release, WriteFill, Reduce, OutsideSpline, inputs
<1>3. OrderInv /\ LayoutInv /\ nsamples # 3 => FetchWithinTrace
  BY Zenon, LaidSegment DEF FetchWithinTrace
<1> QED BY <1>1, <1>2, <1>3, LayoutIsInvariant, PTL DEF Spec

(***************************************************************************)
(* ResampledSegmentBlueprint in terms of the two roundings.                *)
(***************************************************************************)
LEMMA ResampledSegment ==
  ASSUME OrderInv, LayoutInv, NEW c \in Laid
  PROVE  LET A == ceil_with_tolerance(top[c] - ref[c], outstep)
             F == floor_with_tolerance(bottom[c] - ref[c], outstep)
         IN  /\ A \in Int /\ F \in Int /\ A <= 0 /\ 0 <= F
             /\ nsamples_above(c) = - A
             /\ ResampledTop(c) = ref[c] + A * outstep
             /\ ResampledBottom(c) = ref[c] + F * outstep
             /\ ResampledSize(c) = F - A + 1
<1> DEFINE A == ceil_with_tolerance(top[c] - ref[c], outstep)
           F == floor_with_tolerance(bottom[c] - ref[c], outstep)
<1>1. /\ ref[c] \in Int /\ top[c] \in Int /\ bottom[c] \in Int
      /\ outstep \in Nat \ {0} /\ top[c] <= ref[c] /\ ref[c] <= bottom[c]
  BY Zenon, LaidSegment DEF LayoutInv, HasSamples, IsOrdered
<1>2. 0 * outstep = 0 /\ top[c] - ref[c] <= 0 /\ 0 <= bottom[c] - ref[c]
  BY <1>1
<1>3. A \in Int /\ A <= 0
  <2>1. PICK d \in Int : d = top[c] - ref[c] /\ d <= 0 * outstep
    BY <1>1, <1>2
  <2>2. /\ ceil_with_tolerance(d, outstep) \in Int
        /\ d <= 0 * outstep => ceil_with_tolerance(d, outstep) <= 0
    BY <1>1, CeilWithTolerance
  <2> QED BY Zenon, <2>1, <2>2
<1>4. F \in Int /\ 0 <= F
  <2>1. PICK e \in Int : e = bottom[c] - ref[c] /\ 0 * outstep <= e
    BY <1>1, <1>2
  <2>2. /\ floor_with_tolerance(e, outstep) \in Int
        /\ 0 * outstep <= e => 0 <= floor_with_tolerance(e, outstep)
    BY <1>1, FloorWithTolerance
  <2> QED BY Zenon, <2>1, <2>2
<1>5. nsamples_above(c) = - A
  BY Zenon DEF nsamples_above
<1> HIDE DEF A
<1>6. ResampledTop(c) = ref[c] + A * outstep
  <2>1. (- A) * outstep = - (A * outstep)
    BY <1>1, <1>3
  <2> QED BY <1>1, <1>3, <1>5, <2>1 DEF ResampledTop
<1>7. ResampledBottom(c) = ref[c] + F * outstep
  BY Zenon DEF ResampledBottom
<1> HIDE DEF F
<1>8. ResampledSize(c) = F - A + 1
  <2>1. PICK k \in Int : k = F - A
    BY <1>3, <1>4
  <2>2. F * outstep - A * outstep = k * outstep
    BY <1>1, <1>3, <1>4, <2>1
  <2>3. ResampledBottom(c) - ResampledTop(c) = k * outstep
    BY <1>1, <1>3, <1>4, <1>6, <1>7, <2>2
  <2>4. (k * outstep) \div outstep = k
    BY <1>1
  <2> QED BY Zenon, <2>1, <2>3, <2>4 DEF ResampledSize
<1> QED BY Zenon, <1>3, <1>4, <1>5, <1>6, <1>7, <1>8 DEF A, F

(***************************************************************************)
(* The resampled segment fills the window, up to the tolerance, and its    *)
(* two halves meet at the reference.                                       *)
(***************************************************************************)
THEOREM ResampledSegmentsFillWindows == Spec => []ResampledFillsWindow
<1>1. ASSUME OrderInv, LayoutInv, NEW c \in Laid
      PROVE  /\ nsamples_above(c) \in 0 .. ResampledSize(c) - 1
             /\ (top[c] - ResampledTop(c)) * TolDen < outstep
             /\ (ResampledBottom(c) - bottom[c]) * TolDen < outstep
             /\ ResampledTop(c) - outstep < top[c]
             /\ ResampledBottom(c) + outstep > bottom[c]
  <2>1. PICK A \in Int : A = ceil_with_tolerance(top[c] - ref[c], outstep)
    BY Zenon, <1>1, ResampledSegment
  <2>2. PICK F \in Int : F = floor_with_tolerance(bottom[c] - ref[c], outstep)
    BY Zenon, <1>1, ResampledSegment
  <2>3. /\ A <= 0 /\ 0 <= F /\ nsamples_above(c) = - A /\ ResampledSize(c) = F - A + 1
        /\ ResampledTop(c) = ref[c] + A * outstep
        /\ ResampledBottom(c) = ref[c] + F * outstep
    BY Zenon, <1>1, <2>1, <2>2, ResampledSegment
  <2>4. /\ ref[c] \in Int /\ top[c] \in Int /\ bottom[c] \in Int
        /\ outstep \in Nat \ {0} /\ TolDen \in Nat
    BY Zenon, <1>1, LaidSegment, StepAssumption DEF LayoutInv
  <2>5. PICK p \in Int : p = A * outstep
    BY <2>4
  <2>6. PICK q \in Int : q = F * outstep
    BY <2>4
  <2>7. PICK d \in Int : d = top[c] - ref[c]
    BY <2>4
  <2>8. PICK e \in Int : e = bottom[c] - ref[c]
    BY <2>4
  <2>9. p < d + outstep /\ (d - p) * TolDen < outstep
    BY Zenon, <2>1, <2>4, <2>5, <2>7, CeilWithTolerance
  <2>10. e < q + outstep /\ (q - e) * TolDen < outstep
    BY Zenon, <2>2, <2>4, <2>6, <2>8, FloorWithTolerance
  <2>11. /\ top[c] - ResampledTop(c) = d - p
         /\ ResampledBottom(c) - bottom[c] = q - e
    BY <2>3, <2>4, <2>5, <2>6, <2>7, <2>8
  <2>12. /\ ResampledTop(c) - outstep < top[c]
         /\ ResampledBottom(c) + outstep > bottom[c]
    BY <2>3, <2>4, <2>5, <2>6, <2>7, <2>8, <2>9, <2>10
  <2> QED BY <2>3, <2>9, <2>10, <2>11, <2>12
<1>2. OrderInv /\ LayoutInv => ResampledFillsWindow
  BY Zenon, <1>1 DEF ResampledFillsWindow
<1> QED BY <1>2, LayoutIsInvariant, PTL

(***************************************************************************)
(* The margin does what it is there for: every point of the resampled      *)
(* segment lies within the samples that are fetched, unless the tolerance  *)
(* has moved an end of it.                                                 *)
(***************************************************************************)
THEOREM RawSegmentsCoverResampled == Spec => []RawCoversResampled
<1>1. ASSUME OrderInv, LayoutInv, NEW c \in Laid, IsExact(c)
      PROVE  IsCovered(c)
  <2>1. /\ ref[c] \in Int /\ top[c] \in Int /\ bottom[c] \in Int
        /\ AxisMin \in Int /\ Step \in Nat \ {0} /\ nsamples \in Nat
        /\ outstep \in Nat \ {0}
        /\ inrange(top[c]) /\ inrange(bottom[c])
    BY Zenon, <1>1, LaidSegment, StepAssumption DEF LayoutInv, HasSamples, IsInBounds
  <2>2. top[c] <= ResampledTop(c) /\ ResampledTop(c) \in Int
    <3>1. PICK d \in Int : d = top[c] - ref[c]
      BY <2>1
    <3>2. PICK A \in Int : A = ceil_with_tolerance(d, outstep)
      BY Zenon, <2>1, CeilWithTolerance
    <3>3. d <= A * outstep
      BY Zenon, <1>1, <2>1, <3>1, <3>2, CeilWithTolerance DEF IsExact
    <3>4. ResampledTop(c) = ref[c] + A * outstep
      BY Zenon, <1>1, <3>1, <3>2, ResampledSegment
    <3>5. PICK p \in Int : p = A * outstep
      BY <2>1
    <3>6. ResampledTop(c) = ref[c] + p /\ top[c] - ref[c] <= p
      BY Zenon, <3>1, <3>3, <3>4, <3>5
    <3> QED BY <2>1, <3>6
  <2>3. ResampledBottom(c) <= bottom[c] /\ ResampledBottom(c) \in Int
    <3>1. PICK e \in Int : e = bottom[c] - ref[c]
      BY <2>1
    <3>2. PICK F \in Int : F = floor_with_tolerance(e, outstep)
      BY Zenon, <2>1, FloorWithTolerance
    <3>3. F * outstep <= e
      BY Zenon, <1>1, <2>1, <3>1, <3>2, FloorWithTolerance DEF IsExact
    <3>4. ResampledBottom(c) = ref[c] + F * outstep
      BY Zenon, <1>1, <3>1, <3>2, ResampledSegment
    <3>5. PICK q \in Int : q = F * outstep
      BY <2>1
    <3>6. ResampledBottom(c) = ref[c] + q /\ q <= bottom[c] - ref[c]
      BY Zenon, <3>1, <3>3, <3>4, <3>5
    <3> QED BY <2>1, <3>6
  <2>4. PICK T \in Int : T = TopSample(c, 0) /\ T * Step < top[c] - AxisMin + Step
    BY <1>1, <2>1, LaidSegment
  <2>5. PICK B \in Int : B = BottomSample(c, 0) /\ bottom[c] - AxisMin < B * Step + Step
    BY <1>1, <2>1, LaidSegment
  <2>6. PICK x \in Nat : x = ChosenTop(c) /\ FirstSample(c) = T - x /\ (x = 0 => T = 0)
    BY Zenon, <1>1, <2>4, LaidSegment
  <2>7. PICK y \in Nat :
            y = ChosenBottom(c) /\ LastSample(c) = B + y /\ (y = 0 => B = nsamples - 1)
    BY Zenon, <1>1, <2>5, LaidSegment
  <2>8. AxisMin + FirstSample(c) * Step <= top[c]
    <3>1. CASE x = 0
      <4>1. FirstSample(c) * Step = 0
        BY <2>1, <2>6, <3>1
      <4> QED BY <2>1, <4>1 DEF inrange
    <3>2. CASE x # 0
      <4>1. (T - x) * Step <= (T - 1) * Step /\ (T - x) * Step \in Int
        BY <2>1, <3>2, MultiplesAreOrdered
      <4>2. (T - 1) * Step = T * Step - Step /\ T * Step \in Int
        BY <2>1
      <4> QED BY <2>1, <2>4, <2>6, <4>1, <4>2
    <3> QED BY Zenon, <3>1, <3>2
  <2>9. bottom[c] <= AxisMin + LastSample(c) * Step
    <3>1. CASE y = 0
      <4>1. LastSample(c) = nsamples - 1
        BY <2>1, <2>7, <3>1
      <4> QED BY Zenon, <2>1, <4>1 DEF inrange, AxisMax
    <3>2. CASE y # 0
      <4>1. (B + 1) * Step <= (B + y) * Step /\ (B + y) * Step \in Int
        BY <2>1, <3>2, MultiplesAreOrdered
      <4>2. (B + 1) * Step = B * Step + Step /\ B * Step \in Int
        BY <2>1
      <4> QED BY <2>1, <2>5, <2>7, <4>1, <4>2
    <3> QED BY Zenon, <3>1, <3>2
  <2>10. FirstSample(c) * Step \in Int /\ LastSample(c) * Step \in Int
    BY <2>1, <2>6, <2>7
  <2> QED BY <2>1, <2>2, <2>3, <2>8, <2>9, <2>10 DEF IsCovered
<1>2. OrderInv /\ LayoutInv => RawCoversResampled
  BY Zenon, <1>1 DEF RawCoversResampled
<1> QED BY <1>2, LayoutIsInvariant, PTL

-----------------------------------------------------------------------------
(***************************************************************************)
(* The points that align_surfaces chooses, for grids of every position,    *)
(* increment and rotation: on the grid of the secondary surface, distances *)
(* are sums of the squares of two roundings.                               *)
(***************************************************************************)

\* The squares of numbers are ordered as their sizes are.
LEMMA SquaresAreOrdered ==
  ASSUME NEW u \in Int, NEW v \in Int, - v <= u, u <= v
  PROVE  u * u <= v * v
<1>1. 0 <= (v - u) * (v + u)
  OBVIOUS
<1> QED BY <1>1

\* A rounded quotient is at most half of the denominator away.
LEMMA RoundedQuotient ==
  ASSUME NEW p \in Int, NEW a \in Int \ {0}
  PROVE  \E r \in Int, b \in Nat \ {0} :
            /\ lround(p, a) = r /\ b = IF a < 0 THEN - a ELSE a
            /\ - b <= 2 * (p - a * r) /\ 2 * (p - a * r) <= b
<1>1. PICK n \in Nat, b \in Nat \ {0} : n = (IF p < 0 THEN - p ELSE p) /\ b = (IF a < 0 THEN - a ELSE a)
  OBVIOUS
<1>2. PICK q \in Int : q = (2 * n + b) \div (2 * b)
  OBVIOUS
<1>3. - b <= 2 * (n - b * q) /\ 2 * (n - b * q) <= b
  <2>1. PICK m \in Nat, d \in Nat \ {0} : m = 2 * n + b /\ d = 2 * b
    OBVIOUS
  <2>2. m = d * (m \div d) + (m % d) /\ 0 <= m % d /\ m % d < d
    OBVIOUS
  <2>3. PICK e \in Int : e = b * q
    OBVIOUS
  <2>4. d * (m \div d) = 2 * e
    BY <1>2, <2>1, <2>3
  <2> QED BY <2>1, <2>2, <2>3, <2>4
<1>4. PICK r \in Int : r = IF (p < 0) = (a < 0) THEN q ELSE - q
  OBVIOUS
<1>5. lround(p, a) = r
  BY Zenon, <1>1, <1>2, <1>4 DEF lround
<1>6. a * r = IF p < 0 THEN - (b * q) ELSE b * q
  BY <1>1, <1>4
<1>7. PICK e \in Int : e = b * q
  OBVIOUS
<1>8. - b <= 2 * (p - a * r) /\ 2 * (p - a * r) <= b
  BY <1>1, <1>3, <1>6, <1>7
<1> QED BY Zenon, <1>1, <1>5, <1>8

\* No other number is closer, and no other is closer than half.
LEMMA RoundedIsNearest ==
  ASSUME NEW p \in Int, NEW a \in Int \ {0}, NEW k \in Int
  PROVE  /\ lround(p, a) \in Int
         /\ Square(p - a * lround(p, a)) <= Square(p - a * k)
         /\ 4 * Square(p - a * lround(p, a)) <= Square(a)
         /\ 4 * Square(p - a * k) < Square(a) => k = lround(p, a)
<1>1. PICK r \in Int, b \in Nat \ {0} :
            /\ lround(p, a) = r /\ b = IF a < 0 THEN - a ELSE a
            /\ - b <= 2 * (p - a * r) /\ 2 * (p - a * r) <= b
  BY RoundedQuotient
<1>2. PICK u \in Int, v \in Int, j \in Int : u = p - a * r /\ v = p - a * k /\ j = r - k
  OBVIOUS
<1>3. v = u + a * j
  BY <1>2
<1>4. b * b = a * a
  BY <1>1
<1>5. 4 * (u * u) <= a * a
  <2>1. (2 * u) * (2 * u) <= b * b
    BY <1>1, <1>2, SquaresAreOrdered
  <2> QED BY <1>4, <2>1
<1>6. CASE j = 0
  <2>1. v = u /\ k = r
    BY <1>2, <1>3, <1>6
  <2>2. u * u <= v * v
    BY <2>1
  <2> QED BY Zenon, <1>1, <1>2, <1>5, <2>1, <2>2 DEF Square
<1>7. CASE j # 0
  <2>1. PICK w \in Int : w = a * j /\ (b <= w \/ w <= - b)
    <3>1. PICK m \in Int : m = (IF a < 0 THEN - j ELSE j) /\ (1 <= m \/ m <= - 1)
      BY <1>7
    <3>2. a * j = b * m
      BY <1>1, <3>1
    <3>3. 1 <= m => b <= b * m
      OBVIOUS
    <3>4. m <= - 1 => b * m <= - b
      <4>1. m <= - 1 => b * m <= b * (- 1)
        OBVIOUS
      <4> QED BY <4>1
    <3> QED BY <3>1, <3>2, <3>3, <3>4
  <2>2. 2 * v >= b \/ 2 * v <= - b
    BY <1>1, <1>2, <1>3, <2>1
  <2>3. b * b <= (2 * v) * (2 * v)
    <3>1. CASE 2 * v >= b
      BY <3>1, SquaresAreOrdered
    <3>2. CASE 2 * v <= - b
      <4>1. b * b <= (- (2 * v)) * (- (2 * v))
        BY <3>2, SquaresAreOrdered
      <4> QED BY <4>1
    <3> QED BY <2>2, <3>1, <3>2
  <2>4. a * a <= 4 * (v * v)
    BY <1>4, <2>3
  <2>5. u * u <= v * v /\ ~ (4 * (v * v) < a * a)
    BY <1>5, <2>4
  <2> QED BY Zenon, <1>1, <1>2, <1>5, <2>5 DEF Square
<1> QED BY Zenon, <1>6, <1>7

-----------------------------------------------------------------------------
AreGrids == IsGrid(grids.primary) /\ IsGrid(grids.secondary) /\ grids.primary.ncols # 0

\* Where a cell of the primary surface is on the grid of the secondary one.
PositionOf(c) == from_cdp(grids.secondary, to_cdp(grids.primary, c), grids.primary.hyp)
RowWidth == RowDen(grids.secondary, grids.primary.hyp)
ColWidth == ColDen(grids.secondary, grids.primary.hyp)

\* Cells of the secondary surface have a row and a column, and are where these say.
LEMMA CellsOfGrid ==
  ASSUME AreGrids
  PROVE  /\ \A s \in SecondaryCells :
              /\ row(grids.secondary, s) \in 0 .. grids.secondary.nrows - 1
              /\ col(grids.secondary, s) \in 0 .. grids.secondary.ncols - 1
              /\ s = row(grids.secondary, s) * grids.secondary.ncols + col(grids.secondary, s)
         /\ \A r \in 0 .. grids.secondary.nrows - 1, k \in 0 .. grids.secondary.ncols - 1 :
              LET s == r * grids.secondary.ncols + k
              IN  s \in SecondaryCells /\ row(grids.secondary, s) = r /\ col(grids.secondary, s) = k
<1>1. PICK m \in Nat, n \in Nat : m = grids.secondary.nrows /\ n = grids.secondary.ncols
  BY Zenon DEF AreGrids, IsGrid
<1>2. ASSUME NEW s \in 0 .. m * n - 1
      PROVE  /\ s \div n \in 0 .. m - 1 /\ s % n \in 0 .. n - 1 /\ s = (s \div n) * n + (s % n)
  <2>1. n # 0 /\ m # 0
    BY <1>2
  <2>2. s = n * (s \div n) + (s % n) /\ 0 <= s % n /\ s % n < n /\ s \div n \in Int /\ s % n \in Int
    BY <2>1
  <2>3. PICK q \in Int, e \in Int : q = s \div n /\ e = s % n
    BY <2>2
  <2>4. s = q * n + e /\ 0 <= e /\ e < n
    BY <2>2, <2>3
  <2>5. q >= 0
    <3>1. ASSUME q <= - 1 PROVE FALSE
      <4>1. q * n <= (- 1) * n
        BY <3>1
      <4> QED BY <2>4, <4>1
    <3> QED BY <3>1
  <2>6. q < m
    <3>1. ASSUME m <= q PROVE FALSE
      <4>1. m * n <= q * n
        BY <3>1
      <4> QED BY <2>4, <4>1
    <3> QED BY <3>1
  <2> QED BY <2>3, <2>4, <2>5, <2>6
<1>3. ASSUME NEW r \in 0 .. m - 1, NEW k \in 0 .. n - 1
      PROVE  r * n + k \in 0 .. m * n - 1 /\ (r * n + k) \div n = r /\ (r * n + k) % n = k
  <2>1. PICK s \in Int : s = r * n + k
    OBVIOUS
  <2>2. s \in 0 .. m * n - 1
    <3>1. r * n <= (m - 1) * n /\ (m - 1) * n = m * n - n /\ 0 <= r * n
      OBVIOUS
    <3> QED BY <2>1, <3>1
  <2>3. PICK q \in Int, e \in Int : /\ q = s \div n /\ e = s % n
                                    /\ e \in 0 .. n - 1 /\ s = q * n + e
    BY <1>2, <2>2
  <2>4. q * n + e = r * n + k
    BY <2>1, <2>3
  <2>5. q = r
    <3>1. ASSUME q < r PROVE FALSE
      <4>1. (q + 1) * n <= r * n /\ (q + 1) * n = q * n + n
        BY <3>1
      <4> QED BY <2>3, <2>4, <4>1
    <3>2. ASSUME r < q PROVE FALSE
      <4>1. (r + 1) * n <= q * n /\ (r + 1) * n = r * n + n
        BY <3>2
      <4> QED BY <2>3, <2>4, <4>1
    <3> QED BY <3>1, <3>2
  <2> QED BY <2>1, <2>2, <2>3, <2>4, <2>5
<1> QED BY Zenon, <1>1, <1>2, <1>3 DEF SecondaryCells, row, col

\* A position on the grid is a pair of numerators, the denominators are not 0.
LEMMA PositionType ==
  ASSUME AreGrids, NEW c \in Cells
  PROVE  /\ to_cdp(grids.primary, c)[1] \in Int /\ to_cdp(grids.primary, c)[2] \in Int
         /\ PositionOf(c)[1] \in Int /\ PositionOf(c)[2] \in Int
         /\ RowWidth \in Int \ {0} /\ ColWidth \in Int \ {0}
         /\ RowWidth = Increment(grids.secondary.xinc)
         /\ ColWidth = Increment(grids.secondary.yinc)
<1>1. PICK a \in Int, b \in Int : a = row(grids.primary, c) /\ b = col(grids.primary, c)
  <2>1. PICK n \in Nat \ {0} : n = grids.primary.ncols
    BY DEF AreGrids, IsGrid
  <2>2. c \in Int
    BY SurfaceAssumption DEF Cells
  <2>3. c \div n \in Int /\ c % n \in Int
    BY <2>2
  <2> QED BY Zenon, <2>1, <2>3 DEF row, col
<1>2. PICK p \in Int, q \in Int : to_cdp(grids.primary, c) = <<p, q>>
  <2>1. PICK co \in Int, si \in Int, g \in Nat \ {0}, xi \in Int, yi \in Int, xo \in Int, yo \in Int :
          /\ co = grids.primary.cos /\ si = grids.primary.sin /\ g = grids.primary.hyp
          /\ xi = grids.primary.xinc /\ yi = grids.primary.yinc
          /\ xo = grids.primary.xori /\ yo = grids.primary.yori
    BY Zenon DEF AreGrids, IsGrid
  <2>2. /\ co * (xi * a) - si * (yi * b) + g * xo \in Int
        /\ si * (xi * a) + co * (yi * b) + g * yo \in Int
    OBVIOUS
  <2> QED BY Zenon, <1>1, <2>1, <2>2 DEF to_cdp
<1>3. to_cdp(grids.primary, c)[1] = p /\ to_cdp(grids.primary, c)[2] = q
  BY <1>2
<1>4. PositionOf(c)[1] \in Int /\ PositionOf(c)[2] \in Int
  <2>1. PICK co \in Int, si \in Int, h \in Nat \ {0}, xo \in Int, yo \in Int :
          /\ co = grids.secondary.cos /\ si = grids.secondary.sin /\ h = grids.primary.hyp
          /\ xo = grids.secondary.xori /\ yo = grids.secondary.yori
    BY Zenon DEF AreGrids, IsGrid
  <2>2. PICK m \in Int, n \in Int : /\ m = co * p + si * q - h * (si * yo + co * xo)
                                    /\ n = co * q - si * p + h * (si * xo - co * yo)
    OBVIOUS
  <2>3. PositionOf(c) = <<m, n>>
    BY Zenon, <1>3, <2>1, <2>2 DEF PositionOf, from_cdp
  <2> QED BY <2>3
<1>5. PICK h \in Nat \ {0}, g \in Nat \ {0}, x \in Int \ {0}, y \in Int \ {0} :
        /\ h = grids.primary.hyp /\ g = grids.secondary.hyp
        /\ x = grids.secondary.xinc /\ y = grids.secondary.yinc
  BY Zenon DEF AreGrids, IsGrid
<1>6. h * g * x \in Int \ {0} /\ h * g * y \in Int \ {0}
  <2>1. PICK e \in Nat \ {0} : e = h * g
    OBVIOUS
  <2>2. e * x \in Int \ {0} /\ e * y \in Int \ {0}
    OBVIOUS
  <2> QED BY <2>1, <2>2
<1>7. RowWidth = h * g * x /\ ColWidth = h * g * y
  BY Zenon, <1>5 DEF RowWidth, ColWidth, RowDen, ColDen
<1>8. Increment(grids.secondary.xinc) = h * g * x /\ Increment(grids.secondary.yinc) = h * g * y
  BY Zenon, <1>5 DEF Increment
<1> QED BY Zenon, <1>3, <1>4, <1>6, <1>7, <1>8

(***************************************************************************)
(* from_cdp keeps distances: on the grid of the secondary surface they are *)
(* those of rows and columns.                                              *)
(***************************************************************************)
LEMMA DistanceOnGrid ==
  ASSUME AreGrids, NEW c \in Cells, NEW s \in SecondaryCells
  PROVE  Distance(c, s) = Square(PositionOf(c)[1] - RowWidth * row(grids.secondary, s))
                          + Square(PositionOf(c)[2] - ColWidth * col(grids.secondary, s))
<1>1. PICK p1 \in Int, p2 \in Int : p1 = to_cdp(grids.primary, c)[1] /\ p2 = to_cdp(grids.primary, c)[2]
  BY Zenon, PositionType
<1>2. PICK a \in Int, b \in Int : a = row(grids.secondary, s) /\ b = col(grids.secondary, s)
  BY CellsOfGrid
<1>3. PICK co \in Int, si \in Int, g \in Nat \ {0}, h \in Nat \ {0},
           xi \in Int, yi \in Int, xo \in Int, yo \in Int :
        /\ co = grids.secondary.cos /\ si = grids.secondary.sin /\ g = grids.secondary.hyp
        /\ h = grids.primary.hyp /\ co * co + si * si = g * g
        /\ xi = grids.secondary.xinc /\ yi = grids.secondary.yinc
        /\ xo = grids.secondary.xori /\ yo = grids.secondary.yori
  BY Zenon DEF AreGrids, IsGrid
<1>4. PICK x \in Int, y \in Int : x = xi * a /\ y = yi * b
  OBVIOUS
<1>5. PICK q1 \in Int, q2 \in Int : q1 = co * x - si * y + g * xo /\ q2 = si * x + co * y + g * yo
  OBVIOUS
<1>6. to_cdp(grids.secondary, s) = <<q1, q2>>
  BY Zenon, <1>2, <1>3, <1>4, <1>5 DEF to_cdp
<1>7. Distance(c, s) = Square(p1 * g - q1 * h) + Square(p2 * g - q2 * h)
  <2>1. <<q1, q2>>[1] = q1 /\ <<q1, q2>>[2] = q2
    BY Zenon
  <2> QED BY Zenon, <1>1, <1>3, <1>6, <2>1 DEF Distance
<1>8. PICK n1 \in Int, n2 \in Int : /\ n1 = co * p1 + si * p2 - h * (si * yo + co * xo)
                                    /\ n2 = co * p2 - si * p1 + h * (si * xo - co * yo)
  OBVIOUS
<1>9. PositionOf(c)[1] = n1 /\ PositionOf(c)[2] = n2
  <2>1. <<n1, n2>>[1] = n1 /\ <<n1, n2>>[2] = n2
    BY Zenon
  <2> QED BY Zenon, <1>1, <1>3, <1>8, <2>1 DEF PositionOf, from_cdp
<1>10. RowWidth * a = h * (g * x) /\ ColWidth * b = h * (g * y)
  <2>1. (h * g * xi) * a = h * (g * x) /\ (h * g * yi) * b = h * (g * y)
    BY <1>4
  <2> QED BY Zenon, <1>3, <2>1 DEF RowWidth, ColWidth, RowDen, ColDen
<1>11. Square(p1 * g - q1 * h) + Square(p2 * g - q2 * h) = Square(n1 - h * (g * x)) + Square(n2 - h * (g * y))
  <2>1. PICK dx \in Int, dy \in Int : dx = p1 * g - q1 * h /\ dy = p2 * g - q2 * h
    OBVIOUS
  <2>2. PICK u \in Int, v \in Int : u = n1 - h * (g * x) /\ v = n2 - h * (g * y)
    OBVIOUS
  <2>3. /\ co * q1 + si * q2 = g * (g * x + (si * yo + co * xo))
        /\ co * q2 - si * q1 = g * (g * y - (si * xo - co * yo))
    <3>1. (co * co + si * si) * x = (g * g) * x /\ (co * co + si * si) * y = (g * g) * y
      BY Zenon, <1>3
    <3>2. co * q1 + si * q2 = (co * co + si * si) * x + g * (si * yo + co * xo)
      BY <1>5
    <3>3. co * q2 - si * q1 = (co * co + si * si) * y - g * (si * xo - co * yo)
      BY <1>5
    <3> QED BY <3>1, <3>2, <3>3
  <2>4. co * dx + si * dy = g * u /\ co * dy - si * dx = g * v
    <3>1. /\ co * dx + si * dy = g * (co * p1 + si * p2) - h * (co * q1 + si * q2)
          /\ co * dy - si * dx = g * (co * p2 - si * p1) - h * (co * q2 - si * q1)
      BY <2>1
    <3>2. /\ h * (g * (g * x + (si * yo + co * xo))) = g * (h * (g * x) + h * (si * yo + co * xo))
          /\ h * (g * (g * y - (si * xo - co * yo))) = g * (h * (g * y) - h * (si * xo - co * yo))
      OBVIOUS
    <3>3. co * dx + si * dy = g * (co * p1 + si * p2) - g * (h * (g * x) + h * (si * yo + co * xo))
      BY Zenon, <2>3, <3>1, <3>2
    <3>4. co * dy - si * dx = g * (co * p2 - si * p1) - g * (h * (g * y) - h * (si * xo - co * yo))
      BY Zenon, <2>3, <3>1, <3>2
    <3> QED BY <1>8, <2>2, <3>3, <3>4
  <2>5. dx * dx + dy * dy = u * u + v * v
    <3>1. (co * dx + si * dy) * (co * dx + si * dy) + (co * dy - si * dx) * (co * dy - si * dx)
            = (co * co + si * si) * (dx * dx + dy * dy)
      OBVIOUS
    <3>2. (co * dx + si * dy) * (co * dx + si * dy) = (g * u) * (g * u)
      BY Zenon, <2>4
    <3>3. (co * dy - si * dx) * (co * dy - si * dx) = (g * v) * (g * v)
      BY Zenon, <2>4
    <3>4. (co * co + si * si) * (dx * dx + dy * dy) = (g * g) * (dx * dx + dy * dy)
      BY Zenon, <1>3
    <3>5. (g * u) * (g * u) + (g * v) * (g * v) = (g * g) * (u * u + v * v)
      OBVIOUS
    <3>6. PICK n \in Nat \ {0}, d \in Int, e \in Int :
            n = g * g /\ d = dx * dx + dy * dy /\ e = u * u + v * v
      OBVIOUS
    <3>7. n * d = n * e
      BY Zenon, <3>1, <3>2, <3>3, <3>4, <3>5, <3>6
    <3>8. d = e
      BY <3>7
    <3> QED BY Zenon, <3>6, <3>8
  <2> QED BY Zenon, <2>1, <2>2, <2>5 DEF Square
<1> QED BY Zenon, <1>2, <1>7, <1>9, <1>10, <1>11

(***************************************************************************)
(* lround of both coordinates: the point there, if there is one, is a      *)
(* closest one, and it is at most half a diagonal away.  A point closer    *)
(* than half of both increments is the one there.                          *)
(***************************************************************************)
LEMMA ClosestCell ==
  ASSUME AreGrids, NEW c \in Cells
  PROVE  /\ IsInSecondary(c) =>
              /\ SecondaryPosition(c)[1] * grids.secondary.ncols + SecondaryPosition(c)[2] \in Closest(c)
              /\ ~ IsFarAway(c)
         /\ IsNear(c) => IsInSecondary(c)
<1>1. PICK p \in Int, q \in Int, A \in Int \ {0}, B \in Int \ {0} :
        /\ p = PositionOf(c)[1] /\ q = PositionOf(c)[2] /\ A = RowWidth /\ B = ColWidth
  BY Zenon, PositionType
<1>2. PICK r, k : r = lround(p, A) /\ k = lround(q, B)
  BY Zenon
<1>3. SecondaryPosition(c)[1] = r /\ SecondaryPosition(c)[2] = k
  <2>1. <<r, k>>[1] = r /\ <<r, k>>[2] = k
    BY Zenon
  <2> QED BY Zenon, <1>1, <1>2, <2>1 DEF SecondaryPosition, PositionOf, RowWidth, ColWidth
<1>4. /\ r \in Int /\ k \in Int
      /\ 4 * Square(p - A * r) <= Square(A) /\ 4 * Square(q - B * k) <= Square(B)
      /\ \A j \in Int : /\ Square(p - A * r) <= Square(p - A * j)
                        /\ 4 * Square(p - A * j) < Square(A) => j = r
      /\ \A j \in Int : /\ Square(q - B * k) <= Square(q - B * j)
                        /\ 4 * Square(q - B * j) < Square(B) => j = k
  <2>1. 0 \in Int
    OBVIOUS
  <2> QED BY Zenon, <1>2, <2>1, RoundedIsNearest
<1>5. \A x \in Int : Square(x) \in Nat
  BY DEF Square
<1>6. ASSUME NEW s \in SecondaryCells
      PROVE  \E a \in Int, b \in Int :
               /\ a = row(grids.secondary, s) /\ b = col(grids.secondary, s)
               /\ p - A * a \in Int /\ q - B * b \in Int
               /\ Distance(c, s) = Square(p - A * a) + Square(q - B * b)
  <2>1. PICK a \in Int, b \in Int : a = row(grids.secondary, s) /\ b = col(grids.secondary, s)
    BY <1>6, CellsOfGrid
  <2>2. p - A * a \in Int /\ q - B * b \in Int
    OBVIOUS
  <2> QED BY Zenon, <1>1, <2>1, <2>2, DistanceOnGrid
<1>7. ASSUME IsInSecondary(c)
      PROVE  r * grids.secondary.ncols + k \in Closest(c) /\ ~ IsFarAway(c)
  <2>1. PICK s \in SecondaryCells : /\ s = r * grids.secondary.ncols + k
                                    /\ row(grids.secondary, s) = r /\ col(grids.secondary, s) = k
    BY Zenon, <1>3, <1>7, CellsOfGrid DEF IsInSecondary
  <2>2. PICK d \in Nat, e \in Nat : d = Square(p - A * r) /\ e = Square(q - B * k) /\ Distance(c, s) = d + e
    BY Zenon, <1>5, <1>6, <2>1
  <2>3. ASSUME NEW t \in SecondaryCells PROVE Distance(c, s) <= Distance(c, t)
    <3>1. PICK a \in Int, b \in Int : /\ p - A * a \in Int /\ q - B * b \in Int
                                      /\ Distance(c, t) = Square(p - A * a) + Square(q - B * b)
      BY Zenon, <1>6
    <3>2. PICK f \in Nat, g \in Nat : f = Square(p - A * a) /\ g = Square(q - B * b)
      BY Zenon, <1>5, <3>1
    <3>3. d <= f /\ e <= g
      BY Zenon, <1>4, <2>2, <3>2
    <3>4. d + e <= f + g
      BY <3>3
    <3> QED BY Zenon, <2>2, <3>1, <3>2, <3>4
  <2>4. ~ IsFarAway(c)
    <3>1. PICK f \in Nat, g \in Nat : f = Square(A) /\ g = Square(B)
      BY Zenon, <1>5
    <3>2. 4 * d <= f /\ 4 * e <= g
      BY Zenon, <1>4, <2>2, <3>1
    <3>3. ~ (4 * (d + e) > f + g)
      BY <3>2
    <3>4. Square(Increment(grids.secondary.xinc)) = f /\ Square(Increment(grids.secondary.yinc)) = g
      BY Zenon, <1>1, <3>1, PositionType
    <3> QED BY Zenon, <2>1, <2>2, <3>3, <3>4 DEF IsFarAway
  <2> QED BY Zenon, <2>1, <2>3, <2>4 DEF Closest
<1>8. ASSUME IsNear(c) PROVE IsInSecondary(c)
  <2>1. PICK s \in SecondaryCells : /\ 4 * Distance(c, s) < Square(Increment(grids.secondary.xinc))
                                    /\ 4 * Distance(c, s) < Square(Increment(grids.secondary.yinc))
    BY Zenon, <1>8 DEF IsNear
  <2>2. PICK a \in Int, b \in Int :
               /\ a = row(grids.secondary, s) /\ b = col(grids.secondary, s)
               /\ p - A * a \in Int /\ q - B * b \in Int
               /\ Distance(c, s) = Square(p - A * a) + Square(q - B * b)
    BY Zenon, <1>6
  <2>3. PICK d \in Nat, e \in Nat, f \in Nat, g \in Nat :
             /\ d = Square(p - A * a) /\ e = Square(q - B * b) /\ f = Square(A) /\ g = Square(B)
    BY Zenon, <1>5, <2>2
  <2>4. 4 * (d + e) < f /\ 4 * (d + e) < g
    BY Zenon, <1>1, <2>1, <2>2, <2>3, PositionType
  <2>5. 4 * d < f /\ 4 * e < g
    BY <2>4
  <2>6. a = r /\ b = k
    BY Zenon, <1>4, <2>3, <2>5
  <2> QED BY Zenon, <1>3, <2>2, <2>6, CellsOfGrid DEF IsInSecondary
<1> QED BY Zenon, <1>3, <1>7, <1>8

-----------------------------------------------------------------------------
\* An alignment is of two grids, and without one the loop does not run.
GridInv ==
    /\ alignment = "none" => cell = 0
    /\ alignment # "none" => AreGrids

\* No step changes the grids or starts an alignment.
LEMMA GridInvStep == GridInv /\ [Next]_vars => GridInv'
<1> SUFFICES ASSUME GridInv, [Next]_vars PROVE GridInv'
  BY Zenon
<1>1. grids' = grids /\ (alignment' = "none" <=> alignment = "none")
  BY Zenon DEF Next, vars, AlignSurfaces, Align, AlignToFill, AlignCell, EndAlignment, Aligning,
               ChooseTop, MakeSubVolume, WriteFill, Reduce, OutsideSpline, surfaces, alignVars
<1>2. alignment = "none" => cell' = cell
  BY Zenon DEF Next, vars, AlignSurfaces, Align, AlignToFill, AlignCell, EndAlignment, Aligning,
               ChooseTop, MakeSubVolume, WriteFill, Reduce, OutsideSpline, surfaces, alignVars
<1> QED BY Zenon, <1>1, <1>2 DEF GridInv, AreGrids

(***************************************************************************)
(* align_surfaces gives every cell it has passed the value of a closest    *)
(* point of the secondary surface, for any two grids, however they are     *)
(* placed, scaled and turned; it gives the fill value only where there is  *)
(* no value or no point close by.                                          *)
(***************************************************************************)
THEOREM ClosestValuesAreAligned == Spec => []ClosestValueIsAligned
<1>1. Init => GridInv
  BY Zenon, GridsAssumption DEF Init, GetAttributesAlongSurface, GetAttributesBetweenSurfaces,
                                StartAlignment, GridInv, AreGrids
<1>2. ASSUME OrderInv, GridInv PROVE ClosestValueIsAligned
  <2>1. CASE alignment = "none"
    <3>1. 0 .. cell - 1 = {}
      <4>1. cell = 0
        BY Zenon, <1>2, <2>1 DEF GridInv
      <4>2. 0 .. 0 - 1 = {}
        OBVIOUS
      <4> QED BY Zenon, <4>1, <4>2
    <3> QED BY Zenon, <3>1 DEF ClosestValueIsAligned
  <2>2. CASE alignment # "none"
    <3>1. AlignmentInv /\ AreGrids
      BY Zenon, <1>2, <2>2 DEF OrderInv, GridInv
    <3>2. 0 .. cell - 1 \subseteq Cells
      BY <3>1, SurfaceAssumption DEF AlignmentInv, Cells
    <3>3. ASSUME NEW c \in 0 .. cell - 1
          PROVE  /\ aligned[c] \in ClosestValues(c) \union {Fill}
                 /\ primary[c] = Fill \/ IsFarAway(c) => aligned[c] = Fill
                 /\ primary[c] # Fill /\ IsNear(c) => aligned[c] \in ClosestValues(c)
      <4>1. c \in Cells
        BY Zenon, <3>2
      <4>2. aligned[c] = IF HasCounterpart(c) THEN SecondaryValue(c) ELSE Fill
        BY Zenon, <3>1 DEF AlignmentInv
      <4>3. IsInSecondary(c) => \E s \in Closest(c) : SecondaryValue(c) = secondary[s]
        BY Zenon, <3>1, <4>1, ClosestCell DEF SecondaryValue
      <4>4. CASE HasCounterpart(c)
        <5>1. IsInSecondary(c) /\ primary[c] # Fill /\ SecondaryValue(c) # SecondaryFill
          BY Zenon, <4>4 DEF HasCounterpart
        <5>2. aligned[c] \in ClosestValues(c)
          BY Zenon, <4>2, <4>3, <4>4, <5>1 DEF ClosestValues
        <5>3. ~ IsFarAway(c)
          BY Zenon, <3>1, <4>1, <5>1, ClosestCell
        <5> QED BY Zenon, <5>1, <5>2, <5>3
      <4>5. CASE ~ HasCounterpart(c)
        <5>1. aligned[c] = Fill
          BY Zenon, <4>2, <4>5
        <5>2. ASSUME primary[c] # Fill, IsNear(c) PROVE Fill \in ClosestValues(c)
          <6>1. IsInSecondary(c) /\ SecondaryValue(c) = SecondaryFill
            BY Zenon, <3>1, <4>1, <4>5, <5>2, ClosestCell DEF HasCounterpart
          <6> QED BY Zenon, <4>3, <6>1 DEF ClosestValues
        <5> QED BY Zenon, <5>1, <5>2
      <4> QED BY Zenon, <4>4, <4>5
    <3> QED BY Zenon, <3>3 DEF ClosestValueIsAligned
  <2> QED BY Zenon, <2>1, <2>2
<1> QED BY <1>1, <1>2, GridInvStep, OrderIsInvariant, PTL DEF Spec
=============================================================================
