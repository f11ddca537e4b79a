---------------------------- MODULE CubesProofs ----------------------------
(***************************************************************************)
(* Opening one or two cubes of every size: the inductive invariant of a    *)
(* handle, which requests are refused, what an intersection is, and where  *)
(* the voxels of a handle lie in its cubes.  The specification is Fence's, *)
(* whose steps on a handle are those of Cubes.                             *)
(***************************************************************************)
EXTENDS Fence, TLAPS

(***************************************************************************)
(* Stepsizes are whole numbers.  make_double_cube_axis casts a stepsize to *)
(* an int, so an intersection is only right where this holds.              *)
(***************************************************************************)
HasWholeStep(axis) == IsSupported(axis) => Width(axis) % (Unit * Steps(axis)) = 0
WholeSteps(atLeast) ==
    \A r \in Requests : Len(r.cubes) >= atLeast =>
        \A c \in DOMAIN r.cubes : \A d \in DOMAIN r.cubes[c].axes :
            HasWholeStep(r.cubes[c].axes[d])

IsAxis(axis) == axis.min \in Int /\ axis.max \in Int /\ axis.n \in Nat
StepOf(axis) == Width(axis) \div Steps(axis)

-----------------------------------------------------------------------------
(***************************************************************************)
(* Cancelling a stepsize.                                                  *)
(***************************************************************************)
LEMMA Cancel ==
  ASSUME NEW p \in Int, NEW q \in Int, NEW s \in Nat \ {0}
  PROVE  /\ p * s = q * s => p = q
         /\ p * s <= q * s <=> p <= q
         /\ p * s < q * s <=> p < q
<1>1. p <= q => p * s <= q * s
  OBVIOUS
<1>2. q + 1 <= p => (q + 1) * s <= p * s
  OBVIOUS
<1>3. p + 1 <= q => (p + 1) * s <= q * s
  OBVIOUS
<1>4. (q + 1) * s = q * s + s /\ (p + 1) * s = p * s + s
  OBVIOUS
<1> QED BY <1>1, <1>2, <1>3, <1>4

(***************************************************************************)
(* An axis whose stepsize w is whole: the int of the stepsize is w, and an *)
(* index k is at k * w from the first line, in both directions.            *)
(***************************************************************************)
LEMMA AxisOfWholeStep ==
  ASSUME NEW axis, IsAxis(axis), IsSupported(axis), HasWholeStep(axis)
  PROVE  LET w == StepOf(axis)
             s == Steps(axis)
         IN  /\ w \in Nat \ {0} /\ s \in Nat \ {0}
             /\ Width(axis) = s * w /\ Width(axis) \in Nat \ {0}
             /\ \E u \in Nat \ {0} : w = Unit * u
             /\ IntStep(axis) = w
             /\ \A k \in Int : /\ (k * Width(axis)) \div s = k * w
                               /\ ((k * w) * s) \div Width(axis) = k
<1>1. PICK s \in Nat \ {0} : s = Steps(axis)
  BY DEF IsAxis, IsSupported, Steps
<1>2. PICK W \in Nat \ {0} : W = Width(axis)
  BY DEF IsAxis, IsSupported, Width
<1>3. PICK U \in Nat \ {0} : U = Unit
  BY Zenon, CubesAssumption
<1>4. PICK t \in Nat \ {0} : t = U * s
  OBVIOUS
<1>5. PICK u \in Int : u = W \div t
  OBVIOUS
<1>6. W = u * t
  <2>1. W % t = 0
    BY Zenon, <1>1, <1>2, <1>3, <1>4 DEF HasWholeStep
  <2>2. W = t * (W \div t) + (W % t)
    OBVIOUS
  <2> QED BY <1>5, <2>1, <2>2
<1>7. u \in Nat \ {0}
  BY <1>6
<1>8. PICK w \in Nat \ {0} : w = U * u
  BY <1>7
<1>9. W = w * s
  BY <1>4, <1>6, <1>7, <1>8
<1>10. StepOf(axis) = w
  <2>1. (w * s) \div s = w
    OBVIOUS
  <2> QED BY Zenon, <1>1, <1>2, <1>9, <2>1 DEF StepOf
<1>11. IntStep(axis) = w
  <2>1. s * U = t
    BY <1>4
  <2>2. IntStep(axis) = U * (W \div t)
    BY <1>1, <1>2, <1>3, <2>1 DEF IntStep, Trunc
  <2> QED BY Zenon, <1>5, <1>8, <2>2
<1>12. ASSUME NEW k \in Int
       PROVE  /\ (k * W) \div s = k * w
              /\ ((k * w) * s) \div W = k
  <2>1. PICK q \in Int : q = k * w
    OBVIOUS
  <2>2. k * W = q * s /\ (q * s) \div s = q
    BY <1>9, <2>1
  <2>3. q * s = k * W /\ (k * W) \div W = k
    BY <1>9, <2>1
  <2> QED BY Zenon, <2>1, <2>2, <2>3
<1>13. w * s = s * w
  OBVIOUS
<1> QED BY ZenonT(60), <1>1, <1>2, <1>3, <1>7, <1>8, <1>9, <1>10, <1>11, <1>12, <1>13

(***************************************************************************)
(* Axes of one stepsize have the same quotient.                            *)
(***************************************************************************)
LEMMA SharedStep ==
  ASSUME NEW a, IsAxis(a), IsSupported(a), HasWholeStep(a),
         NEW b, IsAxis(b), IsSupported(b), HasWholeStep(b)
  PROVE  Width(a) * Steps(b) = Width(b) * Steps(a) <=> StepOf(a) = StepOf(b)
<1>1. PICK v \in Nat \ {0}, s \in Nat \ {0} : v = StepOf(a) /\ s = Steps(a) /\ Width(a) = s * v
  BY ZenonT(60), AxisOfWholeStep
<1>2. PICK w \in Nat \ {0}, t \in Nat \ {0} : w = StepOf(b) /\ t = Steps(b) /\ Width(b) = t * w
  BY ZenonT(60), AxisOfWholeStep
<1>3. PICK p \in Nat \ {0} : p = s * t
  OBVIOUS
<1>4. (s * v) * t = v * p /\ (t * w) * s = w * p
  BY <1>3
<1>5. v * p = w * p <=> v = w
  BY Cancel
<1> QED BY Zenon, <1>1, <1>2, <1>4, <1>5

(***************************************************************************)
(* The offset that make_double_cube_axis tests is a number of steps        *)
(* exactly if a line of one axis is a line of the other, going on beyond   *)
(* its ends.                                                               *)
(***************************************************************************)
LEMMA OffsetIsWhole ==
  ASSUME NEW a, IsAxis(a), IsSupported(a), HasWholeStep(a), NEW m \in Int
  PROVE  (m * Steps(a)) % Width(a) = 0 <=> \E k \in Int : m = k * StepOf(a)
<1>1. PICK w \in Nat \ {0}, s \in Nat \ {0} : w = StepOf(a) /\ s = Steps(a) /\ Width(a) = s * w
  BY ZenonT(60), AxisOfWholeStep
<1>2. PICK W \in Nat \ {0} : W = s * w
  OBVIOUS
<1>3. ASSUME (m * s) % W = 0 PROVE \E k \in Int : m = k * w
  <2>1. PICK k \in Int : k = (m * s) \div W
    OBVIOUS
  <2>2. m * s = W * ((m * s) \div W) + ((m * s) % W)
    OBVIOUS
  <2>3. m * s = k * W
    BY <1>3, <2>1, <2>2
  <2>4. PICK q \in Int : q = k * w
    OBVIOUS
  <2>5. k * W = q * s
    BY <1>2, <2>4
  <2>6. m = q
    BY Zenon, <2>3, <2>5, Cancel
  <2> QED BY Zenon, <2>4, <2>6
<1>4. ASSUME NEW k \in Int, m = k * w PROVE (m * s) % W = 0
  <2>1. m * s = k * W
    BY <1>2, <1>4
  <2>2. (k * W) % W = 0
    OBVIOUS
  <2> QED BY Zenon, <2>1, <2>2
<1> QED BY Zenon, <1>1, <1>2, <1>3, <1>4

(***************************************************************************)
(* Max and Min of two numbers.                                             *)
(***************************************************************************)
LEMMA OfTwo ==
  ASSUME NEW x \in Int, NEW y \in Int
  PROVE  /\ Max({x, y}) = IF x >= y THEN x ELSE y
         /\ Min({x, y}) = IF x <= y THEN x ELSE y
<1>1. Max({x, y}) \in {x, y} /\ \A z \in {x, y} : Max({x, y}) >= z
  <2>1. \E z \in {x, y} : \A v \in {x, y} : z >= v
    OBVIOUS
  <2> QED BY Zenon, <2>1 DEF Max
<1>2. Min({x, y}) \in {x, y} /\ \A z \in {x, y} : Min({x, y}) <= z
  <2>1. \E z \in {x, y} : \A v \in {x, y} : z <= v
    OBVIOUS
  <2> QED BY Zenon, <2>1 DEF Min
<1>3. PICK p : p = Max({x, y})
  BY Zenon
<1>4. PICK q : q = Min({x, y})
  BY Zenon
<1> QED BY <1>1, <1>2, <1>3, <1>4

(***************************************************************************)
(* Two axes that make_double_cube_axis combines: the first common line is  *)
(* line za of the one and line zb of the other, one of them is its first   *)
(* line, and there are e steps to the last common line, where one axis     *)
(* ends; the count is e + 1, also where it is negative.                    *)
(***************************************************************************)
Overlap(a, b, w, za, zb, e) ==
    /\ w = StepOf(a) /\ w = StepOf(b)
    /\ CommonMin(a, b) = a.min + za * w /\ CommonMin(a, b) = b.min + zb * w
    /\ za = 0 \/ zb = 0
    /\ CommonMax(a, b) = CommonMin(a, b) + e * w
    /\ e <= Steps(a) - za /\ e <= Steps(b) - zb
    /\ e = Steps(a) - za \/ e = Steps(b) - zb
    /\ SampleCounts(a, b) = {e + 1}

\* What make_double_cube_axis accepts is an overlap in whole steps.
LEMMA CombinedOverlap ==
  ASSUME NEW a, IsAxis(a), IsSupported(a), HasWholeStep(a),
         NEW b, IsAxis(b), IsSupported(b), HasWholeStep(b),
         CanCombine(a, b)
  PROVE  \E w \in Nat \ {0}, za \in Nat, zb \in Nat, e \in Int : Overlap(a, b, w, za, zb, e)
<1>1. PICK w \in Nat \ {0} : w = StepOf(a) /\ w = StepOf(b) /\ IntStep(a) = w
  <2>1. StepOf(a) = StepOf(b)
    BY Zenon, SharedStep DEF CanCombine, SharesUnitAndStep
  <2> QED BY Zenon, <2>1, AxisOfWholeStep
<1>2. PICK s \in Nat \ {0} : s = Steps(a) /\ a.max = a.min + s * w
  <2>1. Steps(a) \in Nat \ {0} /\ Width(a) = Steps(a) * w
    BY Zenon, <1>1, AxisOfWholeStep
  <2> QED BY <2>1 DEF Width, IsAxis
<1>3. PICK t \in Nat \ {0} : t = Steps(b) /\ b.max = b.min + t * w
  <2>1. Steps(b) \in Nat \ {0} /\ Width(b) = Steps(b) * w
    BY Zenon, <1>1, AxisOfWholeStep
  <2> QED BY <2>1 DEF Width, IsAxis
<1>4. PICK x \in Int : x = a.min
  BY Zenon DEF IsAxis
<1>5. PICK y \in Int : y = b.min
  BY Zenon DEF IsAxis
<1>6. PICK m \in Int : y = x + m * w
  <2>1. PICK d \in Int : d = y - x
    OBVIOUS
  <2>2. (d * Steps(a)) % Width(a) = 0
    BY Zenon, <1>4, <1>5, <2>1 DEF CanCombine
  <2>3. (d * Steps(a)) % Width(a) = 0 <=> \E k \in Int : d = k * StepOf(a)
    BY Zenon, OffsetIsWhole
  <2>4. PICK k \in Int : d = k * w
    BY Zenon, <1>1, <2>2, <2>3
  <2>5. k * w \in Int /\ y = x + k * w
    BY <2>1, <2>4
  <2> QED BY Zenon, <2>5
<1>7. PICK za \in Nat : za = IF m >= 0 THEN m ELSE 0
  OBVIOUS
<1>8. PICK zb \in Nat : zb = za - m
  BY <1>7
<1>9. PICK e \in Int : IF s - za <= t - zb THEN e = s - za ELSE e = t - zb
  <2>1. s - za \in Int /\ t - zb \in Int
    OBVIOUS
  <2> QED BY ZenonT(60), <2>1
<1>10. y + zb * w = x + za * w
  <2>1. zb * w = za * w - m * w
    BY <1>8
  <2>2. za * w \in Int /\ m * w \in Int
    OBVIOUS
  <2> QED BY <1>6, <2>1, <2>2
<1>11. CommonMin(a, b) = x + za * w
  <2>1. CommonMin(a, b) = IF x >= y THEN x ELSE y
    BY Zenon, <1>4, <1>5, OfTwo DEF CommonMin
  <2>2. 0 * w = 0 /\ (m >= 0 <=> m * w >= 0 * w) /\ m * w \in Int
    BY Cancel
  <2>3. CASE m >= 0
    <3>1. y = x + za * w /\ y >= x
      BY <1>6, <1>7, <2>2, <2>3
    <3> QED BY <2>1, <3>1
  <2>4. CASE m < 0
    <3>1. za * w = 0 /\ x >= y
      BY <1>6, <1>7, <2>2, <2>4
    <3> QED BY <2>1, <3>1
  <2> QED BY <2>3, <2>4
<1>12. CommonMax(a, b) = CommonMin(a, b) + e * w
  <2>1. PICK p \in Int : p = s - za
    OBVIOUS
  <2>2. PICK q \in Int : q = t - zb
    OBVIOUS
  <2>3. p * w \in Int /\ q * w \in Int /\ za * w \in Int /\ s * w \in Int /\ t * w \in Int /\ zb * w \in Int
    OBVIOUS
  <2>4. s * w = za * w + p * w /\ t * w = zb * w + q * w
    BY <2>1, <2>2
  <2>5. a.max = (x + za * w) + p * w
    BY <1>2, <1>4, <2>3, <2>4
  <2>6. b.max = (x + za * w) + q * w
    BY <1>3, <1>5, <1>10, <2>3, <2>4
  <2>7. CommonMax(a, b) = IF a.max <= b.max THEN a.max ELSE b.max
    BY ZenonT(60), OfTwo DEF CommonMax, IsAxis
  <2>8. p * w <= q * w <=> p <= q
    BY Zenon, Cancel
  <2> QED BY <1>9, <1>11, <2>1, <2>2, <2>3, <2>5, <2>6, <2>7, <2>8
<1>13. SampleCounts(a, b) = {e + 1}
  <2>1. PICK g \in Int : g = e + 1
    OBVIOUS
  <2>2. e * w \in Int /\ g * w = w + e * w /\ za * w \in Int
    BY <2>1
  <2>3. PICK lo \in Int : lo = CommonMin(a, b) /\ CommonMax(a, b) = lo + e * w
    BY <1>11, <1>12, <2>2
  <2>4. w + CommonMax(a, b) - CommonMin(a, b) = g * w
    BY <2>2, <2>3
  <2>5. Trunc(g * w, w) = g
    <3>1. CASE g * w < 0
      <4>1. PICK h \in Int : h = - g
        OBVIOUS
      <4>2. - (g * w) = h * w /\ (h * w) \div w = h
        BY <4>1
      <4> QED BY <3>1, <4>1, <4>2 DEF Trunc
    <3>2. CASE ~ (g * w < 0)
      <4>1. (g * w) \div w = g
        OBVIOUS
      <4> QED BY Zenon, <3>2, <4>1 DEF Trunc
    <3> QED BY Zenon, <3>1, <3>2
  <2> QED BY Zenon, <1>1, <2>1, <2>4, <2>5 DEF SampleCounts
<1>14. /\ e <= Steps(a) - za /\ e <= Steps(b) - zb /\ (za = 0 \/ zb = 0)
       /\ e = Steps(a) - za \/ e = Steps(b) - zb
  BY <1>2, <1>3, <1>7, <1>8, <1>9
<1> QED BY Zenon, <1>1, <1>4, <1>5, <1>10, <1>11, <1>12, <1>13, <1>14 DEF Overlap

-----------------------------------------------------------------------------
(***************************************************************************)
(* The lines of both axes are the e + 1 lines from the first common one.   *)
(***************************************************************************)
AreCommonLines(a, b, w, e) ==
    /\ \A k \in 0 .. e : CommonMin(a, b) + k * w \in Lines(a) \intersect Lines(b)
    /\ \A l \in Lines(a) \intersect Lines(b) :
           \E k \in 0 .. e : l = CommonMin(a, b) + k * w

\* The lines that two overlapping axes share are those of the overlap.
LEMMA CommonLines ==
  ASSUME NEW a, IsAxis(a), IsSupported(a), NEW b, IsAxis(b), IsSupported(b),
         NEW w \in Nat \ {0}, NEW za \in Nat, NEW zb \in Nat, NEW e \in Int,
         Overlap(a, b, w, za, zb, e)
  PROVE  /\ AreCommonLines(a, b, w, e)
         /\ Between(Lines(a), CommonMin(a, b), CommonMax(a, b))
              = Between(Lines(b), CommonMin(a, b), CommonMax(a, b))
<1>1. PICK x \in Int, y \in Int, s \in Int, t \in Int :
          x = a.min /\ y = b.min /\ s = Steps(a) /\ t = Steps(b)
  BY DEF IsAxis, Steps
<1>2. PICK lo \in Int : lo = CommonMin(a, b) /\ lo = x + za * w /\ lo = y + zb * w
  <2>1. x + za * w \in Int
    OBVIOUS
  <2> QED BY Zenon, <1>1, <2>1 DEF Overlap
<1>3. PICK hi \in Int : hi = CommonMax(a, b) /\ hi = lo + e * w
  <2>1. lo + e * w \in Int
    OBVIOUS
  <2> QED BY Zenon, <1>2, <2>1 DEF Overlap
<1>4. e <= s - za /\ e <= t - zb /\ (za = 0 \/ zb = 0) /\ (e = s - za \/ e = t - zb)
  BY Zenon, <1>1 DEF Overlap
<1>5. /\ \A l : l \in Lines(a) <=> \E k \in 0 .. s : l = x + k * w
      /\ \A l : l \in Lines(b) <=> \E k \in 0 .. t : l = y + k * w
  BY ZenonT(60), <1>1 DEF Lines, StepOf, Overlap
<1>6. ASSUME NEW k \in Int
      PROVE  /\ x + k * w = lo + (k - za) * w
             /\ y + k * w = lo + (k - zb) * w
  <2>1. (k - za) * w = k * w - za * w /\ (k - zb) * w = k * w - zb * w
    OBVIOUS
  <2>2. k * w \in Int /\ za * w \in Int /\ zb * w \in Int
    OBVIOUS
  <2> QED BY <1>2, <2>1, <2>2
<1>7. ASSUME NEW p \in Int, NEW q \in Int
      PROVE  /\ lo + p * w = lo + q * w => p = q
             /\ lo + p * w <= lo + q * w => p <= q
  <2>1. p * w \in Int /\ q * w \in Int
    OBVIOUS
  <2>2. /\ p * w = q * w => p = q
        /\ p * w <= q * w <=> p <= q
    BY Zenon, Cancel
  <2> QED BY <2>1, <2>2
<1>8. ASSUME NEW k \in 0 .. e PROVE lo + k * w \in Lines(a) \intersect Lines(b)
  <2>1. k + za \in 0 .. s /\ k + zb \in 0 .. t
    BY <1>4
  <2>2. x + (k + za) * w = lo + k * w /\ y + (k + zb) * w = lo + k * w
    <3>1. (k + za) - za = k /\ (k + zb) - zb = k
      OBVIOUS
    <3> QED BY <1>6, <3>1
  <2> QED BY ZenonT(60), <1>5, <2>1, <2>2
<1>9. ASSUME NEW l \in Lines(a) \intersect Lines(b) PROVE \E k \in 0 .. e : l = lo + k * w
  <2>1. PICK j \in 0 .. s : l = x + j * w
    BY ZenonT(60), <1>5
  <2>2. PICK k \in 0 .. t : l = y + k * w
    BY ZenonT(60), <1>5
  <2>3. PICK p \in Int : p = j - za
    OBVIOUS
  <2>4. PICK q \in Int : q = k - zb
    OBVIOUS
  <2>5. l = lo + p * w /\ l = lo + q * w
    BY <1>6, <2>1, <2>2, <2>3, <2>4
  <2>6. p = q
    BY Zenon, <1>7, <2>5
  <2>7. p \in 0 .. e
    BY <1>4, <2>3, <2>4, <2>6
  <2> QED BY Zenon, <2>5, <2>7
<1>11. ASSUME NEW l, lo <= l, l <= hi PROVE l \in Lines(a) <=> l \in Lines(b)
  <2>1. ASSUME l \in Lines(a) PROVE l \in Lines(b)
    <3>1. PICK j \in 0 .. s : l = x + j * w
      BY Zenon, <1>5, <2>1
    <3>2. PICK p \in Int : p = j - za /\ l = lo + p * w
      BY <1>6, <3>1
    <3>3. lo + 0 * w = lo
      OBVIOUS
    <3>4. 0 <= p /\ p <= e
      BY <1>3, <1>7, <1>11, <3>2, <3>3
    <3>5. p \in 0 .. e
      BY <3>4
    <3>6. lo + p * w \in Lines(a) \intersect Lines(b)
      BY Zenon, <1>8, <3>5
    <3> QED BY Zenon, <3>2, <3>6
  <2>2. ASSUME l \in Lines(b) PROVE l \in Lines(a)
    <3>1. PICK j \in 0 .. t : l = y + j * w
      BY ZenonT(60), <1>5, <2>2
    <3>2. PICK p \in Int : p = j - zb /\ l = lo + p * w
      BY <1>6, <3>1
    <3>3. lo + 0 * w = lo
      OBVIOUS
    <3>4. 0 <= p /\ p <= e
      BY <1>3, <1>7, <1>11, <3>2, <3>3
    <3>5. p \in 0 .. e
      BY <3>4
    <3>6. lo + p * w \in Lines(a) \intersect Lines(b)
      BY Zenon, <1>8, <3>5
    <3> QED BY Zenon, <3>2, <3>6
  <2> QED BY Zenon, <2>1, <2>2
<1>12. Between(Lines(a), lo, hi) = Between(Lines(b), lo, hi)
  BY Zenon, <1>11 DEF Between
<1>13. AreCommonLines(a, b, w, e)
  BY <1>2, <1>8, <1>9 DEF AreCommonLines
<1> QED BY Zenon, <1>2, <1>3, <1>12, <1>13

(***************************************************************************)
(* make_double_cube_axis never compares lines, but it accepts two axes     *)
(* exactly if they have the same lines where they overlap, two or more.    *)
(***************************************************************************)
AreAccepted(a, b) ==
    /\ CanCombine(a, b)
    /\ \A n \in SampleCounts(a, b) : n >= 2 /\ CommonMax(a, b) - CommonMin(a, b) > 0

\* Comparing one offset and counting with a quotient finds exactly the axes
\* that have the same lines, two or more of them, in their overlap.
LEMMA SameLinesAreDetected ==
  ASSUME NEW a, IsAxis(a), IsSupported(a), HasWholeStep(a),
         NEW b, IsAxis(b), IsSupported(b), HasWholeStep(b)
  PROVE  HaveSameLines(a, b) <=> AreAccepted(a, b)
<1>1. CASE CanCombine(a, b)
  <2>1. PICK w \in Nat \ {0}, za \in Nat, zb \in Nat, e \in Int : Overlap(a, b, w, za, zb, e)
    BY Zenon, <1>1, CombinedOverlap
  <2> DEFINE common == Lines(a) \intersect Lines(b)
  <2>2. PICK lo \in Int : lo = CommonMin(a, b) /\ CommonMax(a, b) = lo + e * w
    <3>1. a.min + za * w \in Int
      BY DEF IsAxis
    <3> QED BY Zenon, <2>1, <3>1 DEF Overlap
  <2>3. common = {lo + k * w : k \in 0 .. e}
    <3>1. AreCommonLines(a, b, w, e)
      BY Zenon, <2>1, CommonLines
    <3>2. /\ \A k \in 0 .. e : lo + k * w \in common
          /\ \A l \in common : \E k \in 0 .. e : l = lo + k * w
      BY Zenon, <2>2, <3>1 DEF AreCommonLines
    <3> HIDE DEF common
    <3> QED BY ZenonT(60), <3>2
  <2>4. AreAccepted(a, b) <=> e >= 1
    <3>1. PICK g \in Int : g = e * w
      OBVIOUS
    <3>2. CommonMax(a, b) - CommonMin(a, b) = g
      BY <2>2, <3>1
    <3>3. e >= 1 => g > 0
      BY <3>1
    <3>4. SampleCounts(a, b) = {e + 1}
      BY Zenon, <2>1 DEF Overlap
    <3> QED BY <1>1, <3>2, <3>3, <3>4 DEF AreAccepted
  <2>5. HaveSameLines(a, b) <=> \E k, l \in common : k # l
    BY Zenon, <1>1, <2>1, CommonLines DEF HaveSameLines, CanCombine
  <2> HIDE DEF common
  <2>6. ASSUME e >= 1 PROVE \E k, l \in common : k # l
    <3>1. lo + 0 * w \in common /\ lo + 1 * w \in common
      BY <2>3, <2>6
    <3>2. lo + 0 * w # lo + 1 * w
      OBVIOUS
    <3> QED BY Zenon, <3>1, <3>2
  <2>7. ASSUME ~ (e >= 1) PROVE \A k, l \in common : k = l
    <3>1. \A k \in 0 .. e : k = 0
      BY <2>7
    <3> QED BY Zenon, <2>3, <3>1
  <2> QED BY Zenon, <2>4, <2>5, <2>6, <2>7
<1>2. CASE ~ CanCombine(a, b)
  <2> SUFFICES ASSUME HaveSameLines(a, b) PROVE FALSE
    BY Zenon, <1>2 DEF AreAccepted
  <2>1. SharesUnitAndStep(a, b) /\ Lines(a) \intersect Lines(b) # {}
    BY Zenon DEF HaveSameLines
  <2>2. PICK w \in Nat \ {0} : w = StepOf(a) /\ w = StepOf(b)
    <3>1. StepOf(a) = StepOf(b)
      BY Zenon, <2>1, SharedStep DEF SharesUnitAndStep
    <3> QED BY Zenon, <3>1, AxisOfWholeStep
  <2>3. PICK l : l \in Lines(a) /\ l \in Lines(b)
    BY Zenon, <2>1
  <2>4. PICK j \in Int : l = a.min + j * w
    BY <2>2, <2>3 DEF Lines, StepOf, Steps, IsAxis
  <2>5. PICK k \in Int : l = b.min + k * w
    BY <2>2, <2>3 DEF Lines, StepOf, Steps, IsAxis
  <2>6. PICK d \in Int : d = b.min - a.min
    BY DEF IsAxis
  <2>7. d = (j - k) * w
    <3>1. (j - k) * w = j * w - k * w /\ j * w \in Int /\ k * w \in Int
      OBVIOUS
    <3> QED BY <2>4, <2>5, <2>6, <3>1 DEF IsAxis
  <2>8. (d * Steps(a)) % Width(a) = 0 <=> \E i \in Int : d = i * StepOf(a)
    BY Zenon, OffsetIsWhole
  <2>9. j - k \in Int
    OBVIOUS
  <2> QED BY Zenon, <1>2, <2>1, <2>2, <2>6, <2>7, <2>8, <2>9 DEF CanCombine
<1> QED BY Zenon, <1>1, <1>2

-----------------------------------------------------------------------------
(***************************************************************************)
(* What SingleMetadataHandle::create has checked of the first k axes, and  *)
(* what DoubleMetadataHandle::create has made of two.                      *)
(***************************************************************************)
IsRead(cube, k) ==
    /\ Len(cube.axes) = 3
    /\ \A d \in 1 .. k : /\ cube.axes[d].name \in DOMAIN axis_name_to_axis_type
                         /\ IsSupported(cube.axes[d])
    /\ \A d, e \in 1 .. k : AxisType(cube.axes[d]) = AxisType(cube.axes[e]) => d = e

IsCombination(axis, a, b) ==
    /\ CanCombine(a, b)
    /\ axis.min = CommonMin(a, b) /\ axis.max = CommonMax(a, b)
    /\ axis.n \in SampleCounts(a, b)
    /\ IsSupported(axis)

AreCombined(k) ==
    /\ cubes[1].survey = cubes[2].survey
    /\ axes \in Seq(AxisLayout) /\ Len(axes) = k
    /\ \A d \in 1 .. k : IsCombination(axes[d], cubes[1].axes[d], cubes[2].axes[d])

IsFine ==
    /\ \A c \in DOMAIN cubes : IsSound(cubes[c])
    /\ Len(cubes) = 2 => AreCombinable

IsRequest == \E r \in Requests : cubes = r.cubes /\ operator = r.operator

(***************************************************************************)
(* The inductive invariant of a handle: how far the loops over the cubes   *)
(* and over the dimensions have come, and what is known of an open handle. *)
(***************************************************************************)
HandleInv ==
    /\ IsRequest
    /\ number \in 1 .. Len(cubes) /\ dimension \in 1 .. 4
    /\ handle \in {"opening", "reading", "comparing", "combining", "open",
                   "not_opened", "bad_request", "error"}
    /\ handle \in {"opening", "reading", "comparing"} => axes = <<>>
    /\ handle \in {"opening", "reading"} => \A c \in 1 .. number - 1 : IsRead(cubes[c], 3)
    /\ handle = "reading" => dimension \in 1 .. 3 /\ IsRead(cubes[number], dimension - 1)
    /\ handle \in {"comparing", "combining"} => Len(cubes) = 2
    /\ handle \in {"comparing", "combining", "open"} =>
         \A c \in DOMAIN cubes : IsRead(cubes[c], 3)
    /\ handle = "combining" => AreCombined(dimension - 1)
    /\ handle = "open" =>
         IF Len(cubes) = 1
         THEN axes = cubes[1].axes /\ zero = <<[t \in {"I", "J", "K"} |-> 0]>>
         ELSE /\ AreCombined(3) /\ operator # "NO_OPERATOR"
              /\ zero = <<[t \in {"I", "J", "K"} |-> ZeroInA(t)],
                          [t \in {"I", "J", "K"} |-> ZeroInB(t)]>>
    /\ IsRefused => ~ IsFine
    /\ handle # "open" => read = <<>> /\ doc = <<>>

(***************************************************************************)
(* The layouts of the cubes of a request.                                  *)
(***************************************************************************)
LEMMA Element ==
  ASSUME NEW S, NEW q \in Seq(S), NEW i \in DOMAIN q
  PROVE  q[i] \in S
OBVIOUS

\* A request has one or two cubes, and their axes are typed.
LEMMA CubesOfRequest ==
  ASSUME IsRequest
  PROVE  /\ Len(cubes) \in 1 .. 2 /\ DOMAIN cubes = 1 .. Len(cubes)
         /\ \A c \in DOMAIN cubes : cubes[c].axes \in Seq(AxisLayout)
<1>1. PICK r \in Requests : cubes = r.cubes /\ operator = r.operator
  BY Zenon DEF IsRequest
<1>2. cubes \in Seq([axes : Seq(AxisLayout), survey : STRING]) /\ Len(cubes) \in 1 .. 2
  BY ZenonT(60), <1>1, RequestsAssumption
<1>3. DOMAIN cubes = 1 .. Len(cubes)
  BY <1>2
<1>4. ASSUME NEW c \in DOMAIN cubes PROVE cubes[c].axes \in Seq(AxisLayout)
  <2>1. PICK layout \in [axes : Seq(AxisLayout), survey : STRING] : layout = cubes[c]
    BY ZenonT(60), <1>2, Element
  <2> QED BY Zenon, <2>1
<1> QED BY Zenon, <1>2, <1>3, <1>4

\* So is every axis of a cube of three dimensions.
LEMMA AxesOfRequest ==
  ASSUME IsRequest, NEW c \in DOMAIN cubes, Len(cubes[c].axes) = 3, NEW d \in Dimensions
  PROVE  /\ cubes[c].axes[d] \in AxisLayout /\ IsAxis(cubes[c].axes[d])
         /\ WholeSteps(2) /\ Len(cubes) = 2 => HasWholeStep(cubes[c].axes[d])
         /\ WholeSteps(1) => HasWholeStep(cubes[c].axes[d])
<1>1. PICK r \in Requests : cubes = r.cubes /\ operator = r.operator
  BY Zenon DEF IsRequest
<1>2. cubes[c].axes \in Seq(AxisLayout) /\ Len(cubes) \in 1 .. 2
  BY Zenon, CubesOfRequest
<1>3. d \in DOMAIN cubes[c].axes
  BY <1>2 DEF Dimensions
<1>4. cubes[c].axes[d] \in AxisLayout
  BY Zenon, <1>2, <1>3, Element
<1>5. IsAxis(cubes[c].axes[d])
  BY Zenon, <1>4 DEF AxisLayout, IsAxis
<1>6. ASSUME NEW k \in Nat, WholeSteps(k), Len(cubes) >= k PROVE HasWholeStep(cubes[c].axes[d])
  BY Zenon, <1>1, <1>3, <1>6 DEF WholeSteps
<1>7. PICK n \in 1 .. 2 : n = Len(cubes)
  BY Zenon, <1>2
<1>8. Len(cubes) >= 1 /\ (Len(cubes) = 2 => Len(cubes) >= 2)
  BY <1>7
<1> QED BY Zenon, <1>4, <1>5, <1>6, <1>8

(***************************************************************************)
(* The map of an axis to its IJK axis is one to one in a cube that is      *)
(* read, which makes the cube sound and finds every dimension again.       *)
(***************************************************************************)
LEMMA TypeOfName ==
  ASSUME NEW axis, axis.name \in DOMAIN axis_name_to_axis_type
  PROVE  AxisType(axis) \in {"I", "J", "K"}
BY DEF AxisType, axis_name_to_axis_type

\* SingleMetadataHandle::create accepts exactly the sound cubes.
LEMMA ReadCubeIsSound ==
  ASSUME NEW cube
  PROVE  IsRead(cube, 3) <=> IsSound(cube)
<1>1. PICK t1, t2, t3 : /\ t1 = AxisType(cube.axes[1])
                        /\ t2 = AxisType(cube.axes[2])
                        /\ t3 = AxisType(cube.axes[3])
  BY Zenon
<1>2. {AxisType(cube.axes[d]) : d \in Dimensions} = {t1, t2, t3}
  BY <1>1 DEF Dimensions
<1>3. ASSUME \A d \in Dimensions : cube.axes[d].name \in DOMAIN axis_name_to_axis_type
      PROVE  /\ t1 \in {"I", "J", "K"} /\ t2 \in {"I", "J", "K"} /\ t3 \in {"I", "J", "K"}
  BY <1>1, <1>3, TypeOfName DEF Dimensions
<1>4. (\A d, e \in 1 .. 3 : AxisType(cube.axes[d]) = AxisType(cube.axes[e]) => d = e)
        <=> t1 # t2 /\ t1 # t3 /\ t2 # t3
  BY <1>1
<1>5. ASSUME t1 \in {"I", "J", "K"}, t2 \in {"I", "J", "K"}, t3 \in {"I", "J", "K"}
      PROVE  {t1, t2, t3} = {"I", "J", "K"} <=> t1 # t2 /\ t1 # t3 /\ t2 # t3
  BY <1>5
<1>6. 1 .. 3 = Dimensions
  BY Zenon DEF Dimensions
<1> QED BY Zenon, <1>2, <1>3, <1>4, <1>5, <1>6 DEF IsRead, IsSound

\* IJKToVoxelDimensionMap and the types of the axes are inverse to each other.
LEMMA DimensionOfType ==
  ASSUME NEW cube, IsRead(cube, 3)
  PROVE  /\ \A d \in Dimensions : /\ AxisType(cube.axes[d]) \in {"I", "J", "K"}
                                  /\ VoxelDimension(cube, AxisType(cube.axes[d])) = d
         /\ \A t \in {"I", "J", "K"} : /\ VoxelDimension(cube, t) \in Dimensions
                                       /\ AxisType(cube.axes[VoxelDimension(cube, t)]) = t
<1>1. ASSUME NEW d \in Dimensions
      PROVE  /\ AxisType(cube.axes[d]) \in {"I", "J", "K"}
             /\ VoxelDimension(cube, AxisType(cube.axes[d])) = d
  <2>1. AxisType(cube.axes[d]) \in {"I", "J", "K"}
    BY Zenon, TypeOfName DEF IsRead, Dimensions
  <2>2. \A e \in Dimensions : AxisType(cube.axes[e]) = AxisType(cube.axes[d]) => e = d
    BY Zenon DEF IsRead, Dimensions
  <2> QED BY Zenon, <2>1, <2>2 DEF VoxelDimension
<1>2. ASSUME NEW t \in {"I", "J", "K"} PROVE \E d \in Dimensions : AxisType(cube.axes[d]) = t
  <2>1. {AxisType(cube.axes[d]) : d \in Dimensions} = {"I", "J", "K"}
    BY ZenonT(60), ReadCubeIsSound DEF IsSound
  <2> QED BY Zenon, <2>1
<1> QED BY Zenon, <1>1, <1>2 DEF VoxelDimension

-----------------------------------------------------------------------------
(***************************************************************************)
(* HandleInv holds initially, and every step of a handle keeps it.         *)
(***************************************************************************)
LEMMA HandleInvInit == Init => HandleInv
<1> SUFFICES ASSUME Init PROVE HandleInv
  BY Zenon
<1>1. IsRequest /\ number = 1 /\ dimension = 1 /\ axes = <<>> /\ handle = "opening"
        /\ read = <<>> /\ doc = <<>>
  BY Zenon DEF Init, InitCubes, IsRequest
<1>2. PICK n \in 1 .. 2 : n = Len(cubes)
  BY Zenon, <1>1, CubesOfRequest
<1>3. \A c \in 1 .. number - 1 : FALSE
  BY <1>1
<1> QED BY <1>1, <1>2, <1>3 DEF HandleInv, IsRefused

\* An error ends the opening of a handle.
LEMMA FailStep ==
  ASSUME HandleInv, NEW error \in {"not_opened", "bad_request", "error"}, Fail(error),
         handle # "open", error # "not_opened" => ~ IsFine
  PROVE  HandleInv'
<1>1. /\ cubes' = cubes /\ operator' = operator /\ number' = number /\ dimension' = dimension
      /\ axes' = axes /\ zero' = zero /\ read' = read /\ doc' = doc /\ handle' = error
  BY Zenon DEF Fail, request
<1>2. IsRequest' /\ (~ IsFine <=> ~ IsFine')
  BY Zenon, <1>1 DEF HandleInv, IsRequest, IsFine, AreCombinable
<1>3. number' \in 1 .. Len(cubes') /\ dimension' \in 1 .. 4 /\ read' = <<>> /\ doc' = <<>>
  BY Zenon, <1>1 DEF HandleInv
<1> QED BY Zenon, <1>1, <1>2, <1>3 DEF HandleInv, IsRefused

\* make_single_datahandle reads a cube from its first dimension on.
LEMMA OpenCubeStep ==
  ASSUME HandleInv, OpenCube
  PROVE  HandleInv'
<1>1. handle = "opening"
  BY Zenon DEF OpenCube
<1>2. number \in DOMAIN cubes
  BY Zenon, CubesOfRequest DEF HandleInv
<1>3. CASE Fail("not_opened")
  BY Zenon, <1>1, <1>3, FailStep
<1>4. CASE Len(cubes[number].axes) # 3 /\ Fail("error")
  <2>1. ~ IsFine
    BY Zenon, <1>2, <1>4 DEF IsFine, IsSound
  <2> QED BY Zenon, <1>1, <1>4, <2>1, FailStep
<1>5. CASE /\ Len(cubes[number].axes) = 3
           /\ handle' = "reading"
           /\ dimension' = 1
           /\ UNCHANGED <<request, number, axes, zero, read, doc>>
  <2>1. /\ cubes' = cubes /\ operator' = operator /\ number' = number /\ dimension' = 1
        /\ axes' = axes /\ zero' = zero /\ read' = read /\ doc' = doc /\ handle' = "reading"
    BY Zenon, <1>5 DEF request
  <2>2. IsRead(cubes[number], 0)
    BY <1>5 DEF IsRead
  <2> QED BY <1>1, <2>1, <2>2 DEF HandleInv, IsRequest, IsRefused
<1> QED BY Zenon, <1>3, <1>4, <1>5 DEF OpenCube

\* SingleMetadataHandle::create has read one dimension more.
LEMMA ReadAxisStep ==
  ASSUME HandleInv, ReadAxis
  PROVE  HandleInv'
<1> DEFINE axis == cubes[number].axes[dimension]
<1>1. /\ handle = "reading" /\ dimension \in 1 .. 3 /\ IsRead(cubes[number], dimension - 1)
      /\ axes = <<>> /\ read = <<>> /\ doc = <<>>
      /\ \A c \in 1 .. number - 1 : IsRead(cubes[c], 3)
  BY Zenon DEF ReadAxis, HandleInv
<1>2. number \in DOMAIN cubes
  BY Zenon, CubesOfRequest DEF HandleInv
<1>3. CASE IsBadName(axis) /\ Fail("error")
  <2>1. ~ IsRead(cubes[number], 3)
    BY <1>1, <1>3 DEF IsBadName, IsRead
  <2>2. ~ IsFine
    BY Zenon, <1>2, <2>1, ReadCubeIsSound DEF IsFine
  <2> QED BY Zenon, <1>1, <1>3, <2>2, FailStep
<1>4. CASE ~ IsBadName(axis) /\ ~ IsSupported(axis) /\ Fail("bad_request")
  <2>1. ~ IsFine
    BY Zenon, <1>1, <1>2, <1>4 DEF IsFine, IsSound, Dimensions
  <2> QED BY Zenon, <1>1, <1>4, <2>1, FailStep
<1>5. CASE /\ ~ IsBadName(axis) /\ IsSupported(axis)
           /\ handle' = IF dimension = 3 THEN AfterReading ELSE "reading"
           /\ number' = IF dimension = 3 /\ number < Len(cubes) THEN number + 1 ELSE number
           /\ dimension' = dimension + 1
           /\ axes' = IF dimension = 3 /\ Len(cubes) = 1 THEN cubes[1].axes ELSE <<>>
           /\ zero' = IF dimension = 3 /\ Len(cubes) = 1
                      THEN <<[t \in {"I", "J", "K"} |-> 0]>> ELSE <<>>
           /\ UNCHANGED <<request, read, doc>>
  <2>1. IsRequest' /\ cubes' = cubes /\ operator' = operator /\ read' = <<>> /\ doc' = <<>>
    BY Zenon, <1>1, <1>5 DEF HandleInv, request, IsRequest
  <2>2. IsRead(cubes[number], dimension)
    <3>1. /\ axis.name \in DOMAIN axis_name_to_axis_type
          /\ \A d \in 1 .. dimension - 1 : AxisType(cubes[number].axes[d]) # AxisType(axis)
      BY Zenon, <1>5 DEF IsBadName
    <3>2. \A d \in 1 .. dimension : d \in 1 .. dimension - 1 \/ d = dimension
      BY <1>1
    <3> QED BY Zenon, <1>1, <1>5, <3>1, <3>2 DEF IsRead
  <2>3. PICK n \in 1 .. 2 : n = Len(cubes) /\ DOMAIN cubes = 1 .. n /\ number \in 1 .. n
    BY Zenon, CubesOfRequest DEF HandleInv
  <2>4. CASE dimension # 3
    BY <1>1, <1>5, <2>1, <2>2, <2>4 DEF HandleInv, IsRefused
  <2>5. CASE dimension = 3 /\ number < n
    <3>1. handle' = "opening" /\ number' = number + 1 /\ axes' = <<>>
      BY <1>5, <2>3, <2>5 DEF AfterReading
    <3>2. \A c \in 1 .. number' - 1 : IsRead(cubes[c], 3)
      BY <1>1, <2>2, <2>3, <2>5, <3>1
    <3>3. number' \in 1 .. n /\ dimension' \in 1 .. 4
      BY <1>1, <1>5, <2>3, <2>5, <3>1
    <3> QED BY Zenon, <2>1, <2>3, <3>1, <3>2, <3>3 DEF HandleInv, IsRefused
  <2>6. CASE dimension = 3 /\ ~ (number < n)
    <3>1. \A c \in DOMAIN cubes : IsRead(cubes[c], 3)
      BY <1>1, <2>2, <2>3, <2>6
    <3>2. number' \in 1 .. n /\ dimension' \in 1 .. 4
      BY <1>1, <1>5, <2>3, <2>6
    <3>3. CASE n = 1
      BY Zenon, <1>5, <2>1, <2>3, <2>6, <3>1, <3>2, <3>3 DEF HandleInv, IsRefused, AfterReading
    <3>4. CASE n = 2
      BY Zenon, <1>5, <2>1, <2>3, <2>6, <3>1, <3>2, <3>4 DEF HandleInv, IsRefused, AfterReading
    <3> QED BY <3>3, <3>4
  <2> QED BY Zenon, <2>3, <2>4, <2>5, <2>6
<1> QED BY Zenon, <1>3, <1>4, <1>5 DEF ReadAxis

\* DoubleMetadataHandle::create refuses cubes of different surveys.
LEMMA CompareSurveysStep ==
  ASSUME HandleInv, CompareSurveys
  PROVE  HandleInv'
<1>1. handle = "comparing" /\ Len(cubes) = 2 /\ axes = <<>>
  BY Zenon DEF CompareSurveys, HandleInv
<1>2. CASE cubes[1].survey # cubes[2].survey /\ Fail("bad_request")
  <2>1. ~ IsFine
    BY Zenon, <1>1, <1>2 DEF IsFine, AreCombinable
  <2> QED BY Zenon, <1>1, <1>2, <2>1, FailStep
<1>3. CASE /\ cubes[1].survey = cubes[2].survey
           /\ handle' = "combining"
           /\ dimension' = 1
           /\ UNCHANGED <<request, number, axes, zero, read, doc>>
  <2>1. /\ cubes' = cubes /\ operator' = operator /\ number' = number /\ dimension' = 1
        /\ axes' = <<>> /\ zero' = zero /\ read' = read /\ doc' = doc /\ handle' = "combining"
    BY Zenon, <1>1, <1>3 DEF request
  <2>2. dimension' - 1 = 0 /\ Len(axes') = 0
    BY <2>1
  <2>3. AreCombined(dimension - 1)'
    BY <1>3, <2>1, <2>2 DEF AreCombined
  <2>4. IsRequest'
    BY Zenon, <2>1 DEF HandleInv, IsRequest
  <2> QED BY <1>1, <2>1, <2>3, <2>4 DEF HandleInv, IsRefused
<1> QED BY Zenon, <1>2, <1>3 DEF CompareSurveys

(***************************************************************************)
(* Of two axes that can be combined, one of the counts is enough for a     *)
(* supported axis exactly if the axes have the same lines.                 *)
(***************************************************************************)
LEMMA SupportedExactlyIfSame ==
  ASSUME NEW a, IsAxis(a), IsSupported(a), HasWholeStep(a),
         NEW b, IsAxis(b), IsSupported(b), HasWholeStep(b),
         CanCombine(a, b), NEW axis, axis.n \in SampleCounts(a, b),
         axis.min = CommonMin(a, b), axis.max = CommonMax(a, b)
  PROVE  IsSupported(axis) <=> HaveSameLines(a, b)
<1>1. PICK w \in Nat \ {0}, za \in Nat, zb \in Nat, e \in Int : Overlap(a, b, w, za, zb, e)
  BY Zenon, CombinedOverlap
<1>2. SampleCounts(a, b) = {axis.n}
  BY Zenon, <1>1 DEF Overlap
<1>3. AreAccepted(a, b) <=> IsSupported(axis)
  BY Zenon, <1>2 DEF AreAccepted, IsSupported, Width
<1> QED BY Zenon, <1>3, SameLinesAreDetected

\* make_double_cube_axis appends the overlap of a dimension or refuses.
LEMMA CombineAxisStep ==
  ASSUME HandleInv, WholeSteps(2), CombineAxis
  PROVE  HandleInv'
<1>1. PICK a, b : a = cubes[1].axes[dimension] /\ b = cubes[2].axes[dimension]
  BY Zenon
<1>2. /\ handle = "combining" /\ dimension \in Dimensions /\ Len(cubes) = 2
      /\ DOMAIN cubes = 1 .. 2 /\ IsRequest
      /\ IsRead(cubes[1], 3) /\ IsRead(cubes[2], 3) /\ AreCombined(dimension - 1)
  BY CubesOfRequest DEF CombineAxis, HandleInv, Dimensions
<1>3. /\ IsAxis(a) /\ IsSupported(a) /\ HasWholeStep(a)
      /\ IsAxis(b) /\ IsSupported(b) /\ HasWholeStep(b)
  BY <1>1, <1>2, AxesOfRequest DEF IsRead, Dimensions
<1>4. ASSUME ~ HaveSameLines(a, b), Fail("bad_request") PROVE HandleInv'
  <2>1. ~ IsFine
    BY Zenon, <1>1, <1>2, <1>4 DEF IsFine, AreCombinable
  <2> QED BY Zenon, <1>2, <1>4, <2>1, FailStep
<1>5. CASE ~ CanCombine(a, b) /\ Fail("bad_request")
  <2>1. ~ HaveSameLines(a, b)
    BY Zenon, <1>3, <1>5, SameLinesAreDetected DEF AreAccepted
  <2> QED BY Zenon, <1>4, <1>5, <2>1
<1>6. CASE CanCombine(a, b)
  <2>1. PICK n, axis :
            /\ n \in SampleCounts(a, b)
            /\ axis = [name |-> a.name, unit |-> a.unit, n |-> n,
                       min |-> CommonMin(a, b), max |-> CommonMax(a, b)]
            /\ \/ ~ IsSupported(axis) /\ Fail("bad_request")
               \/ /\ IsSupported(axis)
                  /\ axes' = Append(axes, axis)
                  /\ dimension' = dimension + 1
                  /\ UNCHANGED <<request, number, zero, handle, read, doc>>
    BY ZenonT(60), <1>1, <1>6 DEF CombineAxis
  <2>2. /\ axis.n = n /\ axis.min = CommonMin(a, b) /\ axis.max = CommonMax(a, b)
        /\ n \in SampleCounts(a, b)
    BY Zenon, <2>1
  <2>3. CASE ~ IsSupported(axis)
    <3>1. ~ HaveSameLines(a, b)
      BY Zenon, <1>3, <1>6, <2>2, <2>3, SupportedExactlyIfSame
    <3> QED BY Zenon, <1>4, <2>1, <2>3, <3>1
  <2>4. CASE IsSupported(axis)
    <3>1. /\ cubes' = cubes /\ operator' = operator /\ number' = number
          /\ read' = read /\ doc' = doc /\ handle' = "combining"
          /\ axes' = Append(axes, axis) /\ dimension' = dimension + 1
      BY Zenon, <1>2, <2>1, <2>4 DEF request
    <3>2. axis \in AxisLayout
      <4>1. a \in AxisLayout
        BY <1>1, <1>2, AxesOfRequest DEF IsRead
      <4>2. CommonMin(a, b) \in Int /\ CommonMax(a, b) \in Int
        BY ZenonT(60), <1>3, OfTwo DEF IsAxis, CommonMin, CommonMax
      <4>3. n \in Int
        <5>1. PICK w \in Nat \ {0}, za \in Nat, zb \in Nat, e \in Int : Overlap(a, b, w, za, zb, e)
          BY Zenon, <1>3, <1>6, CombinedOverlap
        <5> QED BY <2>2, <5>1 DEF Overlap
      <4>4. n \in Nat
        BY <2>2, <2>4, <4>3 DEF IsSupported
      <4> QED BY Zenon, <2>1, <4>1, <4>2, <4>4 DEF AxisLayout
    <3>3. IsCombination(axis, a, b)
      BY Zenon, <1>6, <2>2, <2>4 DEF IsCombination
    <3>4. PICK k \in 1 .. 3 : k = dimension
      BY Zenon, <1>2 DEF Dimensions
    <3>5. /\ axes' \in Seq(AxisLayout) /\ Len(axes') = k
          /\ axes'[k] = axis /\ \A d \in 1 .. k - 1 : axes'[d] = axes[d]
      <4>1. axes \in Seq(AxisLayout) /\ Len(axes) = k - 1
        BY Zenon, <1>2, <3>4 DEF AreCombined
      <4> HIDE DEF AxisLayout
      <4> QED BY <3>1, <3>2, <4>1
    <3>6. ASSUME NEW d \in 1 .. k PROVE IsCombination(axes'[d], cubes[1].axes[d], cubes[2].axes[d])
      <4>1. CASE d = k
        BY Zenon, <1>1, <3>3, <3>4, <3>5, <4>1
      <4>2. CASE d # k
        <5>1. d \in 1 .. k - 1
          BY <4>2
        <5> QED BY Zenon, <1>2, <3>4, <3>5, <5>1 DEF AreCombined
      <4> QED BY Zenon, <4>1, <4>2
    <3>7. \A j : j = dimension => AreCombined(j)'
      BY Zenon, <1>2, <3>1, <3>4, <3>5, <3>6 DEF AreCombined
    <3>8. dimension' \in 1 .. 4 /\ dimension' - 1 = dimension
      BY <3>1, <3>4
    <3>9. AreCombined(dimension - 1)'
      BY Zenon, <3>7, <3>8
    <3> QED BY Zenon, <1>2, <3>1, <3>8, <3>9 DEF HandleInv, IsRequest, IsRefused
  <2> QED BY Zenon, <2>3, <2>4
<1> QED BY Zenon, <1>1, <1>5, <1>6 DEF CombineAxis

\* DoubleDataHandle opens if there is an operator.
LEMMA MakeDoubleStep ==
  ASSUME HandleInv, MakeDouble
  PROVE  HandleInv'
<1>1. /\ handle = "combining" /\ dimension = 4 /\ Len(cubes) = 2 /\ AreCombined(3)
      /\ read = <<>> /\ doc = <<>> /\ number \in 1 .. Len(cubes)
      /\ \A c \in DOMAIN cubes : IsRead(cubes[c], 3)
  BY DEF MakeDouble, HandleInv
<1>2. /\ cubes' = cubes /\ operator' = operator /\ number' = number /\ dimension' = dimension
      /\ axes' = axes /\ read' = read /\ doc' = doc
      /\ zero' = <<[t \in {"I", "J", "K"} |-> ZeroInA(t)], [t \in {"I", "J", "K"} |-> ZeroInB(t)]>>
      /\ handle' = IF operator = "NO_OPERATOR" THEN "bad_request" ELSE "open"
  BY Zenon DEF MakeDouble, request
<1>3. IsRequest' /\ AreCombined(3)'
  BY ZenonT(60), <1>1, <1>2 DEF HandleInv, IsRequest, AreCombined
<1>4. CASE operator = "NO_OPERATOR"
  <2>1. ~ IsFine'
    BY Zenon, <1>1, <1>2, <1>4 DEF IsFine, AreCombinable
  <2> QED BY ZenonT(60), <1>1, <1>2, <1>3, <1>4, <2>1 DEF HandleInv, IsRefused
<1>5. CASE operator # "NO_OPERATOR"
  <2>1. zero' = <<[t \in {"I", "J", "K"} |-> ZeroInA(t)'], [t \in {"I", "J", "K"} |-> ZeroInB(t)']>>
    BY Zenon, <1>2 DEF ZeroInA, ZeroInB, BZeroInA
  <2>2. /\ handle' = "open" /\ operator' # "NO_OPERATOR" /\ Len(cubes') = 2
        /\ number' \in 1 .. Len(cubes') /\ dimension' \in 1 .. 4
        /\ \A c \in DOMAIN cubes' : IsRead(cubes'[c], 3)
    BY <1>1, <1>2, <1>5
  <2> QED BY <1>3, <2>1, <2>2 DEF HandleInv, IsRefused
<1> QED BY Zenon, <1>4, <1>5

(***************************************************************************)
(* A step that reads from an open handle, or none of the handle.           *)
(***************************************************************************)
LEMMA HandleStays ==
  ASSUME HandleInv, UNCHANGED <<request, number, dimension, axes, zero, handle>>,
         handle = "open" \/ UNCHANGED <<read, doc>>
  PROVE  HandleInv'
<1>1. /\ cubes' = cubes /\ operator' = operator /\ number' = number /\ dimension' = dimension
      /\ axes' = axes /\ zero' = zero /\ handle' = handle
  BY Zenon DEF request
<1>2. handle' # "open" => read' = <<>> /\ doc' = <<>>
  BY Zenon, <1>1 DEF HandleInv
<1>3. /\ IsRequest' = IsRequest /\ IsFine' = IsFine /\ IsRefused' = IsRefused
      /\ AreCombined(3)' = AreCombined(3)
      /\ AreCombined(dimension - 1)' = AreCombined(dimension - 1)
  BY Zenon, <1>1 DEF IsRequest, IsFine, AreCombinable, IsRefused, AreCombined
<1>4. \A t \in {"I", "J", "K"} : ZeroInA(t)' = ZeroInA(t) /\ ZeroInB(t)' = ZeroInB(t)
  BY Zenon, <1>1 DEF ZeroInA, ZeroInB, BZeroInA
<1>5. handle = "open" /\ Len(cubes) # 1 =>
        zero' = <<[t \in {"I", "J", "K"} |-> ZeroInA(t)'], [t \in {"I", "J", "K"} |-> ZeroInB(t)']>>
  BY Zenon, <1>1, <1>4 DEF HandleInv
<1> QED BY Zenon, <1>1, <1>2, <1>3, <1>5 DEF HandleInv

\* Every step keeps the invariant of a handle.
LEMMA HandleInvStep ==
  ASSUME HandleInv, WholeSteps(2), [Next]_vars
  PROVE  HandleInv'
<1>1. CASE OpenCube
  BY Zenon, <1>1, OpenCubeStep
<1>2. CASE ReadAxis
  BY Zenon, <1>2, ReadAxisStep
<1>3. CASE CompareSurveys
  BY Zenon, <1>3, CompareSurveysStep
<1>4. CASE CombineAxis
  BY Zenon, <1>4, CombineAxisStep
<1>5. CASE MakeDouble
  BY Zenon, <1>5, MakeDoubleStep
<1>6. CASE Metadata \/ ReadSubcube \/ ReadSamples
  BY Zenon, <1>6, HandleStays DEF Metadata, ReadSubcube, ReadSamples, IsIdle
<1>7. CASE GetFence \/ CheckPoint \/ ReadTraces \/ UNCHANGED vars
  <2>1. UNCHANGED cubeVars
    BY Zenon, <1>7 DEF GetFence, CheckPoint, ReadTraces, vars
  <2> QED BY Zenon, <2>1, HandleStays DEF cubeVars, request
<1> QED BY Zenon, <1>1, <1>2, <1>3, <1>4, <1>5, <1>6, <1>7 DEF Next, Cube

(***************************************************************************)
(* HandleInv is an invariant: whatever has been read so far is sound, and  *)
(* what has been combined are the overlaps of the two cubes.               *)
(***************************************************************************)
THEOREM HandleIsInvariant ==
  ASSUME WholeSteps(2)
  PROVE  Spec => []HandleInv
BY HandleInvInit, HandleInvStep, PTL DEF Spec

-----------------------------------------------------------------------------
(***************************************************************************)
(* Requests are refused exactly as documented, for cubes of every size     *)
(* whose stepsizes are whole.                                              *)
(***************************************************************************)
THEOREM RefusalsAreAsDocumented ==
  ASSUME WholeSteps(2)
  PROVE  Spec => []RefusedExactlyAsDocumented
<1>1. ASSUME HandleInv PROVE RefusedExactlyAsDocumented
  <2>1. ASSUME handle = "open" PROVE IsFine
    <3>1. /\ IsRequest /\ \A c \in DOMAIN cubes : IsRead(cubes[c], 3)
          /\ Len(cubes) # 1 => AreCombined(3) /\ operator # "NO_OPERATOR"
      BY Zenon, <1>1, <2>1 DEF HandleInv
    <3>2. \A c \in DOMAIN cubes : IsSound(cubes[c])
      BY Zenon, <3>1, ReadCubeIsSound
    <3>3. ASSUME Len(cubes) = 2 PROVE AreCombinable
      <4>1. DOMAIN cubes = 1 .. 2
        BY Zenon, <3>1, <3>3, CubesOfRequest
      <4>2. ASSUME NEW d \in Dimensions
            PROVE  HaveSameLines(cubes[1].axes[d], cubes[2].axes[d])
        <5>1. PICK a, b : a = cubes[1].axes[d] /\ b = cubes[2].axes[d]
          BY Zenon
        <5>2. /\ IsAxis(a) /\ IsSupported(a) /\ HasWholeStep(a)
              /\ IsAxis(b) /\ IsSupported(b) /\ HasWholeStep(b)
          BY <3>1, <3>3, <4>1, <5>1, AxesOfRequest DEF IsRead, Dimensions
        <5>3. IsCombination(axes[d], a, b)
          BY <3>1, <3>3, <5>1 DEF AreCombined, Dimensions
        <5> QED BY Zenon, <5>1, <5>2, <5>3, SupportedExactlyIfSame DEF IsCombination
      <4> QED BY <3>1, <3>3, <4>2 DEF AreCombinable, AreCombined
    <3> QED BY Zenon, <3>2, <3>3 DEF IsFine
  <2>2. IsRefused => ~ IsFine
    BY Zenon, <1>1 DEF HandleInv
  <2> QED BY Zenon, <2>1, <2>2 DEF RefusedExactlyAsDocumented, IsFine
<1> QED BY <1>1, HandleIsInvariant, PTL

(***************************************************************************)
(* An axis of an open handle on two cubes, and where its voxel 0 is.       *)
(***************************************************************************)
IsVirtual(d, w, za, zb, e) ==
    /\ Overlap(cubes[1].axes[d], cubes[2].axes[d], w, za, zb, e)
    /\ axes[d].min = CommonMin(cubes[1].axes[d], cubes[2].axes[d])
    /\ Steps(axes[d]) = e /\ Width(axes[d]) = e * w /\ axes[d].n = e + 1
    /\ zero[1][AxisType(cubes[1].axes[d])] = za
    /\ zero[2][AxisType(cubes[2].axes[d])] = zb

\* DoubleCoordinateTransformer finds the first line of an overlap in both cubes.
LEMMA ZerosOfOverlap ==
  ASSUME NEW a, IsAxis(a), IsSupported(a), HasWholeStep(a),
         NEW b, IsAxis(b), IsSupported(b), HasWholeStep(b),
         NEW w \in Nat \ {0}, NEW za \in Nat, NEW zb \in Nat, NEW e \in Int,
         Overlap(a, b, w, za, zb, e)
  PROVE  LET z == AnnotationToIJKIndex(a, IJKIndexToAnnotation(b, 0))
         IN  /\ (IF z >= 0 THEN z ELSE 0) = za
             /\ AnnotationToIJKIndex(b, IJKIndexToAnnotation(a, za)) = zb
<1>1. PICK x \in Int, y \in Int : x = a.min /\ y = b.min
  BY Zenon DEF IsAxis
<1>2. PICK p \in Int, q \in Int : p = za * w /\ q = zb * w
  OBVIOUS
<1>3. x + p = y + q
  BY Zenon, <1>1, <1>2 DEF Overlap
<1>4. PICK g \in Int : g = za - zb /\ g * w = p - q
  <2>1. (za - zb) * w = p - q
    BY <1>2
  <2> QED BY <2>1
<1>5. ((g * w) * Steps(a)) \div Width(a) = g
  BY ZenonT(60), AxisOfWholeStep DEF Overlap
<1>6. (za * Width(a)) \div Steps(a) = p
  <2>1. \A k \in Int : (k * Width(a)) \div Steps(a) = k * w
    BY ZenonT(60), AxisOfWholeStep DEF Overlap
  <2> QED BY <1>2, <2>1
<1>7. (q * Steps(b)) \div Width(b) = zb
  BY <1>2, AxisOfWholeStep DEF Overlap
<1>8. (0 * Width(b)) \div Steps(b) = 0
  <2>1. (0 * Width(b)) \div Steps(b) = 0 * w
    BY AxisOfWholeStep DEF Overlap
  <2> QED BY <2>1
<1>9. IJKIndexToAnnotation(b, 0) = y
  BY <1>1, <1>8 DEF IJKIndexToAnnotation
<1>10. AnnotationToIJKIndex(a, y) = g
  <2>1. y - x = g * w
    BY <1>3, <1>4
  <2> QED BY Zenon, <1>1, <1>5, <2>1 DEF AnnotationToIJKIndex
<1>11. (IF g >= 0 THEN g ELSE 0) = za
  BY <1>4 DEF Overlap
<1>12. IJKIndexToAnnotation(a, za) = y + q
  BY Zenon, <1>1, <1>3, <1>6 DEF IJKIndexToAnnotation
<1>13. AnnotationToIJKIndex(b, y + q) = zb
  <2>1. y + q - y = q
    OBVIOUS
  <2> QED BY <1>1, <1>7, <2>1 DEF AnnotationToIJKIndex
<1> QED BY Zenon, <1>9, <1>10, <1>11, <1>12, <1>13

\* Every axis of an open handle on two cubes is such an overlap.
LEMMA VirtualAxis ==
  ASSUME HandleInv, WholeSteps(2), handle = "open", Len(cubes) = 2, NEW d \in Dimensions
  PROVE  \E w \in Nat \ {0}, za \in Nat, zb \in Nat, e \in Nat \ {0} : IsVirtual(d, w, za, zb, e)
<1>1. PICK a, b : a = cubes[1].axes[d] /\ b = cubes[2].axes[d]
  BY Zenon
<1>2. /\ IsRequest /\ DOMAIN cubes = 1 .. 2 /\ IsRead(cubes[1], 3) /\ IsRead(cubes[2], 3)
      /\ AreCombined(3)
      /\ zero = <<[t \in {"I", "J", "K"} |-> ZeroInA(t)], [t \in {"I", "J", "K"} |-> ZeroInB(t)]>>
  BY CubesOfRequest DEF HandleInv
<1>3. /\ IsAxis(a) /\ IsSupported(a) /\ HasWholeStep(a)
      /\ IsAxis(b) /\ IsSupported(b) /\ HasWholeStep(b)
  BY <1>1, <1>2, AxesOfRequest DEF IsRead, Dimensions
<1>4. IsCombination(axes[d], a, b)
  BY Zenon, <1>1, <1>2 DEF AreCombined, Dimensions
<1>5. PICK w \in Nat \ {0}, za \in Nat, zb \in Nat, e \in Int : Overlap(a, b, w, za, zb, e)
  BY Zenon, <1>3, <1>4, CombinedOverlap DEF IsCombination
<1>6. axes[d].n = e + 1 /\ axes[d].min = CommonMin(a, b) /\ e >= 1
  BY <1>4, <1>5 DEF Overlap, IsCombination, IsSupported
<1>7. Steps(axes[d]) = e /\ Width(axes[d]) = e * w
  <2>1. PICK lo \in Int, g \in Int : lo = CommonMin(a, b) /\ g = e * w
    BY <1>3, OfTwo DEF CommonMin, IsAxis
  <2>2. CommonMax(a, b) = lo + g
    BY Zenon, <1>5, <2>1 DEF Overlap
  <2>3. Width(axes[d]) = lo + g - lo /\ Steps(axes[d]) = e + 1 - 1
    BY <1>4, <1>6, <2>1, <2>2 DEF Steps, Width, IsCombination
  <2>4. lo + g - lo = g /\ e + 1 - 1 = e
    OBVIOUS
  <2> QED BY Zenon, <2>1, <2>3, <2>4
<1>8. PICK t \in {"I", "J", "K"} :
          /\ t = AxisType(a) /\ t = AxisType(b)
          /\ IJKAxis(cubes[1], t) = a /\ IJKAxis(cubes[2], t) = b
  <2>1. AxisType(a) = AxisType(b)
    BY Zenon, <1>4 DEF IsCombination, CanCombine, SharesUnitAndStep, AxisType
  <2> QED BY <1>1, <1>2, <2>1, DimensionOfType DEF IJKAxis
<1>9. ZeroInA(t) = za /\ ZeroInB(t) = zb
  BY Zenon, <1>3, <1>5, <1>8, ZerosOfOverlap DEF ZeroInA, ZeroInB, BZeroInA
<1>10. zero[1][t] = za /\ zero[2][t] = zb
  BY Zenon, <1>2, <1>9
<1>11. e \in Nat \ {0}
  BY <1>6
<1> QED BY Zenon, <1>1, <1>5, <1>6, <1>7, <1>8, <1>10, <1>11 DEF IsVirtual

(***************************************************************************)
(* The lines of a virtual cube are the lines that both cubes have.         *)
(***************************************************************************)
THEOREM IntersectionsAreExact ==
  ASSUME WholeSteps(2)
  PROVE  Spec => []IntersectionIsExact
<1>1. ASSUME HandleInv PROVE IntersectionIsExact
  <2> SUFFICES ASSUME handle = "open", Len(cubes) = 2, NEW d \in Dimensions
               PROVE  {axes[d].min * Steps(axes[d]) + k * Width(axes[d]) : k \in 0 .. Steps(axes[d])}
                        = {l * Steps(axes[d]) :
                              l \in Lines(cubes[1].axes[d]) \intersect Lines(cubes[2].axes[d])}
    BY Zenon DEF IntersectionIsExact
  <2>1. PICK a, b : a = cubes[1].axes[d] /\ b = cubes[2].axes[d]
    BY Zenon
  <2>2. PICK w \in Nat \ {0}, za \in Nat, zb \in Nat, e \in Nat \ {0} : IsVirtual(d, w, za, zb, e)
    BY Zenon, <1>1, VirtualAxis
  <2>3. /\ IsRequest /\ DOMAIN cubes = 1 .. 2 /\ IsRead(cubes[1], 3) /\ IsRead(cubes[2], 3)
    BY <1>1, CubesOfRequest DEF HandleInv
  <2>4. IsAxis(a) /\ IsSupported(a) /\ IsAxis(b) /\ IsSupported(b)
    BY <2>1, <2>3, AxesOfRequest DEF IsRead, Dimensions
  <2>5. AreCommonLines(a, b, w, e)
    BY <2>1, <2>2, <2>4, CommonLines DEF IsVirtual
  <2>6. PICK lo \in Int : lo = CommonMin(a, b)
    BY Zenon, <2>4, OfTwo DEF CommonMin, IsAxis
  <2>7. PICK common : common = Lines(a) \intersect Lines(b)
    BY ZenonT(60)
  <2>8. /\ \A k \in 0 .. e : lo + k * w \in common
        /\ \A l \in common : \E k \in 0 .. e : l = lo + k * w
    BY Zenon, <2>5, <2>6, <2>7 DEF AreCommonLines
  <2>9. PICK m, S, W : m = axes[d].min /\ S = Steps(axes[d]) /\ W = Width(axes[d])
    BY Zenon
  <2>10. m = lo /\ S = e /\ W = e * w
    BY Zenon, <2>1, <2>2, <2>6, <2>9 DEF IsVirtual
  <2>11. ASSUME NEW k \in 0 .. e PROVE m * S + k * W = (lo + k * w) * e
    <3>1. lo * e + k * (e * w) = (lo + k * w) * e
      OBVIOUS
    <3> QED BY Zenon, <2>10, <3>1
  <2>12. {m * S + k * W : k \in 0 .. S} = {l * S : l \in common}
    BY <2>8, <2>10, <2>11
  <2> QED BY <2>1, <2>7, <2>9, <2>12
<1> QED BY <1>1, HandleIsInvariant, PTL
-----------------------------------------------------------------------------
(***************************************************************************)
(* Voxels and lines of a handle whose stepsizes are whole.                 *)
(***************************************************************************)

\* The quotient of a number that lies between two multiples.
LEMMA Quotient ==
  ASSUME NEW q \in Int, NEW n \in Int, NEW v \in Nat \ {0}, q * v <= n, n < q * v + v
  PROVE  n \div v = q /\ n % v = n - q * v
<1>1. PICK r \in Int, m \in Int : r = n \div v /\ m = n % v
  OBVIOUS
<1>2. n = r * v + m /\ 0 <= m /\ m < v
  BY <1>1
<1>3. q * v + v = (q + 1) * v /\ r * v + v = (r + 1) * v
  OBVIOUS
<1>4. q * v < (r + 1) * v
  BY <1>2, <1>3
<1>5. r * v < (q + 1) * v
  BY <1>2, <1>3
<1>6. q < r + 1 /\ r < q + 1
  BY <1>4, <1>5, Cancel
<1>7. q = r
  BY <1>6
<1> QED BY <1>1, <1>2, <1>7

\* Position m on an axis of s steps of w is nearest to line q, half up.
LEMMA NearestStep ==
  ASSUME NEW s \in Nat \ {0}, NEW w \in Nat \ {0}, NEW m \in Int
  PROVE  \E q \in Int : /\ (2 * m * s + s * w) \div (2 * (s * w)) = q
                        /\ 2 * (q * w) <= 2 * m + w /\ 2 * m + w < 2 * (q * w) + 2 * w
<1>1. PICK n \in Int, v \in Nat \ {0} : n = 2 * m + w /\ v = 2 * w
  OBVIOUS
<1>2. PICK q \in Int : q * v <= n /\ n < q * v + v
  <2>1. n = v * (n \div v) + (n % v) /\ 0 <= n % v /\ n % v < v /\ n \div v \in Int
    OBVIOUS
  <2>2. v * (n \div v) = (n \div v) * v
    BY <2>1
  <2>3. (n \div v) * v <= n /\ n < (n \div v) * v + v
    BY <2>1, <2>2
  <2> QED BY Zenon, <2>1, <2>3
<1>3. PICK b \in Nat \ {0} : b = v * s
  OBVIOUS
<1>4. q * b <= n * s /\ n * s < q * b + b
  <2>1. PICK x \in Int : x = q * v
    OBVIOUS
  <2>2. x * s <= n * s /\ n * s < (x + v) * s
    BY <1>2, <2>1, Cancel
  <2>3. x * s = q * b /\ (x + v) * s = q * b + b
    BY <1>3, <2>1
  <2> QED BY Zenon, <2>2, <2>3
<1>5. (n * s) \div b = q
  BY <1>4, Quotient
<1>6. 2 * m * s + s * w = n * s /\ 2 * (s * w) = b
  BY <1>1, <1>3
<1>7. q * v = 2 * (q * w)
  BY <1>1
<1> QED BY Zenon, <1>1, <1>2, <1>5, <1>6, <1>7

\* There is one such line, and it is one of the axis if m is in range.
LEMMA NearestStepIsUnique ==
  ASSUME NEW s \in Nat \ {0}, NEW w \in Nat \ {0}, NEW m \in Int, NEW q \in Int,
         2 * (q * w) <= 2 * m + w, 2 * m + w < 2 * (q * w) + 2 * w
  PROVE  /\ \A k \in Int : k = q <=> - w <= 2 * (m - k * w) /\ 2 * (m - k * w) < w
         /\ q \in 0 .. s <=> - w <= 2 * m /\ 2 * (m - s * w) < w
<1>1. ASSUME NEW k \in Int, - w <= 2 * (m - k * w), 2 * (m - k * w) < w PROVE k = q
  <2>1. PICK x \in Int, y \in Int : x = k * w /\ y = q * w
    OBVIOUS
  <2>2. x < y + w /\ y < x + w
    BY <1>1, <2>1
  <2>3. y + w = (q + 1) * w /\ x + w = (k + 1) * w
    BY <2>1
  <2>4. k < q + 1 /\ q < k + 1
    BY <2>1, <2>2, <2>3, Cancel
  <2> QED BY <2>4
<1>2. - w <= 2 * (m - q * w) /\ 2 * (m - q * w) < w
  <2>1. PICK y \in Int : y = q * w
    OBVIOUS
  <2> QED BY <2>1
<1>3. PICK x \in Int, y \in Int : x = s * w /\ y = q * w
  OBVIOUS
<1>4. - w <= 2 * m <=> 0 <= q
  <2>1. 0 * w = 0 /\ (q + 1) * w = y + w
    BY <1>3
  <2>2. 0 < q + 1 <=> 0 < y + w
    BY <2>1, Cancel
  <2>3. 0 <= q <=> 0 <= y
    BY <1>3, <2>1, Cancel
  <2> QED BY <1>3, <2>2, <2>3
<1>5. 2 * (m - x) < w <=> q <= s
  <2>1. (s + 1) * w = x + w
    BY <1>3
  <2>2. q < s + 1 <=> y < x + w
    BY <1>3, <2>1, Cancel
  <2>3. q <= s <=> y <= x
    BY <1>3, Cancel
  <2> QED BY <1>3, <2>2, <2>3
<1> QED BY <1>1, <1>2, <1>3, <1>4, <1>5

\* Line q is the one nearest to m, in steps of w and half up.
IsNearestLine(q, m, w) ==
    \A k \in Int : k = q <=> - w <= 2 * (m - k * w) /\ 2 * (m - k * w) < w

(***************************************************************************)
(* inrange_with_margin and CoordinateToSamplePosition agree on the lines   *)
(* of an axis of whole steps w.                                            *)
(***************************************************************************)
LEMMA PositionIsNearest ==
  ASSUME NEW axis, IsAxis(axis), IsSupported(axis), NEW w \in Nat \ {0},
         Width(axis) = Steps(axis) * w, NEW x \in Int
  PROVE  \E q \in Int :
           /\ to_sample_position(axis, x) = q
           /\ inrange_with_margin(axis, x) <=> q \in 0 .. Steps(axis)
           /\ IsNearestLine(q, x - axis.min, w)
<1>1. PICK s \in Nat \ {0} : s = Steps(axis)
  BY DEF IsAxis, IsSupported, Steps
<1>2. PICK m \in Int, b \in Int : m = x - axis.min /\ b = s * w
  BY DEF IsAxis
<1>3. x - axis.max = m - b
  BY <1>1, <1>2 DEF IsAxis, Width
<1>4. PICK q \in Int : /\ (2 * m * s + s * w) \div (2 * (s * w)) = q
                       /\ 2 * (q * w) <= 2 * m + w /\ 2 * m + w < 2 * (q * w) + 2 * w
  BY Zenon, NearestStep
<1>5. /\ \A k \in Int : k = q <=> - w <= 2 * (m - k * w) /\ 2 * (m - k * w) < w
      /\ q \in 0 .. s <=> - w <= 2 * m /\ 2 * (m - s * w) < w
  BY <1>4, NearestStepIsUnique
<1>6. to_sample_position(axis, x) = q
  BY Zenon, <1>1, <1>2, <1>4 DEF to_sample_position
<1>7. inrange_with_margin(axis, x) <=> 2 * m * s >= - b /\ 2 * (m - b) * s < b
  BY Zenon, <1>1, <1>2, <1>3 DEF inrange_with_margin
<1>8. 2 * m * s >= - b <=> - w <= 2 * m
  <2>1. PICK g \in Int, h \in Int : g = - w /\ h = 2 * m
    OBVIOUS
  <2>2. g * s <= h * s <=> g <= h
    BY Zenon, Cancel
  <2>3. g * s = - b /\ h * s = 2 * m * s
    BY <1>2, <2>1
  <2> QED BY Zenon, <2>1, <2>2, <2>3
<1>9. 2 * (m - b) * s < b <=> 2 * (m - b) < w
  <2>1. PICK g \in Int : g = 2 * (m - b)
    OBVIOUS
  <2>2. g * s < w * s <=> g < w
    BY <2>1, Cancel
  <2>3. w * s = b
    BY <1>2
  <2> QED BY Zenon, <2>1, <2>2, <2>3
<1>10. inrange_with_margin(axis, x) <=> q \in 0 .. s
  BY Zenon, <1>2, <1>5, <1>7, <1>8, <1>9
<1>11. IsNearestLine(q, m, w)
  BY Zenon, <1>5 DEF IsNearestLine
<1> QED BY Zenon, <1>1, <1>2, <1>6, <1>10, <1>11

(***************************************************************************)
(* Voxel 0 of an axis of a handle is voxel z of the axis of a cube, and    *)
(* both go on from there in steps of w, a whole number.                    *)
(***************************************************************************)
IsAligned(axis, of, z, w) ==
    /\ IsAxis(axis) /\ IsSupported(axis) /\ IsAxis(of) /\ IsSupported(of)
    /\ Width(axis) = Steps(axis) * w /\ StepOf(axis) = w
    /\ \A k \in Int : IJKIndexToAnnotation(of, k) = of.min + k * w
    /\ \E u \in Nat \ {0} : w = Unit * u
    /\ Width(of) = Steps(of) * w
    /\ axis.min = of.min + z * w /\ z + axis.n <= of.n

\* So is every axis of an open handle, on the axes of every cube.
LEMMA HandleIsAligned ==
  ASSUME HandleInv, WholeSteps(1), handle = "open", NEW c \in DOMAIN cubes, NEW d \in Dimensions
  PROVE  \E z \in Nat, w \in Nat \ {0} :
            /\ zero[c][AxisType(cubes[c].axes[d])] = z
            /\ IsAligned(axes[d], cubes[c].axes[d], z, w)
<1>1. IsRequest /\ IsRead(cubes[c], 3)
  BY Zenon DEF HandleInv
<1>2. PICK of : of = cubes[c].axes[d]
  BY Zenon
<1>3. /\ IsAxis(of) /\ IsSupported(of) /\ HasWholeStep(of) /\ of \in AxisLayout
      /\ AxisType(of) \in {"I", "J", "K"}
  BY Zenon, <1>1, <1>2, AxesOfRequest, DimensionOfType DEF IsRead, Dimensions
<1>4. PICK w \in Nat \ {0} : /\ w = StepOf(of) /\ Width(of) = Steps(of) * w
                             /\ \E u \in Nat \ {0} : w = Unit * u
                             /\ \A k \in Int : (k * Width(of)) \div Steps(of) = k * w
  BY Zenon, <1>3, AxisOfWholeStep
<1>5. \A k \in Int : IJKIndexToAnnotation(of, k) = of.min + k * w
  BY Zenon, <1>4 DEF IJKIndexToAnnotation
<1>6. CASE Len(cubes) = 1
  <2>1. axes[d] = of /\ zero[c][AxisType(of)] = 0
    <3>1. c = 1
      BY <1>1, <1>6, CubesOfRequest
    <3> QED BY <1>2, <1>3, <1>6, <3>1 DEF HandleInv
  <2>2. of.min = of.min + 0 * w /\ 0 + of.n <= of.n
    BY <1>3 DEF IsAxis
  <2>3. IsAligned(axes[d], of, 0, w)
    BY Zenon, <1>3, <1>4, <1>5, <2>1, <2>2 DEF IsAligned
  <2> QED BY <1>2, <2>1, <2>3
<1>7. CASE Len(cubes) = 2
  <2>1. WholeSteps(2)
    <3>1. \A r \in Requests : Len(r.cubes) >= 2 => Len(r.cubes) >= 1
      BY RequestsAssumption
    <3> QED BY Zenon, <3>1 DEF WholeSteps
  <2>2. PICK v \in Nat \ {0}, za \in Nat, zb \in Nat, e \in Nat \ {0} : IsVirtual(d, v, za, zb, e)
    BY Zenon, <1>7, <2>1, VirtualAxis
  <2>3. c \in {1, 2}
    BY <1>1, <1>7, CubesOfRequest
  <2>4. PICK z \in Nat : /\ z = IF c = 1 THEN za ELSE zb
                         /\ zero[c][AxisType(of)] = z /\ v = StepOf(of)
                         /\ axes[d].min = of.min + z * v /\ e <= Steps(of) - z
                         /\ Steps(axes[d]) = e /\ Width(axes[d]) = e * v /\ axes[d].n = e + 1
    BY ZenonT(60), <1>2, <2>2, <2>3 DEF IsVirtual, Overlap
  <2>5. z + axes[d].n <= of.n
    BY <1>3, <2>4 DEF IsAxis, Steps
  <2>6. IsAxis(axes[d]) /\ IsSupported(axes[d])
    <3>1. AreCombined(3)
      BY <1>7 DEF HandleInv
    <3>2. axes \in Seq(AxisLayout) /\ d \in DOMAIN axes /\ IsSupported(axes[d])
      BY <3>1 DEF AreCombined, Dimensions, IsCombination
    <3>3. axes[d] \in AxisLayout
      BY Zenon, <3>2, Element
    <3> QED BY Zenon, <3>2, <3>3 DEF AxisLayout, IsAxis
  <2>7. StepOf(axes[d]) = w
    <3>1. (e * w) \div e = w
      OBVIOUS
    <3> QED BY Zenon, <1>4, <2>4, <3>1 DEF StepOf
  <2>8. IsAligned(axes[d], of, z, w)
    BY Zenon, <1>3, <1>4, <1>5, <2>4, <2>5, <2>6, <2>7 DEF IsAligned
  <2> QED BY Zenon, <1>2, <2>4, <2>8
<1> QED BY <1>1, <1>6, <1>7, CubesOfRequest

\* The axes of an IJK type are in one dimension of all cubes.
LEMMA SameDimensions ==
  ASSUME HandleInv, handle = "open", NEW c \in DOMAIN cubes, NEW t \in {"I", "J", "K"}
  PROVE  \E d \in Dimensions : /\ d = VoxelDimension(cubes[1], t) /\ d = VoxelDimension(cubes[c], t)
                               /\ AxisType(cubes[1].axes[d]) = t /\ AxisType(cubes[c].axes[d]) = t
                               /\ Axis(t) = axes[d] /\ IJKAxis(cubes[c], t) = cubes[c].axes[d]
<1>1. PICK n \in 1 .. 2 : n = Len(cubes) /\ DOMAIN cubes = 1 .. n
  BY Zenon, CubesOfRequest DEF HandleInv
<1>2. IsRead(cubes[1], 3) /\ IsRead(cubes[c], 3)
  BY <1>1 DEF HandleInv
<1>3. PICK d \in Dimensions : d = VoxelDimension(cubes[1], t) /\ AxisType(cubes[1].axes[d]) = t
  BY Zenon, <1>2, DimensionOfType
<1>4. AxisType(cubes[c].axes[d]) = t
  <2>1. CASE c = 1
    BY Zenon, <1>3, <2>1
  <2>2. CASE c # 1
    <3>1. n = 2 /\ c = 2 /\ n # 1
      BY <1>1, <2>2
    <3>2. AreCombined(3)
      BY Zenon, <1>1, <3>1 DEF HandleInv
    <3>3. SharesUnitAndStep(cubes[1].axes[d], cubes[2].axes[d])
      BY Zenon, <3>2 DEF AreCombined, IsCombination, CanCombine, Dimensions
    <3> QED BY Zenon, <1>3, <3>1, <3>3 DEF SharesUnitAndStep, AxisType
  <2> QED BY Zenon, <2>1, <2>2
<1>5. VoxelDimension(cubes[c], t) = d
  <2>1. VoxelDimension(cubes[c], AxisType(cubes[c].axes[d])) = d
    BY Zenon, <1>2, DimensionOfType
  <2> QED BY Zenon, <1>4, <2>1
<1> QED BY Zenon, <1>3, <1>4, <1>5 DEF Axis, IJKAxis
=============================================================================
