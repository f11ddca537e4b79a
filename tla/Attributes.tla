---------------------------- MODULE Attributes ----------------------------
(***************************************************************************)
(* The attributes of a resampled segment (attribute.cpp), as exact         *)
(* integers and fractions <<numerator, denominator>>.  A segment is a      *)
(* function of 0 .. size - 1; Rms and Sd are given by their squares.       *)
(***************************************************************************)
EXTENDS Integers, FiniteSets, FiniteSetsExt

Abs(x) == IF x < 0 THEN - x ELSE x
Length(seg) == Cardinality(DOMAIN seg)
accumulate(terms) == MapThenSumSet(LAMBDA j : terms[j], DOMAIN terms)

Values(seg) == {seg[j] : j \in DOMAIN seg}
AbsValues(seg) == {Abs(x) : x \in Values(seg)}

\* std::min_element and its like return the first of equal elements.
MinIndex(seg) == Min({j \in DOMAIN seg : seg[j] = Min(Values(seg))})
MaxIndex(seg) == Min({j \in DOMAIN seg : seg[j] = Max(Values(seg))})
MaxAbsIndex(seg) == Min({j \in DOMAIN seg : Abs(seg[j]) = Max(AbsValues(seg))})

SumOf(seg) == accumulate(seg)
SumPos(seg) == accumulate([j \in DOMAIN seg |-> Max({seg[j], 0})])
SumNeg(seg) == accumulate([j \in DOMAIN seg |-> Min({seg[j], 0})])
CountPos(seg) == Cardinality({j \in DOMAIN seg : seg[j] > 0})
CountNeg(seg) == Cardinality({j \in DOMAIN seg : seg[j] < 0})
MeanOver(sum, count) == IF count > 0 THEN <<sum, count>> ELSE <<0, 1>>

(***************************************************************************)
(* The outcomes of std::nth_element: which samples are left of position n, *)
(* in no particular order, and which one is at n.                          *)
(***************************************************************************)
nth_element(seg, n) ==
    {temp \in [left : kSubset(n, DOMAIN seg), nth : DOMAIN seg] :
        /\ temp.nth \notin temp.left
        /\ \A j \in temp.left : seg[j] <= seg[temp.nth]
        /\ \A j \in DOMAIN seg \ temp.left : seg[temp.nth] <= seg[j]}

AnyOfLeft(seg, temp) ==
    IF Length(seg) % 2 = 0
    THEN <<seg[CHOOSE j \in temp.left : TRUE] + seg[temp.nth], 2>>
    ELSE <<2 * seg[temp.nth], 2>>

\* With an even number of elements, the largest one left of the middle counts too.
Median(seg, temp) ==
    IF Length(seg) % 2 = 0
    THEN <<Max({seg[j] : j \in temp.left}) + seg[temp.nth], 2>>
    ELSE <<2 * seg[temp.nth], 2>>

\* The mean is taken out of every element before it is squared.
variance(seg) ==
    <<accumulate([j \in DOMAIN seg |-> (Length(seg) * seg[j] - SumOf(seg)) ^ 2]), Length(seg) ^ 3>>

(***************************************************************************)
(* compute of every AttributeMap; top is the position of the first sample, *)
(* temp the outcome of nth_element.                                        *)
(***************************************************************************)
compute(seg, temp, reference_index, top, step) ==
    [value |-> seg[reference_index],
     min |-> Min(Values(seg)), minAt |-> top + step * MinIndex(seg),
     max |-> Max(Values(seg)), maxAt |-> top + step * MaxIndex(seg),
     maxAbs |-> Max(AbsValues(seg)), maxAbsAt |-> top + step * MaxAbsIndex(seg),
     mean |-> <<SumOf(seg), Length(seg)>>,
     meanAbs |-> <<accumulate([j \in DOMAIN seg |-> Abs(seg[j])]), Length(seg)>>,
     meanPos |-> MeanOver(SumPos(seg), CountPos(seg)),
     meanNeg |-> MeanOver(SumNeg(seg), CountNeg(seg)),
     median |-> Median(seg, temp),
     rmsSquare |-> <<accumulate([j \in DOMAIN seg |-> seg[j] * seg[j]]), Length(seg)>>,
     var |-> variance(seg),
     sumPos |-> SumPos(seg), sumNeg |-> SumNeg(seg)]
=============================================================================
