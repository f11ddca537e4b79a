------------------------------ MODULE MCFence ------------------------------
(***************************************************************************)
(* Pairs of cubes that begin and end at different lines in every           *)
(* dimension, with dimensions in two orders, and cubes that must be        *)
(* refused for one reason each.  Annotations are quarters.                 *)
(***************************************************************************)
EXTENDS Fence

MCIntMin == - 2147483647 - 1
MCIntMax == 2147483647

MakeAxis(name, unit, min, step, n) ==
    [name |-> name, unit |-> unit, min |-> min, max |-> min + (n - 1) * step, n |-> n]
MakeCube(axs, survey) == [axes |-> axs, survey |-> survey]

\* Cubes with lines of whole stepsizes from a given one on, in k, j and i.
Whole(k, j, i) ==
    MakeCube(<<MakeAxis("Time", "ms", 16 + 8 * k[1], 8, k[2]),
               MakeAxis("Crossline", "unitless", 40 + 4 * j[1], 4, j[2]),
               MakeAxis("Inline", "unitless", 20 + 8 * i[1], 8, i[2])>>, "survey")
Reversed(cube) == [cube EXCEPT !.axes = <<cube.axes[3], cube.axes[2], cube.axes[1]>>]
Swapped(cube) == [cube EXCEPT !.axes = <<cube.axes[2], cube.axes[1], cube.axes[3]>>]

CubeA == Whole(<<0, 4>>, <<0, 3>>, <<0, 3>>)
WithAxis(d, axis) == [CubeA EXCEPT !.axes[d] = axis]

\* Starts and lengths relative to cube A, with and without two common lines.
Others ==
    {Whole(k, j, i) : k \in {<<-2, 4>>, <<-1, 6>>, <<0, 4>>, <<1, 2>>, <<3, 3>>},
                      j \in {<<-1, 3>>, <<1, 2>>, <<2, 2>>}, i \in {<<-1, 4>>, <<1, 3>>, <<5, 2>>}}

Deviating ==
    {[CubeA EXCEPT !.survey = "other"], Swapped(CubeA),
     WithAxis(1, MakeAxis("Depth", "ms", 16, 8, 4)), WithAxis(1, MakeAxis("Time", "s", 16, 8, 4)),
     WithAxis(1, MakeAxis("Time", "ms", 20, 8, 4)), WithAxis(3, MakeAxis("Inline", "unitless", 20, 4, 5)),
     WithAxis(2, MakeAxis("Crossline", "unitless", 41, 4, 3))}

Unsound ==
    {MakeCube(<<CubeA.axes[1], CubeA.axes[2]>>, "survey"), WithAxis(2, MakeAxis("Offset", "m", 0, 4, 3)),
     WithAxis(2, CubeA.axes[3]), WithAxis(1, MakeAxis("Time", "ms", 16, 8, 1)),
     WithAxis(3, MakeAxis("Inline", "unitless", 20, 0, 3)),
     WithAxis(3, MakeAxis("Inline", "unitless", 20, -8, 3))}

Pair(a, b) == [cubes |-> <<a, b>>, operator |-> "SUBTRACTION"]
MCRequests ==
    {Pair(CubeA, b) : b \in Others \union Deviating \union Unsound}
    \union {Pair(Reversed(b), Reversed(CubeA)) : b \in Others}
    \union {[cubes |-> <<a>>, operator |-> "NO_OPERATOR"] :
                a \in {CubeA, Reversed(CubeA), Swapped(CubeA)} \union Unsound}
    \union {[cubes |-> <<CubeA, CubeA>>, operator |-> "NO_OPERATOR"], Pair(CubeA, Swapped(CubeA))}

\* Points at and just beyond both ends of the margins of cube A and of the
\* intersections, and half way between lines.
Points == {15, 16, 24, 31, 32, 39, 40} \X {37, 38, 43, 46, 49, 50}
IndexPoints == {-3, -2, 2, 5, 6, 9, 10} \X {-2, 1, 6}
MCFences ==
    {[system |-> "ANNOTATION", coordinates |-> <<p>>, fill |-> f] : p \in Points, f \in BOOLEAN}
    \union {[system |-> "INDEX", coordinates |-> <<p>>, fill |-> f] : p \in IndexPoints, f \in BOOLEAN}
    \union {[system |-> "ANNOTATION", coordinates |-> c, fill |-> TRUE] :
                c \in {<<<<24, 43>>, <<15, 43>>>>, <<<<15, 50>>, <<31, 44>>>>, <<<<28, 46>>, <<24, 44>>>>}}
    \union {[system |-> "INDEX", coordinates |-> c, fill |-> TRUE] :
                c \in {<<>>, <<<<0, 0>>, <<4>>>>, <<<<0, 0, 0>>>>}}

\* Stepsizes of one and a half.
Fractional(k, n) == WithAxis(1, MakeAxis("Time", "ms", 16 + 6 * k, 6, n))
MCFractional == {Pair(Fractional(0, 4), Fractional(k, n)) : k \in -1 .. 2, n \in 3 .. 4}
=============================================================================
