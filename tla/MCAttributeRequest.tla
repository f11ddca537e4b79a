------------------------- MODULE MCAttributeRequest -------------------------
(***************************************************************************)
(* Two cells on short vertical axes, so that every margin is cut by an end *)
(* of the axis for some surface, and secondary surfaces of 2 x 2 points on *)
(* grids that are shifted, turned and scaled.                              *)
(***************************************************************************)
EXTENDS AttributeRequest

MCNegativeFill == -1
MCSamples == {-2, 0, 1}

\* Depths on, between and within the tolerance of samples 3000 units apart.
MCDepths == {4000, 5000, 5002, 6500, 8000, 10999, 14000, 17000}
MCWindows == {0, 2, 3000, 5999}
MCLayouts ==
    {[nsamples |-> l[1], outstep |-> l[2]] :
        l \in {<<2, 1000>>, <<4, 1000>>, <<4, 3000>>, <<5, 4000>>, <<6, 3000>>}}

OnCells(a, b) == [c \in Cells |-> IF c = 0 THEN a ELSE b]
MCAlong ==
    {[surface |-> OnCells(a, b), above |-> above, below |-> below] :
        a \in MCDepths \union {Fill}, b \in {Fill, 10999},
        above \in MCWindows, below \in MCWindows}
    \union {[surface |-> OnCells(10999, 8000), above |-> w[1], below |-> w[2]] :
              w \in {<<-1000, 3000>>, <<3000, -1000>>}}

\* A quarter turn has hyp 1, and cos 3, sin 4, hyp 5 is a turn of 53 degrees.
Grid(xori, yori, xinc, yinc, cos, sin, hyp, nrows, ncols) ==
    [xori |-> xori, yori |-> yori, xinc |-> xinc, yinc |-> yinc,
     cos |-> cos, sin |-> sin, hyp |-> hyp, nrows |-> nrows, ncols |-> ncols]
Straight == Grid(0, 0, 10, 10, 1, 0, 1, 2, 1)
Turned == Grid(3, 1, 5, 10, 3, 4, 5, 1, 2)
MCGrids ==
    {[primary |-> Straight, secondary |-> g] :
        g \in {Grid(0, 0, 10, 10, 1, 0, 1, 2, 2), Grid(10, 0, 10, 10, 0, 1, 1, 2, 2),
               Grid(-4, 3, 6, 8, 1, 0, 1, 2, 2), Grid(5, 10, 10, -10, 1, 0, 1, 2, 2)}}
    \union
    {[primary |-> Turned, secondary |-> g] :
        g \in {Grid(-6, 0, 12, 9, 1, 0, 1, 2, 2), Grid(4, 2, 6, 7, 3, 4, 5, 2, 2)}}

\* The surface is flat or differs across its diagonal, one corner may have no
\* value, and the fill value of the primary surface is also taken as a depth.
MCSecondaryFill == -2
MCComplete ==
    {s \in [0 .. 3 -> {6500, 10999}] : s[1] # s[2] \/ \A c \in 0 .. 3 : s[c] = s[0]}
MCSecondaries ==
    MCComplete \union {[s EXCEPT ![0] = SecondaryFill] : s \in MCComplete}
    \union {[c \in 0 .. 3 |-> Fill]}
MCBetween ==
    {[primary |-> OnCells(p[1], p[2]), secondary |-> s, grids |-> g] :
        p \in {<<8000, 10999>>, <<Fill, 10999>>},
        s \in MCSecondaries, g \in MCGrids}
=============================================================================
