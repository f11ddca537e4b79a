--------------------------- MODULE MCDataRequest ---------------------------
(***************************************************************************)
(* Requests over two VDS, a token good for both, one that is scoped to a   *)
(* single blob and one with a poor srt.  The fence leaves the survey, so   *)
(* that supplying the fill value 0 matters.                                *)
(***************************************************************************)
EXTENDS DataRequest, TLC

Fence(urls, sas, op, fill) ==
    [endpoint |-> "fence", wellformed |-> TRUE, urls |-> urls, sas |-> sas,
     op |-> op, fill |-> fill, outside |-> TRUE]

Signed(b, t) == [blob |-> b, query |-> t]
Unsigned(b) == [blob |-> b, query |-> NoToken]

FillSupplied == Fence(<<Signed("a", "wide")>>, <<>>, "none", "zero")
FillMissing == Fence(<<Unsigned("a")>>, <<"wide">>, "none", "nil")
Scoped == Fence(<<Unsigned("a")>>, <<"scoped">>, "none", "zero")
Difference == Fence(<<Unsigned("a"), Unsigned("b")>>, <<"wide", "wide">>, "subtraction", "zero")
ScopedDifference == [Difference EXCEPT !.sas = <<"wide", "scoped">>]
Metadata == [FillSupplied EXCEPT !.endpoint = "metadata"]

MCInputs ==
    {FillSupplied, FillMissing, Scoped, Difference, ScopedDifference, Metadata,
     [FillSupplied EXCEPT !.wellformed = FALSE],
     [FillSupplied EXCEPT !.urls = <<Signed("a", "poor")>>],
     Fence(<<Signed("a", "wide"), Signed("b", "wide"), Signed("a", "wide")>>,
           <<>>, "subtraction", "zero")}

\* The requests that differ in how they meet a denied cache entry.
MCFewInputs == {FillSupplied, Scoped, Difference, Metadata}

RequestSymmetry == Permutations(Request)

MCGranted == {"wide", "scoped"} \X {"a", "b"}
\* The access that the few inputs need.
MCFewGranted == MCGranted \ {<<"scoped", "b">>}

\* The VDS that every request reads is overwritten once, or none is.
MCOverwrite == [b \in Blob |-> IF b = "a" THEN 2 ELSE 1]
MCNoOverwrite == [b \in Blob |-> 1]
=============================================================================
