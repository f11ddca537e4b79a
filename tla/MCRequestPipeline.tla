------------------------- MODULE MCRequestPipeline -------------------------
(***************************************************************************)
(* Two requests and two contexts: requests run side by side, or one after  *)
(* the other in a context that a metrics goroutine still reads.  One       *)
(* request names two VDS of one account, the other two of different ones.  *)
(***************************************************************************)
EXTENDS RequestPipeline, TLC

CONSTANTS r1, r2, near, far

MCRequest == {r1, r2}
MCAccount == {near, far}
MCVdsOf == (r1 :> <<near, near>>) @@ (r2 :> <<near, far>>)
ContextSymmetry == Permutations(Context)
=============================================================================
