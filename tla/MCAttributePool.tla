-------------------------- MODULE MCAttributePool --------------------------
(***************************************************************************)
(* A surface with 4 rows and 3 columns: three chunks of four positions, at *)
(* most two goroutines at a time, room for four answers.                   *)
(***************************************************************************)
EXTENDS AttributePool

MCEmptySets == { {}, {0, 1, 2, 3, 6} }
MCAttributeCounts == {0, 2}
=============================================================================
