------------------------------ MODULE MCSlice ------------------------------
(***************************************************************************)
(* A cube of 3 x 2 x 3 voxels whose annotation differs from its index.     *)
(***************************************************************************)
EXTENDS Slice

MCAxes == [iline  |-> [min |-> 1, step |-> 2, nsamples |-> 3],
           xline  |-> [min |-> 2, step |-> 1, nsamples |-> 2],
           sample |-> [min |-> 0, step |-> 3, nsamples |-> 3]]

MCVerticals == {[label |-> "Depth", unit |-> "ft"], [label |-> "Time", unit |-> "ms"],
                [label |-> "Sample", unit |-> "s"]}
MCOneVertical == {[label |-> "Depth", unit |-> "m"]}
MCNumbers == 0 .. 3

\* Numbers beyond the width of a C int of 4 bits, and those they are cut to.
MCWideNumbers == {1, 3, 17, 19}
=============================================================================
