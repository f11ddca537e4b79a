--------------------------- MODULE AttributeMaps ---------------------------
(***************************************************************************)
(* What getAttributes promises to the attribute endpoints: one answer,     *)
(* either an error or, for every requested attribute, a map with the fill  *)
(* value at the positions without samples and the attribute elsewhere.     *)
(***************************************************************************)
EXTENDS Integers

CONSTANTS
    Positions,     \* horizontal positions of the surface
    Fill,          \* the fill value of the reference surface
    Value(_, _)    \* an attribute at a position that has samples

VARIABLES
    nAttributes,   \* number of requested attributes
    empty,         \* positions without samples
    outcome,       \* "running", "ok" or "error"
    maps           \* the answer, once the outcome is "ok"

vars == <<outcome, maps>>

Answer ==
    [a \in 0 .. nAttributes - 1 |->
        [i \in Positions |-> IF i \in empty THEN Fill ELSE Value(a, i)]]

Init ==
    /\ outcome = "running"
    /\ maps = <<>>

Succeed ==
    /\ outcome = "running"
    /\ outcome' = "ok"
    /\ maps' = Answer

Fail ==
    /\ outcome = "running"
    /\ outcome' = "error"
    /\ UNCHANGED maps

Next == Succeed \/ Fail

Spec == Init /\ [][Next]_vars /\ WF_vars(Next)
=============================================================================
