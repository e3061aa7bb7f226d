---------------------------- MODULE TrafficMeter ----------------------------
(***************************************************************************)
(* What the traffic publishers promise the control plane: bytes are billed *)
(* to a key (a backend, a user) at most once, and only after they were     *)
(* carried.  Bytes may stay unbilled for ever.                             *)
(***************************************************************************)
EXTENDS Naturals

CONSTANT Keys

VARIABLES
    carried,        \* per key: bytes the data plane has moved
    billed          \* per key: bytes the control plane was told of

Init == carried = [k \in Keys |-> 0] /\ billed = [k \in Keys |-> 0]

Carries ==
    /\ \A k \in Keys : carried'[k] >= carried[k]
    /\ UNCHANGED billed

Bills ==
    /\ \A k \in Keys : billed'[k] \in billed[k]..carried[k]
    /\ UNCHANGED carried

Next == Carries \/ Bills

Spec == Init /\ [][Next]_<<carried, billed>>
=============================================================================
