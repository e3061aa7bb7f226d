--------------------------- MODULE MCPlacementSync ---------------------------
(***************************************************************************)
(* One placement with two versions; a snapshot lists the first of them     *)
(* while the second is on its way as a command.                            *)
(***************************************************************************)
EXTENDS PlacementSync

CONSTANTS p1, u1, b1, w1, s1

Cmd(o) ==
    [pid |-> p1, op |-> o, desired |-> "active", revoked |-> FALSE, client |-> u1, backend |-> b1]

MCCommands == {Cmd(1), Cmd(2)}

MCStreams == {<<[kind |-> "chunk", snap |-> s1, last |-> TRUE, items |-> {Cmd(1)}]>>}

MCHash == [k \in Placements |-> w1]
=============================================================================
