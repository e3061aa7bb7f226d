------------------------------ MODULE MCApplier ------------------------------
(***************************************************************************)
(* The command path on a small instance: one placement with three commands *)
(* (two of the same version but another backend, as a re-sent placement    *)
(* has), a message for another node and one that does not decode, all      *)
(* hashed to the first of two shards.  Distinct placements share nothing   *)
(* but the result subject, so one placement is enough for the command path *)
(* alone.                                                                  *)
(***************************************************************************)
EXTENDS Applier

CONSTANTS p1, u1, b1, b2, w1, w2, f1, g1

Cmd(p, o, d, b) ==
    [pid |-> p, op |-> o, desired |-> d, revoked |-> FALSE, client |-> u1, backend |-> b]

MCCommands ==
    {Cmd(p1, 1, "active", b1), Cmd(p1, 2, "active", b2), Cmd(p1, 2, "active", b1)}

MCHash == [k \in Placements \cup Foreign \cup Garbage |-> w1]
=============================================================================
