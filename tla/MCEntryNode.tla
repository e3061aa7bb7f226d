----------------------------- MODULE MCEntryNode -----------------------------
(***************************************************************************)
(* An entry node with one client and two backends, in one shard.           *)
(***************************************************************************)
EXTENDS EntryNode

CONSTANTS p1, u1, b1, b2, w1

Cmd(p, o, d, r, b) ==
    [pid |-> p, op |-> o, desired |-> d, revoked |-> r, client |-> u1, backend |-> b]

MCHash == [k \in Placements |-> w1]

(* A placement on a backend that is announced late.                        *)
Late == {Cmd(p1, 1, "active", FALSE, b2)}

(* A placement is flipped to another backend.                              *)
Flip == {Cmd(p1, 1, "active", FALSE, b1), Cmd(p1, 2, "active", FALSE, b2)}

(* A placement is flipped and deactivated.                                 *)
FlipAndEnd == Flip \cup {Cmd(p1, 3, "inactive", FALSE, b2)}

(* The second backend is announced while the agent runs.                   *)
Announced == {[backend |-> b2, removed |-> FALSE]}
=============================================================================
