---------------------------- MODULE MCBackendNode ----------------------------
(***************************************************************************)
(* A backend node with one or two placements in one shard.                 *)
(***************************************************************************)
EXTENDS BackendNode

CONSTANTS p1, p2, u1, u2, b1, w1

Cmd(p, o, d, r, u) ==
    [pid |-> p, op |-> o, desired |-> d, revoked |-> r, client |-> u, backend |-> b1]

MCHash == [k \in Placements |-> w1]

(* A placement is activated, revoked and activated again.                  *)
LifeCycle ==
    {Cmd(p1, 1, "active", FALSE, u1), Cmd(p1, 2, "active", TRUE, u1), Cmd(p1, 3, "active", FALSE, u1)}

(* A placement is activated and deactivated.                               *)
OnOff == {Cmd(p1, 1, "active", FALSE, u1), Cmd(p1, 2, "inactive", FALSE, u1)}

(* Two placements of the same client, one of which ends.                   *)
SharedClient ==
    OnOff \cup {Cmd(p2, 1, "active", FALSE, u1)}
=============================================================================
