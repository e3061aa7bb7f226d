----------------------------- MODULE MCSingbox ------------------------------
(***************************************************************************)
(* A sing-box entry node with two placements of two clients, on two        *)
(* backends.                                                               *)
(***************************************************************************)
EXTENDS SingboxEntry

CONSTANTS u1, u2

Cmd(p, o, d, u, b) ==
    [pid |-> p, op |-> o, desired |-> d, revoked |-> FALSE, client |-> u, backend |-> b]

(* The first placement is flipped, beside a second one.                    *)
Flip == {Cmd(1, 1, "active", u1, 1), Cmd(1, 2, "active", u1, 2)}
FlipBeside == Flip \cup {Cmd(2, 1, "active", u2, 1)}

(* One of two placements goes.                                             *)
Leave == {Cmd(1, 1, "active", u1, 1), Cmd(1, 2, "inactive", u1, 1), Cmd(2, 1, "active", u2, 2)}

MCCommands == FlipBeside \cup Leave

(* The failures are explored one family at a time.                         *)
Scenario(commands, faults) == [commands |-> commands, faults |-> faults]

Refusing == Scenario(FlipBeside, {"execute", "proxy"})
Late == Scenario(FlipBeside, {"timeout"})
Losing == Scenario(Leave, {"store"})
Crashing == Scenario(Flip, {"crash"})
FromNothing == Scenario(Flip, {"execute"})

MCScenarios == {Refusing, Late, Losing, Crashing, FromNothing}

(* Both backends are announced.                                            *)
Both == {[backend |-> b, removed |-> FALSE] : b \in Backends}

Bases == {EmptyFile, Template}

(* Backends are known from the start, except where the agent crashes.      *)
MCInit ==
    /\ SbInit
    /\ registry = IF scenario = Crashing THEN {} ELSE Backends
    /\ file = IF scenario = FromNothing THEN EmptyFile ELSE Template

MCSpec == MCInit /\ [][SbNext]_sbVars /\ SbFairness
=============================================================================
