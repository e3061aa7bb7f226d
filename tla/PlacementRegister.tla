-------------------------- MODULE PlacementRegister -------------------------
(***************************************************************************)
(* What the command path promises the control plane, without messages,     *)
(* workers or failures: per placement a register ordered by op_version.    *)
(* A command is accepted at one instant, never over a later version, and   *)
(* the answer about a command is true of the register when it is given.    *)
(***************************************************************************)
EXTENDS PlacementStore

VARIABLE reports

Init == StoreInit /\ reports = {}

Accept(c, a) ==
    /\ Found(store[c.pid]) => store[c.pid].op <= c.op
    /\ PutPlacement(c, a)
    /\ UNCHANGED reports

(* An error may be answered at any time: the row may not have been stored. *)
Answer(c, status) ==
    /\ status = "applied" => store[c.pid] = Row(c, "applied")
    /\ status = "skipped_idempotent" =>
           /\ Found(store[c.pid])
           /\ store[c.pid].op = c.op
           /\ store[c.pid].applied = "applied"
    /\ status = "skipped_stale" => Found(store[c.pid]) /\ store[c.pid].op > c.op
    /\ reports' = reports \cup {[pid |-> c.pid, op |-> c.op, status |-> status]}
    /\ UNCHANGED store

Next ==
    \E c \in Commands :
        \/ \E a \in AppliedState : Accept(c, a)
        \/ \E status \in ReportStatus : Answer(c, status)

Spec == Init /\ [][Next]_<<store, reports>>
=============================================================================
