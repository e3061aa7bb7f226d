--------------------------- MODULE PlacementStore ---------------------------
(***************************************************************************)
(* The placement table of one node agent: internal/adapters/badger keeps   *)
(* one domain.Placement per placement ID, and every other component reads  *)
(* and writes it through Get, Put, Delete and List.  A Put or a Delete is  *)
(* one Badger transaction, so each of them is one step; a handler that     *)
(* reads and later writes takes two.                                       *)
(*                                                                         *)
(* A placement command carries the whole desired row.  The payload fields  *)
(* kept here are those some component branches on: the operation version,  *)
(* the desired state, the revocation flag, the client and the backend.     *)
(***************************************************************************)
EXTENDS Naturals

CONSTANTS
    Placements,     \* placement IDs
    Clients,        \* client IDs (the users of the VPN)
    Backends,       \* backend node IDs
    Commands,       \* the placement commands the control plane may issue
    Faults,         \* the kinds of environment failure that may happen
    NoPlacement     \* what GetPlacement returns when found is false

(* domain.DesiredState and the two values of domain.AppliedState that are  *)
(* ever stored.                                                            *)
DesiredState == {"active", "inactive"}
AppliedState == {"applied", "error"}

(* domain.PlacementCommand: a placement ID and the row it asks for.        *)
CommandType ==
    [pid: Placements, op: Nat, desired: DesiredState, revoked: BOOLEAN,
     client: Clients, backend: Backends]

(* domain.Placement as it is stored under its ID.                          *)
RowType ==
    [op: Nat, desired: DesiredState, revoked: BOOLEAN, client: Clients,
     backend: Backends, applied: AppliedState]

(* domain.PlacementReport, with the statuses that are ever published.      *)
ReportStatus == {"applied", "error", "skipped_stale", "skipped_idempotent"}

ReportType == [pid: Placements, op: Nat, status: ReportStatus]

(* The environment failures the agent's code has a branch for.             *)
FaultKinds ==
    {"store", "execute", "rebuild", "publish", "ack", "crash", "xray", "proxy",
     "timeout"}

ASSUME CommandsAssumption == Commands \subseteq CommandType
ASSUME NoPlacementAssumption == NoPlacement \notin RowType
ASSUME FaultsAssumption == Faults \subseteq FaultKinds

VARIABLE
    store           \* the durable table: a row, or NoPlacement, per ID

StoreTypeOK == store \in [Placements -> RowType \cup {NoPlacement}]

StoreInit == store = [p \in Placements |-> NoPlacement]

-----------------------------------------------------------------------------

(* The row a component writes for command c when it sets Applied to a.     *)
Row(c, a) ==
    [op |-> c.op, desired |-> c.desired, revoked |-> c.revoked,
     client |-> c.client, backend |-> c.backend, applied |-> a]

(* GetPlacement's found result.                                            *)
Found(row) == row # NoPlacement

PutPlacement(c, a) == store' = [store EXCEPT ![c.pid] = Row(c, a)]

DeletePlacement(p) == store' = [store EXCEPT ![p] = NoPlacement]

ListPlacements == {p \in Placements : Found(store[p])}

(* The placement is to be served: desired active and not revoked.          *)
Serving(row) == row.desired = "active" /\ ~row.revoked

-----------------------------------------------------------------------------
(* What a handler and its executor decide from a command and a stored row. *)

(* Faulty variant: an off-by-one lets the previous version through.        *)
StaleByTwo(row, c) == Found(row) /\ row.op > c.op + 1

(* The two reasons for not executing a command, given the stored row.      *)
IsStale(row, c) == Found(row) /\ row.op > c.op

(* Faulty variant: the version is not compared.                            *)
SameState(row, c) ==
    Found(row) /\ row.applied = "applied" /\ row.desired = c.desired /\ row.backend = c.backend

IsIdempotent(row, c) ==
    /\ Found(row)
    /\ row.op = c.op
    /\ row.applied = "applied"
    /\ row.desired = c.desired
    /\ row.backend = c.backend

(* isBackendFlip, for a row that was found.                                *)
IsBackendFlip(row, c) ==
    /\ Found(row)
    /\ row.applied = "applied"
    /\ row.desired = "active" /\ c.desired = "active"
    /\ row.client = c.client
    /\ row.backend # c.backend

(* Faulty variant: the next version counts as stored.                      *)
AlmostStored(c) == Found(store[c.pid]) /\ store[c.pid].op + 1 >= c.op

(* The check SimpleApply and SwapRoute make on the row as it is now.       *)
AlreadyStored(c) == c.op # 0 /\ Found(store[c.pid]) /\ store[c.pid].op >= c.op
=============================================================================
