------------------------------- MODULE Applier ------------------------------
(***************************************************************************)
(* The command path of the agent: the JetStream durable consumer of        *)
(* internal/adapters/nats/subscribe.go, which shards messages over worker  *)
(* goroutines by placement ID, and the handler it runs,                    *)
(* internal/app/applier Applier.Handle.                                    *)
(*                                                                         *)
(* Delivery is at least once.  A message stays in the stream until an ack  *)
(* reaches the server, and until then the server may hand it out again: a  *)
(* Nak, an expired AckWait, a lost ack and a restart all look like another *)
(* Deliver.  A copy already in a shard's channel is handled even when the  *)
(* message has been acknowledged meanwhile.                                *)
(*                                                                         *)
(* The executor behind the handler is represented by its contract: while   *)
(* it runs it may put the command's row with Applied = applied, any number *)
(* of times, and it returns success, a final error or a retryable error.   *)
(* BackendExecutor and FlipExecutor over EntryProxyActions keep it (see    *)
(* BackendNode and EntryNode).  FlipExecutor over the sing-box actions     *)
(* need not: their render coalescer may put the row after Apply returned.  *)
(***************************************************************************)
EXTENDS PlacementStore, Sequences

CONSTANTS
    Workers,        \* shards: one channel and one goroutine each
    Foreign,        \* messages addressed to another node
    Garbage,        \* messages that do not decode
    Hash,           \* shard of a placement ID, or of an undecodable message
    QueueCap,       \* capacity of a shard's channel
    NoMessage

Messages == Commands \cup Foreign \cup Garbage

ASSUME HashAssumption == Hash \in [Placements \cup Foreign \cup Garbage -> Workers]
ASSUME QueueCapAssumption == QueueCap \in Nat \ {0}
ASSUME MessageAssumption ==
    /\ Commands \cap (Foreign \cup Garbage) = {}
    /\ Foreign \cap Garbage = {}
    /\ NoMessage \notin Messages

VARIABLES
    published,      \* messages the control plane has put on the stream
    unacked,        \* those the server still holds for this consumer
    queue,          \* per shard: deliveries waiting in its channel
    worker,         \* per shard: the handler call in progress
    reports         \* apply results that reached the result subject

streamVars == <<published, unacked, queue>>
applierVars == <<published, unacked, queue, worker, reports>>
vars == <<store, applierVars>>

(* Where the handler of a shard stands.                                    *)
Phase == {"idle", "execute", "persist", "persist_error", "report", "ack", "nak"}

Idle == [pc |-> "idle", msg |-> NoMessage, existing |-> NoPlacement, status |-> "none"]

WorkerType ==
    [pc: Phase, msg: Messages \cup {NoMessage},
     existing: RowType \cup {NoPlacement}, status: ReportStatus \cup {"none"}]

TypeOK ==
    /\ StoreTypeOK
    /\ published \subseteq Messages
    /\ unacked \subseteq published
    /\ queue \in [Workers -> Seq(Messages)]
    /\ worker \in [Workers -> WorkerType]
    /\ reports \subseteq ReportType

Init ==
    /\ StoreInit
    /\ published = {}
    /\ unacked = {}
    /\ queue = [w \in Workers |-> <<>>]
    /\ worker = [w \in Workers |-> Idle]
    /\ reports = {}

-----------------------------------------------------------------------------
(* The stream and the sharded consumer.                                    *)

(* Faulty variant: sharded by version, not by placement.                   *)
ShardByVersion(m) ==
    IF m \in Commands THEN CHOOSE w \in Workers : (w = Hash[m.pid]) <=> (m.op = 1) ELSE Hash[m]

(* placementShardKey and shardIndex: a decodable command or foreign        *)
(* message is sharded by its placement ID, anything else by its sequence.  *)
ShardOf(m) == IF m \in Commands THEN Hash[m.pid] ELSE Hash[m]

(* The control plane puts a message on the agent's subject.                *)
Publish(m) ==
    /\ m \notin published
    /\ published' = published \cup {m}
    /\ unacked' = unacked \cup {m}
    /\ UNCHANGED <<store, queue, worker, reports>>

(* The server hands out a message it holds, first time or again, and the   *)
(* consume callback sends it to its shard's channel.  (A callback that     *)
(* waits for room in one channel holds up the others; any such behaviour   *)
(* is one of this action's with some deliveries later.)                    *)
Deliver(m) ==
    /\ m \in unacked
    /\ Len(queue[ShardOf(m)]) < QueueCap
    /\ queue' = [queue EXCEPT ![ShardOf(m)] = Append(@, m)]
    /\ UNCHANGED <<store, published, unacked, worker, reports>>

-----------------------------------------------------------------------------
(* Applier.Handle.  A worker goroutine takes the next message and runs the *)
(* handler; the first shared state the handler touches is GetPlacement.    *)

(* Worker w takes the head of its channel and continues in phase pc.       *)
Take(w, pc, existing, status) ==
    /\ worker[w].pc = "idle"
    /\ queue[w] # <<>>
    /\ queue' = [queue EXCEPT ![w] = Tail(@)]
    /\ worker' = [worker EXCEPT ![w] = [pc |-> pc, msg |-> Head(queue[w]),
                                        existing |-> existing, status |-> status]]
    /\ UNCHANGED <<store, published, unacked, reports>>

(* A message that does not decode is returned as an error.                 *)
RejectGarbage(w) ==
    /\ queue[w] # <<>> /\ Head(queue[w]) \in Garbage
    /\ Take(w, "nak", NoPlacement, "none")

(* A message for another node is dropped: acked, not counted, no report.   *)
DropForeign(w) ==
    /\ queue[w] # <<>> /\ Head(queue[w]) \in Foreign
    /\ Take(w, "ack", NoPlacement, "none")

(* GetPlacement fails: the message is returned as an error.                *)
LoadFails(w) ==
    /\ "store" \in Faults
    /\ queue[w] # <<>> /\ Head(queue[w]) \in Commands
    /\ Take(w, "nak", NoPlacement, "none")

SkipStale(w) ==
    /\ queue[w] # <<>> /\ Head(queue[w]) \in Commands
    /\ LET c == Head(queue[w]) IN
         /\ IsStale(store[c.pid], c)
         /\ Take(w, "report", store[c.pid], "skipped_stale")

SkipIdempotent(w) ==
    /\ queue[w] # <<>> /\ Head(queue[w]) \in Commands
    /\ LET c == Head(queue[w]) IN
         /\ IsIdempotent(store[c.pid], c)
         /\ Take(w, "report", store[c.pid], "skipped_idempotent")

(* Neither: the handler calls executor.Apply with the row it has read.     *)
Dispatch(w) ==
    /\ queue[w] # <<>> /\ Head(queue[w]) \in Commands
    /\ LET c == Head(queue[w]) IN
         /\ ~IsStale(store[c.pid], c)
         /\ ~IsIdempotent(store[c.pid], c)
         /\ Take(w, "execute", store[c.pid], "none")

(* The handler call of worker w moves on.                                  *)
Goto(w, from, to, status) ==
    /\ worker[w].pc = from
    /\ worker' = [worker EXCEPT ![w].pc = to, ![w].status = status]

(* While it runs, the executor may store the command's row itself.         *)
ExecutorPersists(w) ==
    /\ worker[w].pc = "execute"
    /\ PutPlacement(worker[w].msg, "applied")
    /\ UNCHANGED applierVars

ExecutorSucceeds(w) ==
    /\ Goto(w, "execute", "persist", "none")
    /\ UNCHANGED <<store, streamVars, reports>>

(* A final (not retryable) error, its own store errors included.           *)
ExecutorFails(w) ==
    /\ Goto(w, "execute", "persist_error", "none")
    /\ UNCHANGED <<store, streamVars, reports>>

ExecutorAsksRetry(w) ==
    /\ "execute" \in Faults
    /\ Goto(w, "execute", "nak", "none")
    /\ UNCHANGED <<store, streamVars, reports>>

(* Faulty variant: success is reported without storing the row.            *)
PersistNothing(w) ==
    /\ Goto(w, "persist", "report", "applied")
    /\ UNCHANGED <<store, streamVars, reports>>

(* After success the row is stored as applied; a store error is returned.  *)
PersistApplied(w) ==
    /\ Goto(w, "persist", "report", "applied")
    /\ PutPlacement(worker[w].msg, "applied")
    /\ UNCHANGED <<streamVars, reports>>

PersistAppliedFails(w) ==
    /\ "store" \in Faults
    /\ Goto(w, "persist", "nak", "none")
    /\ UNCHANGED <<store, streamVars, reports>>

(* After a final error the row is stored as error; a store error is only   *)
(* logged and the error is reported all the same.                          *)
PersistError(w) ==
    /\ Goto(w, "persist_error", "report", "error")
    /\ PutPlacement(worker[w].msg, "error")
    /\ UNCHANGED <<streamVars, reports>>

PersistErrorFails(w) ==
    /\ "store" \in Faults
    /\ Goto(w, "persist_error", "report", "error")
    /\ UNCHANGED <<store, streamVars, reports>>

(* Faulty variant: the report is made before its status is known.          *)
ReportWithoutStatus(w) ==
    [pid |-> worker[w].msg.pid, op |-> worker[w].msg.op, status |-> "none"]

(* publishReport: the apply result for the command being handled.          *)
Report(w) ==
    [pid |-> worker[w].msg.pid, op |-> worker[w].msg.op, status |-> worker[w].status]

PublishReport(w) ==
    /\ Goto(w, "report", "ack", "none")
    /\ reports' = reports \cup {Report(w)}
    /\ UNCHANGED <<store, streamVars>>

(* Faulty variant: a publish error is logged and the message acked.        *)
PublishErrorAcked(w) ==
    /\ "publish" \in Faults
    /\ Goto(w, "report", "ack", "none")
    /\ UNCHANGED <<store, streamVars, reports>>

(* Publish returns an error.  The server may have stored the report before *)
(* its answer was lost.                                                    *)
PublishReportFails(w) ==
    /\ "publish" \in Faults
    /\ Goto(w, "report", "nak", "none")
    /\ reports' \in {reports, reports \cup {Report(w)}}
    /\ UNCHANGED <<store, streamVars>>

-----------------------------------------------------------------------------
(* invokeHandler settles the message.                                      *)

Ack(w) ==
    /\ worker[w].pc = "ack"
    /\ unacked' = unacked \ {worker[w].msg}
    /\ worker' = [worker EXCEPT ![w] = Idle]
    /\ UNCHANGED <<store, published, queue, reports>>

(* The ack does not reach the server: the failure is logged and forgotten. *)
AckLost(w) ==
    /\ "ack" \in Faults
    /\ worker[w].pc = "ack"
    /\ worker' = [worker EXCEPT ![w] = Idle]
    /\ UNCHANGED <<store, streamVars, reports>>

(* Faulty variant: the shard's goroutine ends after an error.              *)
NakEndsShard(w) == worker[w].pc = "nak" /\ UNCHANGED vars

(* Nak, whether or not it reaches the server: the message stays unacked.   *)
Nak(w) ==
    /\ worker[w].pc = "nak"
    /\ worker' = [worker EXCEPT ![w] = Idle]
    /\ UNCHANGED <<store, streamVars, reports>>

(* The agent process dies and starts again: channels and handler calls are *)
(* gone, the table and the durable consumer's position are not.            *)
AgentRestarts ==
    /\ queue' = [w \in Workers |-> <<>>]
    /\ worker' = [w \in Workers |-> Idle]
    /\ UNCHANGED <<store, published, unacked, reports>>

Crash == "crash" \in Faults /\ AgentRestarts

-----------------------------------------------------------------------------

(* The steps of a handler call that need no failure, and the others.  (A   *)
(* step may be both: storing a row that is already there and failing to.)  *)
HandleWorks(w) ==
    \/ RejectGarbage(w) \/ DropForeign(w)
    \/ SkipStale(w) \/ SkipIdempotent(w) \/ Dispatch(w)
    \/ PersistApplied(w) \/ PersistError(w) \/ PublishReport(w)
    \/ Ack(w) \/ Nak(w)

HandleFails(w) ==
    \/ LoadFails(w) \/ PersistAppliedFails(w) \/ PersistErrorFails(w)
    \/ PublishReportFails(w) \/ AckLost(w)

Handle(w) == HandleWorks(w) \/ HandleFails(w)

Execute(w) ==
    \/ ExecutorPersists(w) \/ ExecutorSucceeds(w)
    \/ ExecutorFails(w) \/ ExecutorAsksRetry(w)

Next ==
    \/ \E m \in Messages : Publish(m) \/ Deliver(m)
    \/ \E w \in Workers : Handle(w) \/ Execute(w)
    \/ Crash

Spec == Init /\ [][Next]_vars

-----------------------------------------------------------------------------
(* Properties.                                                             *)

(* A step that loses no row and takes no version back.                     *)
VersionsKept ==
    \A p \in Placements :
        Found(store[p]) => Found(store'[p]) /\ store'[p].op >= store[p].op

(* The stored operation version of a placement never goes back and a row   *)
(* never disappears: IsStale, read once per handler call, is enough,       *)
(* because only the placement's own shard writes it.                       *)
OpVersionNeverRegresses == [][VersionsKept]_store

(* What a published apply result tells the control plane stays true of the *)
(* durable table: an "applied" or "skipped_idempotent" version is stored   *)
(* or has been superseded, a "skipped_stale" one has been superseded.      *)
ReportsAreDurable ==
    \A r \in reports :
        /\ r.status \in {"applied", "skipped_idempotent"} =>
               Found(store[r.pid]) /\ store[r.pid].op >= r.op
        /\ r.status = "skipped_stale" =>
               Found(store[r.pid]) /\ store[r.pid].op > r.op

(* No command leaves the stream unanswered: once the server has dropped    *)
(* it, its apply result is on the result subject, and either the table     *)
(* has its version or a later one or the control plane was told it failed. *)
NoSilentLoss ==
    \A c \in Commands \cap (published \ unacked) :
        \E r \in reports :
            /\ r.pid = c.pid /\ r.op = c.op
            /\ r.status = "error" \/ (Found(store[c.pid]) /\ store[c.pid].op >= c.op)

(* Two handler calls for the same placement never run at the same time,    *)
(* redelivered copies included.                                            *)
OneHandlerPerPlacement ==
    \A v, w \in Workers :
        /\ worker[v].msg \in Commands
        /\ worker[w].msg \in Commands
        /\ worker[v].msg.pid = worker[w].msg.pid
        => v = w

(* The handler, its executor, the stream and every failure together still  *)
(* behave like the register of module PlacementRegister: whatever the      *)
(* control plane can observe (table and apply results) could have been     *)
(* produced by handling each command at one instant, in version order.     *)
Register == INSTANCE PlacementRegister

ImplementsRegister == Register!Spec

(* Every command published to this node is eventually answered and leaves  *)
(* the stream, and so is every message for another node.                   *)
EveryCommandSettled ==
    \A m \in Commands \cup Foreign : m \in published ~> m \notin unacked
=============================================================================
