---------------------------- MODULE ApplierProofs ---------------------------
(***************************************************************************)
(* Theorems about the command path for any set of commands, placements,    *)
(* shards, channel capacity and failure kinds.                             *)
(*                                                                         *)
(* The argument rests on two facts about a handler call in progress.       *)
(* ShardInv: every copy of a command, waiting or being handled, is in its  *)
(* placement's shard, so nobody else writes that placement's row.          *)
(* HandlerInv: therefore what the handler found when it read the row still *)
(* holds when it writes it and when it reports.                            *)
(***************************************************************************)
EXTENDS Applier, TLAPS

(* Every waiting or running copy of a message sits in its own shard.       *)
ShardInv ==
    /\ \A w \in Workers : \A i \in 1..Len(queue[w]) : ShardOf(queue[w][i]) = w
    /\ \A w \in Workers : worker[w].msg # NoMessage => ShardOf(worker[w].msg) = w

(* What the handler call wk relies on in each phase, given the table st.   *)
CallOK(wk, st) ==
    LET c == wk.msg
        row == st[c.pid]
    IN  /\ wk.pc = "idle" => c = NoMessage
        /\ wk.pc \in {"execute", "persist", "persist_error", "report"} => c \in Commands
        /\ wk.pc \in {"execute", "persist", "persist_error"} => (Found(row) => row.op <= c.op)
        /\ wk.pc = "report" =>
               /\ wk.status \in ReportStatus
               /\ wk.status = "applied" => row = Row(c, "applied")
               /\ wk.status = "skipped_idempotent" =>
                      Found(row) /\ row.op = c.op /\ row.applied = "applied"
               /\ wk.status = "skipped_stale" => Found(row) /\ row.op > c.op

HandlerInv == \A w \in Workers : CallOK(worker[w], store)

(* What a row stored for a command looks like, whatever Applied is.        *)
LEMMA RowTyping ==
    ASSUME NEW c \in Commands, NEW a \in AppliedState
    PROVE  /\ Row(c, a) \in RowType
           /\ Found(Row(c, a))
           /\ Row(c, a).op = c.op
           /\ Row(c, a).applied = a
           /\ c.pid \in Placements
           /\ c.op \in Nat
BY CommandsAssumption, NoPlacementAssumption
   DEF Row, RowType, CommandType, Found

(* placementShardKey sends every message to one of the shards.             *)
LEMMA ShardTyping ==
    ASSUME NEW m \in Messages
    PROVE  ShardOf(m) \in Workers
<1>1. CASE m \in Commands
  BY <1>1, CommandsAssumption, HashAssumption DEF ShardOf, CommandType
<1>2. CASE m \notin Commands
  BY <1>2, HashAssumption DEF ShardOf, Messages
<1>. QED  BY <1>1, <1>2

(* Taking a message off the channel keeps the types.                       *)
LEMMA TakeTyping ==
    ASSUME TypeOK, NEW w \in Workers, NEW pc \in Phase,
           NEW e \in RowType \cup {NoPlacement}, NEW s \in ReportStatus \cup {"none"},
           Take(w, pc, e, s)
    PROVE  TypeOK'
<1>1. Head(queue[w]) \in Messages /\ Tail(queue[w]) \in Seq(Messages)
  BY DEF Take, TypeOK
<1>2. worker' \in [Workers -> WorkerType]
  BY <1>1 DEF Take, WorkerType, TypeOK
<1>3. queue' \in [Workers -> Seq(Messages)]
  BY <1>1 DEF Take, TypeOK
<1>. QED  BY <1>2, <1>3 DEF Take, TypeOK, StoreTypeOK

(* So does moving a handler call on.                                       *)
LEMMA GotoTyping ==
    ASSUME TypeOK, NEW w \in Workers, NEW from, NEW to \in Phase,
           NEW s \in ReportStatus \cup {"none"}, Goto(w, from, to, s)
    PROVE  /\ worker[w].pc = from
           /\ worker' \in [Workers -> WorkerType]
           /\ \A v \in Workers : worker'[v].msg = worker[v].msg
           /\ worker'[w].pc = to /\ worker'[w].status = s
           /\ \A v \in Workers \ {w} : worker'[v] = worker[v]
BY ZenonT(40) DEF Goto, TypeOK, WorkerType

-----------------------------------------------------------------------------
(* The inductive invariant.                                                *)

IInv == TypeOK /\ ShardInv /\ HandlerInv

(* The invariant holds when the agent starts with an empty table.          *)
LEMMA InitIInv == Init => IInv
<1> SUFFICES ASSUME Init PROVE IInv
  OBVIOUS
<1>1. TypeOK
  BY DEF Init, TypeOK, StoreInit, StoreTypeOK, Idle, WorkerType, Phase
<1>2. ShardInv
  BY DEF Init, ShardInv, Idle
<1>3. HandlerInv
  BY DEF Init, HandlerInv, CallOK, Idle
<1>. QED  BY <1>1, <1>2, <1>3 DEF IInv

(* Every row the handler writes is a row of the command being handled.     *)
LEMMA PutTyping ==
    ASSUME IInv, NEW w \in Workers, NEW a \in AppliedState,
           worker[w].pc \in {"execute", "persist", "persist_error"},
           PutPlacement(worker[w].msg, a)
    PROVE  /\ worker[w].msg \in Commands
           /\ StoreTypeOK'
           /\ store'[worker[w].msg.pid] = Row(worker[w].msg, a)
           /\ \A p \in Placements \ {worker[w].msg.pid} : store'[p] = store[p]
<1>1. worker[w].msg \in Commands
  BY DEF IInv, HandlerInv, CallOK
<1>. QED  BY <1>1, RowTyping DEF IInv, TypeOK, StoreTypeOK, PutPlacement

(* Every step of the command path keeps the types.                         *)
LEMMA StepTypes ==
    ASSUME IInv, [Next]_vars
    PROVE  TypeOK'
<1> USE DEF IInv
<1>1. ASSUME NEW m \in Messages, Publish(m)
      PROVE  TypeOK'
  BY <1>1 DEF Publish, TypeOK, StoreTypeOK
<1>2. ASSUME NEW m \in Messages, Deliver(m)
      PROVE  TypeOK'
  BY <1>2, ShardTyping DEF Deliver, TypeOK, StoreTypeOK
<1>3. ASSUME NEW w \in Workers, RejectGarbage(w) \/ DropForeign(w) \/ LoadFails(w)
      PROVE  TypeOK'
  BY <1>3, TakeTyping DEF RejectGarbage, DropForeign, LoadFails, Phase
<1>4. ASSUME NEW w \in Workers, SkipStale(w) \/ SkipIdempotent(w) \/ Dispatch(w)
      PROVE  TypeOK'
  <2>1. PICK c \in Commands, pc \in Phase, s \in ReportStatus \cup {"none"} :
             Take(w, pc, store[c.pid], s)
    BY <1>4 DEF SkipStale, SkipIdempotent, Dispatch, Phase, ReportStatus
  <2>2. store[c.pid] \in RowType \cup {NoPlacement}
    BY CommandsAssumption DEF TypeOK, StoreTypeOK, CommandType
  <2>. QED  BY <2>1, <2>2, TakeTyping
<1>5. ASSUME NEW w \in Workers, ExecutorPersists(w)
      PROVE  TypeOK'
  BY <1>5, PutTyping DEF ExecutorPersists, AppliedState, applierVars, TypeOK
<1>6. ASSUME NEW w \in Workers,
             ExecutorSucceeds(w) \/ ExecutorFails(w) \/ ExecutorAsksRetry(w)
                \/ PersistAppliedFails(w) \/ PersistErrorFails(w)
      PROVE  TypeOK'
  BY <1>6, GotoTyping DEF ExecutorSucceeds, ExecutorFails, ExecutorAsksRetry,
     PersistAppliedFails, PersistErrorFails, streamVars, Phase, ReportStatus, TypeOK, StoreTypeOK
<1>7. ASSUME NEW w \in Workers, PersistApplied(w) \/ PersistError(w)
      PROVE  TypeOK'
  <2>1. worker' \in [Workers -> WorkerType]
    BY <1>7, GotoTyping DEF PersistApplied, PersistError, Phase, ReportStatus
  <2>2. StoreTypeOK'
    BY <1>7, PutTyping DEF PersistApplied, PersistError, Goto, AppliedState
  <2>. QED  BY <1>7, <2>1, <2>2 DEF PersistApplied, PersistError, streamVars, TypeOK
<1>8. ASSUME NEW w \in Workers, PublishReport(w) \/ PublishReportFails(w)
      PROVE  TypeOK'
  <2>1. Report(w) \in ReportType
    BY <1>8, RowTyping, CommandsAssumption
       DEF PublishReport, PublishReportFails, Goto, HandlerInv, CallOK, Report, ReportType, CommandType
  <2>2. worker' \in [Workers -> WorkerType]
    BY <1>8, GotoTyping, Zenon DEF PublishReport, PublishReportFails, Phase
  <2>. QED  BY <1>8, <2>1, <2>2
       DEF PublishReport, PublishReportFails, streamVars, TypeOK, StoreTypeOK
<1>9. ASSUME NEW w \in Workers, Ack(w) \/ AckLost(w) \/ Nak(w)
      PROVE  TypeOK'
  BY <1>9 DEF Ack, AckLost, Nak, Idle, WorkerType, Phase, streamVars, TypeOK, StoreTypeOK
<1>10. CASE Crash
  BY <1>10 DEF Crash, AgentRestarts, Idle, WorkerType, Phase, TypeOK, StoreTypeOK
<1>11. CASE UNCHANGED vars
  BY <1>11 DEF vars, applierVars, TypeOK, StoreTypeOK
<1>. QED  BY <1>1, <1>2, <1>3, <1>4, <1>5, <1>6, <1>7, <1>8, <1>9, <1>10, <1>11
          DEF Next, Handle, HandleWorks, HandleFails, Execute

(* Taking the head of a channel keeps every copy in its shard.             *)
LEMMA TakeShard ==
    ASSUME IInv, NEW w \in Workers, NEW pc, NEW e, NEW s, Take(w, pc, e, s)
    PROVE  ShardInv'
<1>1. queue[w] \in Seq(Messages) /\ queue[w] # <<>>
  BY DEF IInv, TypeOK, Take
<1>2. ShardOf(Head(queue[w])) = w
  BY <1>1 DEF IInv, ShardInv
<1>3. \A i \in 1..Len(Tail(queue[w])) : ShardOf(Tail(queue[w])[i]) = w
  <2>1. Len(Tail(queue[w])) = Len(queue[w]) - 1
    BY <1>1
  <2>2. ASSUME NEW i \in 1..Len(Tail(queue[w]))
        PROVE  Tail(queue[w])[i] = queue[w][i + 1] /\ i + 1 \in 1..Len(queue[w])
    BY <1>1, <2>1
  <2>. QED  BY <2>2 DEF IInv, ShardInv
<1>4. \A v \in Workers : queue'[v] = IF v = w THEN Tail(queue[w]) ELSE queue[v]
  BY DEF Take, IInv, TypeOK
<1>5. \A v \in Workers : worker'[v].msg = IF v = w THEN Head(queue[w]) ELSE worker[v].msg
  BY DEF Take, IInv, TypeOK
<1>. QED  BY <1>2, <1>3, <1>4, <1>5, ZenonT(40) DEF IInv, ShardInv, ShardOf

(* Every step keeps every copy of a message in its own shard.              *)
LEMMA StepShard ==
    ASSUME IInv, [Next]_vars
    PROVE  ShardInv'
<1>1. ASSUME NEW m \in Messages, Publish(m)
      PROVE  ShardInv'
  BY <1>1 DEF Publish, IInv, ShardInv, ShardOf
<1>2. ASSUME NEW m \in Messages, Deliver(m)
      PROVE  ShardInv'
  <2> DEFINE w == ShardOf(m)
  <2>1. w \in Workers /\ queue[w] \in Seq(Messages)
    BY ShardTyping DEF IInv, TypeOK
  <2>2. \A v \in Workers : queue'[v] = IF v = w THEN Append(queue[w], m) ELSE queue[v]
    BY <1>2, <2>1 DEF Deliver, IInv, TypeOK
  <2>3. \A i \in 1..Len(Append(queue[w], m)) : ShardOf(Append(queue[w], m)[i]) = w
    <3>1. Len(Append(queue[w], m)) = Len(queue[w]) + 1 /\ Len(queue[w]) \in Nat
      BY <2>1
    <3>2. ASSUME NEW i \in 1..(Len(queue[w]) + 1)
          PROVE  Append(queue[w], m)[i] = IF i = Len(queue[w]) + 1 THEN m ELSE queue[w][i]
      BY <2>1, <3>1
    <3>3. \A i \in 1..Len(queue[w]) : ShardOf(queue[w][i]) = w
      BY <2>1 DEF IInv, ShardInv
    <3>4. \A i \in 1..(Len(queue[w]) + 1) : i = Len(queue[w]) + 1 \/ i \in 1..Len(queue[w])
      BY <3>1
    <3> HIDE DEF w
    <3>5. ShardOf(m) = w
      BY DEF w
    <3>. QED  BY <3>1, <3>2, <3>3, <3>4, <3>5
  <2>4. worker' = worker
    BY <1>2 DEF Deliver
  <2>. QED  BY <2>2, <2>3, <2>4, ZenonT(40) DEF IInv, ShardInv, ShardOf
<1>3. ASSUME NEW w \in Workers,
             \/ RejectGarbage(w) \/ DropForeign(w) \/ LoadFails(w)
             \/ SkipStale(w) \/ SkipIdempotent(w) \/ Dispatch(w)
      PROVE  ShardInv'
  BY <1>3, TakeShard
     DEF RejectGarbage, DropForeign, LoadFails, SkipStale, SkipIdempotent, Dispatch
<1>4. ASSUME NEW w \in Workers, ExecutorPersists(w)
      PROVE  ShardInv'
  BY <1>4 DEF ExecutorPersists, applierVars, IInv, ShardInv, ShardOf
<1>5. ASSUME NEW w \in Workers, NEW from, NEW to, NEW s, Goto(w, from, to, s), queue' = queue
      PROVE  ShardInv'
  BY <1>5 DEF Goto, IInv, TypeOK, WorkerType, ShardInv, ShardOf
<1>6. ASSUME NEW w \in Workers,
             \/ ExecutorSucceeds(w) \/ ExecutorFails(w) \/ ExecutorAsksRetry(w)
             \/ PersistApplied(w) \/ PersistAppliedFails(w)
             \/ PersistError(w) \/ PersistErrorFails(w)
             \/ PublishReport(w) \/ PublishReportFails(w)
      PROVE  ShardInv'
  BY <1>5, <1>6 DEF ExecutorSucceeds, ExecutorFails, ExecutorAsksRetry, PersistApplied,
     PersistAppliedFails, PersistError, PersistErrorFails, PublishReport, PublishReportFails,
     streamVars
<1>7. ASSUME NEW w \in Workers, Ack(w) \/ AckLost(w) \/ Nak(w)
      PROVE  ShardInv'
  <2>1. queue' = queue
    BY <1>7 DEF Ack, AckLost, Nak, streamVars
  <2>2. \A v \in Workers : worker'[v].msg = IF v = w THEN NoMessage ELSE worker[v].msg
    BY <1>7 DEF Ack, AckLost, Nak, Idle, IInv, TypeOK
  <2>. QED  BY <2>1, <2>2 DEF IInv, ShardInv, ShardOf
<1>8. CASE Crash
  BY <1>8 DEF Crash, AgentRestarts, Idle, ShardInv, ShardOf
<1>9. CASE UNCHANGED vars
  BY <1>9 DEF vars, applierVars, IInv, ShardInv, ShardOf
<1>. QED  BY <1>1, <1>2, <1>3, <1>4, <1>6, <1>7, <1>8, <1>9 DEF Next, Handle, HandleWorks, HandleFails, Execute

(* Handler calls for the same placement are the same call.                 *)
LEMMA SameShard ==
    ASSUME IInv, NEW v \in Workers, NEW w \in Workers,
           worker[v].msg \in Commands, worker[w].msg \in Commands,
           worker[v].msg.pid = worker[w].msg.pid
    PROVE  v = w
BY MessageAssumption DEF IInv, ShardInv, ShardOf, Messages

(* A step of worker w that leaves the table and the other calls alone, and *)
(* leaves its own call in a consistent phase.                              *)
LEMMA LocalStep ==
    ASSUME IInv, NEW w \in Workers, store' = store,
           \A v \in Workers \ {w} : worker'[v] = worker[v],
           CallOK(worker'[w], store)
    PROVE  HandlerInv'
BY DEF IInv, HandlerInv, CallOK

(* A step of worker w that writes the row of its own command.              *)
LEMMA WriteStep ==
    ASSUME IInv, NEW w \in Workers, NEW a \in AppliedState,
           worker[w].pc \in {"execute", "persist", "persist_error"},
           PutPlacement(worker[w].msg, a),
           \A v \in Workers \ {w} : worker'[v] = worker[v],
           CallOK(worker'[w], store')
    PROVE  HandlerInv'
<1>1. ASSUME NEW v \in Workers \ {w}
      PROVE  CallOK(worker[v], store')
  <2>1. CASE worker[v].msg \in Commands
    <3>1. worker[w].msg \in Commands /\ worker[v].msg.pid # worker[w].msg.pid
      BY <2>1, PutTyping, SameShard
    <3>2. store'[worker[v].msg.pid] = store[worker[v].msg.pid]
      BY <2>1, <3>1, PutTyping, RowTyping, CommandsAssumption, Zenon DEF CommandType
    <3>. QED  BY <3>2 DEF IInv, HandlerInv, CallOK
  <2>2. CASE worker[v].msg \notin Commands
    BY <2>2 DEF IInv, HandlerInv, CallOK
  <2>. QED  BY <2>1, <2>2, Zenon
<1>. QED  BY <1>1 DEF HandlerInv, CallOK

(* Every step keeps every handler call consistent with the stored row.     *)
LEMMA StepHandler ==
    ASSUME IInv, [Next]_vars
    PROVE  HandlerInv'
<1>1. ASSUME UNCHANGED <<store, worker>>
      PROVE  HandlerInv'
  BY <1>1 DEF IInv, HandlerInv, CallOK
<1>2. ASSUME NEW m \in Messages, Publish(m) \/ Deliver(m)
      PROVE  HandlerInv'
  BY <1>1, <1>2 DEF Publish, Deliver
<1>3. ASSUME NEW w \in Workers, RejectGarbage(w) \/ DropForeign(w) \/ LoadFails(w)
      PROVE  HandlerInv'
  <2>1. /\ worker'[w].pc \in {"nak", "ack"}
        /\ \A v \in Workers \ {w} : worker'[v] = worker[v]
        /\ store' = store
    BY <1>3 DEF RejectGarbage, DropForeign, LoadFails, Take, IInv, TypeOK
  <2>2. CallOK(worker'[w], store)
    BY <2>1 DEF CallOK
  <2>. QED  BY <2>1, <2>2, LocalStep
<1>4. ASSUME NEW w \in Workers, SkipStale(w)
      PROVE  HandlerInv'
  <2> DEFINE c == Head(queue[w])
  <2>1. c \in Commands /\ IsStale(store[c.pid], c)
    BY <1>4 DEF SkipStale
  <2>2. /\ worker'[w].pc = "report" /\ worker'[w].msg = c /\ worker'[w].status = "skipped_stale"
        /\ \A v \in Workers \ {w} : worker'[v] = worker[v]
        /\ store' = store
    BY <1>4 DEF SkipStale, Take, IInv, TypeOK
  <2> HIDE DEF c
  <2>3. CallOK(worker'[w], store)
    BY <2>1, <2>2 DEF CallOK, IsStale, ReportStatus
  <2>. QED  BY <2>2, <2>3, LocalStep
<1>5. ASSUME NEW w \in Workers, SkipIdempotent(w)
      PROVE  HandlerInv'
  <2> DEFINE c == Head(queue[w])
  <2>1. c \in Commands /\ IsIdempotent(store[c.pid], c)
    BY <1>5 DEF SkipIdempotent
  <2>2. /\ worker'[w].pc = "report" /\ worker'[w].msg = c /\ worker'[w].status = "skipped_idempotent"
        /\ \A v \in Workers \ {w} : worker'[v] = worker[v]
        /\ store' = store
    BY <1>5 DEF SkipIdempotent, Take, IInv, TypeOK
  <2> HIDE DEF c
  <2>3. CallOK(worker'[w], store)
    BY <2>1, <2>2 DEF CallOK, IsIdempotent, ReportStatus
  <2>. QED  BY <2>2, <2>3, LocalStep
<1>6. ASSUME NEW w \in Workers, Dispatch(w)
      PROVE  HandlerInv'
  <2> DEFINE c == Head(queue[w])
  <2>1. c \in Commands /\ ~IsStale(store[c.pid], c)
    BY <1>6 DEF Dispatch
  <2>2. /\ worker'[w].pc = "execute" /\ worker'[w].msg = c /\ worker'[w].status = "none"
        /\ \A v \in Workers \ {w} : worker'[v] = worker[v]
        /\ store' = store
    BY <1>6 DEF Dispatch, Take, IInv, TypeOK
  <2> HIDE DEF c
  <2>3. Found(store[c.pid]) => store[c.pid].op <= c.op
    BY <2>1, CommandsAssumption
       DEF IsStale, Found, IInv, TypeOK, StoreTypeOK, CommandType, RowType
  <2>4. CallOK(worker'[w], store)
    BY <2>1, <2>2, <2>3 DEF CallOK
  <2>. QED  BY <2>2, <2>4, LocalStep
<1>7. ASSUME NEW w \in Workers, ExecutorPersists(w)
      PROVE  HandlerInv'
  <2>1. CallOK(worker'[w], store')
    BY <1>7, PutTyping, RowTyping
       DEF ExecutorPersists, applierVars, AppliedState, CallOK, IInv, HandlerInv
  <2>. QED  BY <1>7, <2>1, WriteStep, Zenon DEF ExecutorPersists, applierVars, AppliedState
<1>8. ASSUME NEW w \in Workers, ExecutorSucceeds(w) \/ ExecutorFails(w)
      PROVE  HandlerInv'
  <2>1. /\ worker[w].pc = "execute" /\ worker'[w].pc \in {"persist", "persist_error"}
        /\ worker'[w].msg = worker[w].msg
        /\ \A v \in Workers \ {w} : worker'[v] = worker[v]
        /\ store' = store
    BY <1>8 DEF ExecutorSucceeds, ExecutorFails, Goto, IInv, TypeOK, WorkerType
  <2>2. CallOK(worker'[w], store)
    BY <2>1 DEF CallOK, IInv, HandlerInv
  <2>. QED  BY <2>1, <2>2, LocalStep
<1>9. ASSUME NEW w \in Workers,
              \/ ExecutorAsksRetry(w) \/ PersistAppliedFails(w)
              \/ PublishReport(w) \/ PublishReportFails(w)
       PROVE  HandlerInv'
  <2>1. /\ worker'[w].pc \in {"nak", "ack"}
        /\ \A v \in Workers \ {w} : worker'[v] = worker[v]
        /\ store' = store
    BY <1>9 DEF ExecutorAsksRetry, PersistAppliedFails, PublishReport, PublishReportFails,
       Goto, IInv, TypeOK, WorkerType
  <2>2. CallOK(worker'[w], store)
    BY <2>1 DEF CallOK
  <2>. QED  BY <2>1, <2>2, LocalStep
<1>10. ASSUME NEW w \in Workers, PersistErrorFails(w)
       PROVE  HandlerInv'
  <2>1. /\ worker[w].pc = "persist_error"
        /\ worker'[w].pc = "report" /\ worker'[w].status = "error"
        /\ worker'[w].msg = worker[w].msg
        /\ \A v \in Workers \ {w} : worker'[v] = worker[v]
        /\ store' = store
    BY <1>10 DEF PersistErrorFails, Goto, IInv, TypeOK, WorkerType
  <2>2. CallOK(worker'[w], store)
    BY <2>1 DEF CallOK, ReportStatus, IInv, HandlerInv
  <2>. QED  BY <2>1, <2>2, LocalStep
<1>11. ASSUME NEW w \in Workers, PersistApplied(w)
       PROVE  HandlerInv'
  <2>1. /\ worker[w].pc = "persist"
        /\ worker'[w].pc = "report" /\ worker'[w].status = "applied"
        /\ worker'[w].msg = worker[w].msg
        /\ \A v \in Workers \ {w} : worker'[v] = worker[v]
        /\ PutPlacement(worker[w].msg, "applied")
    BY <1>11 DEF PersistApplied, Goto, IInv, TypeOK, WorkerType
  <2>2. CallOK(worker'[w], store')
    BY <2>1, PutTyping DEF CallOK, ReportStatus, AppliedState
  <2>. QED  BY <2>1, <2>2, WriteStep DEF AppliedState
<1>12. ASSUME NEW w \in Workers, PersistError(w)
       PROVE  HandlerInv'
  <2>1. /\ worker[w].pc = "persist_error"
        /\ worker'[w].pc = "report" /\ worker'[w].status = "error"
        /\ worker'[w].msg = worker[w].msg
        /\ \A v \in Workers \ {w} : worker'[v] = worker[v]
        /\ PutPlacement(worker[w].msg, "error")
    BY <1>12 DEF PersistError, Goto, IInv, TypeOK, WorkerType
  <2>2. CallOK(worker'[w], store')
    BY <2>1, PutTyping DEF CallOK, ReportStatus, AppliedState
  <2>. QED  BY <2>1, <2>2, WriteStep DEF AppliedState
<1>13. ASSUME NEW w \in Workers, Ack(w) \/ AckLost(w) \/ Nak(w)
       PROVE  HandlerInv'
  <2>1. worker'[w] = Idle /\ store' = store /\ \A v \in Workers \ {w} : worker'[v] = worker[v]
    BY <1>13 DEF Ack, AckLost, Nak, IInv, TypeOK
  <2>. QED  BY <2>1, LocalStep DEF CallOK, Idle
<1>14. CASE Crash
  BY <1>14 DEF Crash, AgentRestarts, HandlerInv, CallOK, Idle
<1>15. CASE UNCHANGED vars
  BY <1>1, <1>15 DEF vars, applierVars
<1>. QED  BY <1>2, <1>3, <1>4, <1>5, <1>6, <1>7, <1>8, <1>9, <1>10, <1>11, <1>12, <1>13, <1>14, <1>15
          DEF Next, Handle, HandleWorks, HandleFails, Execute

(* The inductive invariant: types, each copy in its shard, and the row a   *)
(* handler call has read not overtaken by a later version.                 *)
THEOREM Invariance == Spec => []IInv
<1>1. IInv /\ [Next]_vars => IInv'
  BY StepTypes, StepShard, StepHandler DEF IInv
<1>. QED  BY InitIInv, <1>1, PTL DEF Spec

-----------------------------------------------------------------------------
(* What every step does to the table and to the apply results.             *)

(* A table is ahead of another when it has lost no row and no version.     *)
Ahead(new, old) ==
    \A p \in Placements : Found(old[p]) => Found(new[p]) /\ new[p].op >= old[p].op

(* A step either leaves the table alone or writes the row of the command   *)
(* one handler call is at, over no later version.                          *)
LEMMA StepStore ==
    ASSUME IInv, [Next]_vars
    PROVE  \/ store' = store
           \/ /\ reports' = reports
              /\ \E c \in Commands, a \in AppliedState :
                   /\ PutPlacement(c, a)
                   /\ Found(store[c.pid]) => store[c.pid].op <= c.op
<1>1. ASSUME NEW w \in Workers, ExecutorPersists(w) \/ PersistApplied(w) \/ PersistError(w)
      PROVE  /\ reports' = reports
             /\ \E c \in Commands, a \in AppliedState :
                  /\ PutPlacement(c, a)
                  /\ Found(store[c.pid]) => store[c.pid].op <= c.op
  <2>1. /\ worker[w].pc \in {"execute", "persist", "persist_error"}
        /\ reports' = reports
        /\ PutPlacement(worker[w].msg, "applied") \/ PutPlacement(worker[w].msg, "error")
    BY <1>1 DEF ExecutorPersists, PersistApplied, PersistError, Goto, applierVars
  <2>2. /\ worker[w].msg \in Commands
        /\ Found(store[worker[w].msg.pid]) => store[worker[w].msg.pid].op <= worker[w].msg.op
    BY <2>1 DEF IInv, HandlerInv, CallOK
  <2>. QED  BY <2>1, <2>2 DEF AppliedState
<1>2. ASSUME ~ \E w \in Workers : ExecutorPersists(w) \/ PersistApplied(w) \/ PersistError(w)
      PROVE  store' = store
  BY <1>2, ZenonT(40)
     DEF Next, Handle, HandleWorks, HandleFails, Execute, Publish, Deliver, RejectGarbage, DropForeign, LoadFails,
     SkipStale, SkipIdempotent, Dispatch, Take, ExecutorSucceeds, ExecutorFails,
     ExecutorAsksRetry, PersistAppliedFails, PersistErrorFails, PublishReport,
     PublishReportFails, Ack, AckLost, Nak, Crash, AgentRestarts, vars
<1>. QED  BY <1>1, <1>2

(* So no step takes a version back.                                        *)
LEMMA StepAhead ==
    ASSUME IInv, [Next]_vars
    PROVE  Ahead(store', store)
<1>1. CASE store' = store
  BY <1>1 DEF Ahead, Found, IInv, TypeOK, StoreTypeOK, RowType
<1>2. ASSUME NEW c \in Commands, NEW a \in AppliedState, PutPlacement(c, a),
             Found(store[c.pid]) => store[c.pid].op <= c.op
      PROVE  Ahead(store', store)
  <2>1. /\ store'[c.pid] = Row(c, a)
        /\ \A p \in Placements \ {c.pid} : store'[p] = store[p]
    BY <1>2, RowTyping, Zenon DEF PutPlacement, IInv, TypeOK, StoreTypeOK
  <2>. QED  BY <1>2, <2>1, RowTyping DEF Ahead, Found, IInv, TypeOK, StoreTypeOK, RowType
<1>. QED  BY <1>1, <1>2, StepStore

(* What a step of Applier.Handle outside its executor does to its call and *)
(* to the table.                                                           *)
LEMMA HandleEffect ==
    ASSUME TypeOK, NEW w \in Workers, Handle(w)
    PROVE  /\ worker[w].pc # "execute" /\ worker'[w].pc # "persist"
           /\ worker[w].pc = "idle" => queue[w] # <<>>
           /\ \A v \in Workers \ {w} : worker'[v] = worker[v]
           /\ worker'[w].pc = "execute" =>
                 /\ store' = store /\ worker'[w].msg \in Commands
                 /\ worker'[w].existing = store[worker'[w].msg.pid]
                 /\ ~IsStale(worker'[w].existing, worker'[w].msg)
                 /\ ~IsIdempotent(worker'[w].existing, worker'[w].msg)
           /\ \/ store' = store
              \/ worker[w].pc = "persist" /\ PutPlacement(worker[w].msg, "applied")
              \/ worker[w].pc = "persist_error" /\ PutPlacement(worker[w].msg, "error")
<1>1. CASE RejectGarbage(w) \/ DropForeign(w) \/ LoadFails(w) \/ SkipStale(w) \/ SkipIdempotent(w)
  BY <1>1 DEF RejectGarbage, DropForeign, LoadFails, SkipStale, SkipIdempotent, Take, TypeOK
<1>2. CASE Dispatch(w)
  BY <1>2 DEF Dispatch, Take, TypeOK
<1>3. CASE PersistApplied(w) \/ PersistError(w)
  BY <1>3 DEF PersistApplied, PersistError, Goto, TypeOK, WorkerType
<1>4. CASE PersistAppliedFails(w) \/ PersistErrorFails(w)
  BY <1>4 DEF PersistAppliedFails, PersistErrorFails, Goto, TypeOK, WorkerType
<1>5. CASE PublishReport(w) \/ PublishReportFails(w)
  BY <1>5 DEF PublishReport, PublishReportFails, Goto, TypeOK, WorkerType
<1>6. CASE Ack(w) \/ AckLost(w) \/ Nak(w)
  BY <1>6 DEF Ack, AckLost, Nak, Idle, TypeOK
<1>. QED  BY <1>1, <1>2, <1>3, <1>4, <1>5, <1>6, Zenon DEF Handle, HandleWorks, HandleFails

(* A call's command, and that no other call is at its placement.           *)
LEMMA CallAlone ==
    ASSUME IInv, NEW v \in Workers, NEW w \in Workers, v # w,
           worker[v].pc \in {"execute", "persist"},
           worker[w].pc \in {"execute", "persist", "persist_error"}
    PROVE  /\ worker[v].msg \in Commands /\ worker[w].msg \in Commands
           /\ worker[v].msg.pid \in Placements
           /\ worker[v].msg.pid # worker[w].msg.pid
<1>1. worker[v].msg \in Commands /\ worker[w].msg \in Commands
  BY Zenon DEF IInv, HandlerInv, CallOK
<1>. QED  BY <1>1, SameShard, RowTyping DEF AppliedState

(* The result that worker w is about to publish.                           *)
LEMMA ReportTyping ==
    ASSUME IInv, NEW w \in Workers, worker[w].pc = "report"
    PROVE  /\ worker[w].msg \in Commands /\ worker[w].status \in ReportStatus
           /\ Report(w) \in ReportType
           /\ Report(w).pid = worker[w].msg.pid
           /\ Report(w).op = worker[w].msg.op
           /\ Report(w).status = worker[w].status
BY CommandsAssumption DEF IInv, HandlerInv, CallOK, Report, ReportType, CommandType

(* A step adds at most the result one handler call is about to publish.    *)
LEMMA StepReports ==
    ASSUME IInv, [Next]_vars
    PROVE  \/ reports' = reports
           \/ /\ store' = store
              /\ \E w \in Workers : /\ worker[w].pc = "report"
                                    /\ reports' = reports \cup {Report(w)}
BY Zenon
   DEF Next, Handle, HandleWorks, HandleFails, Execute, Publish, Deliver, RejectGarbage, DropForeign, LoadFails,
   SkipStale, SkipIdempotent, Dispatch, Take, ExecutorPersists, ExecutorSucceeds,
   ExecutorFails, ExecutorAsksRetry, PersistApplied, PersistAppliedFails, PersistError,
   PersistErrorFails, PublishReport, PublishReportFails, Ack, AckLost, Nak, Crash, AgentRestarts, Goto,
   vars, applierVars

-----------------------------------------------------------------------------
(* The theorems.                                                           *)

(* Every variable of the command path keeps its type, whatever is          *)
(* delivered, fails or crashes.                                            *)
THEOREM TypeCorrect == Spec => []TypeOK
<1>1. IInv => TypeOK
  BY DEF IInv
<1>. QED  BY Invariance, <1>1, PTL

(* The version check at the start of Applier.Handle is enough: a stored    *)
(* op_version never goes back and a row never disappears.                  *)
THEOREM VersionsNeverRegress == Spec => OpVersionNeverRegresses
<1>1. IInv /\ [Next]_vars => [VersionsKept]_store
  BY StepAhead DEF Ahead, VersionsKept
<1>. QED  BY Invariance, <1>1, PTL DEF Spec, OpVersionNeverRegresses

(* Sharding by placement ID serialises the handler calls of a placement,   *)
(* redelivered copies included.                                            *)
THEOREM HandlersAreSerial == Spec => []OneHandlerPerPlacement
<1>1. IInv => OneHandlerPerPlacement
  BY SameShard DEF OneHandlerPerPlacement
<1>. QED  BY Invariance, <1>1, PTL

(* What publishReport has told the control plane stays true of the table.  *)
THEOREM ReportsStayTrue == Spec => []ReportsAreDurable
<1>1. Init => ReportsAreDurable
  BY DEF Init, ReportsAreDurable
<1>2. ASSUME IInv, ReportsAreDurable, [Next]_vars
      PROVE  ReportsAreDurable'
  <2>1. CASE reports' = reports
    <3>1. ASSUME NEW r \in reports, Found(store[r.pid])
          PROVE  /\ Found(store'[r.pid]) /\ store'[r.pid].op >= store[r.pid].op
                 /\ store[r.pid].op \in Nat /\ store'[r.pid].op \in Nat /\ r.op \in Nat
      BY <1>2, <3>1, StepAhead, StepTypes
         DEF Ahead, IInv, TypeOK, StoreTypeOK, ReportType, RowType, Found
    <3>. QED  BY <1>2, <2>1, <3>1 DEF ReportsAreDurable
  <2>2. ASSUME NEW w \in Workers, worker[w].pc = "report", reports' = reports \cup {Report(w)},
               store' = store
        PROVE  ReportsAreDurable'
    <3> DEFINE r == Report(w)
    <3>1. /\ r.status \in {"applied", "skipped_idempotent"} =>
                 Found(store[r.pid]) /\ store[r.pid].op >= r.op
          /\ r.status = "skipped_stale" => Found(store[r.pid]) /\ store[r.pid].op > r.op
      BY <1>2, <2>2, ReportTyping, RowTyping DEF IInv, HandlerInv, CallOK, AppliedState
    <3>. QED  BY <1>2, <2>2, <3>1, Zenon DEF ReportsAreDurable
  <2>. QED  BY <1>2, <2>1, <2>2, StepReports
<1>. QED  BY Invariance, <1>1, <1>2, PTL DEF Spec

(* The command c has been answered on the result subject, with an error or *)
(* with its version, or a later one, in the table.                         *)
Answered(c, rs, st) ==
    \E r \in rs :
        /\ r.pid = c.pid /\ r.op = c.op
        /\ r.status = "error" \/ (Found(st[c.pid]) /\ st[c.pid].op >= c.op)

(* A handler call that is about to ack a command has answered it.          *)
AckInv ==
    \A w \in Workers :
        worker[w].pc = "ack" /\ worker[w].msg \in Commands => Answered(worker[w].msg, reports, store)

(* An answer, once given, stays given.                                     *)
LEMMA AnsweredStable ==
    ASSUME IInv, [Next]_vars, NEW c \in Commands, Answered(c, reports, store)
    PROVE  Answered(c, reports', store')
<1>1. PICK r \in reports :
        /\ r.pid = c.pid /\ r.op = c.op
        /\ r.status = "error" \/ (Found(store[c.pid]) /\ store[c.pid].op >= c.op)
  BY Zenon DEF Answered
<1>2. r \in reports'
  BY <1>1, StepReports
<1>3. Found(store[c.pid]) /\ store[c.pid].op >= c.op =>
        Found(store'[c.pid]) /\ store'[c.pid].op >= c.op
  <2>1. c.pid \in Placements /\ c.op \in Nat
    BY CommandsAssumption DEF CommandType
  <2>. QED  BY <2>1, StepAhead, StepTypes DEF Ahead, IInv, TypeOK, StoreTypeOK, RowType, Found
<1>. QED  BY <1>1, <1>2, <1>3 DEF Answered

(* Every step keeps a call that is about to ack answered.                  *)
LEMMA StepAck ==
    ASSUME IInv, AckInv, [Next]_vars
    PROVE  AckInv'
<1>1. SUFFICES ASSUME NEW w \in Workers, worker'[w].pc = "ack", worker'[w].msg \in Commands
               PROVE  Answered(worker'[w].msg, reports', store')
  BY DEF AckInv, Answered
<1>2. CASE worker[w].pc = "ack" /\ worker'[w].msg = worker[w].msg
  BY <1>1, <1>2, AnsweredStable DEF AckInv, Answered
<1>3. ASSUME PublishReport(w)
      PROVE  Answered(worker'[w].msg, reports', store')
  <2>1. /\ worker[w].pc = "report" /\ worker'[w].msg = worker[w].msg
        /\ Report(w) \in reports' /\ store' = store
    BY <1>3 DEF PublishReport, Goto, IInv, TypeOK, WorkerType
  <2>2. /\ worker[w].msg \in Commands
        /\ Report(w).pid = worker[w].msg.pid /\ Report(w).op = worker[w].msg.op
        /\ Report(w).status = worker[w].status /\ worker[w].status \in ReportStatus
    BY <2>1, ReportTyping, Zenon
  <2>3. \/ worker[w].status = "error"
        \/ Found(store[worker[w].msg.pid]) /\ store[worker[w].msg.pid].op >= worker[w].msg.op
    BY <2>1, <2>2, RowTyping, SMTT(30)
       DEF IInv, HandlerInv, CallOK, ReportStatus, AppliedState, TypeOK, StoreTypeOK, RowType, Found
  <2>. QED  BY <2>1, <2>2, <2>3 DEF Answered
<1>4. \/ worker[w].pc = "ack" /\ worker'[w].msg = worker[w].msg
      \/ PublishReport(w)
  <2>1. CASE worker'[w] = worker[w]
    BY <1>1, <2>1
  <2>2. ASSUME worker'[w] # worker[w], NEW v \in Workers, Handle(v) \/ Execute(v)
        PROVE  v = w
    BY <2>2 DEF Handle, HandleWorks, HandleFails, Execute, RejectGarbage, DropForeign, LoadFails, SkipStale,
       SkipIdempotent, Dispatch, Take, ExecutorPersists, ExecutorSucceeds, ExecutorFails,
       ExecutorAsksRetry, PersistApplied, PersistAppliedFails, PersistError,
       PersistErrorFails, PublishReport, PublishReportFails, Ack, AckLost, Nak, Goto,
       applierVars, IInv, TypeOK
  <2>3. ASSUME DropForeign(w)
        PROVE  FALSE
    <3>1. worker'[w].msg \in Foreign
      BY <2>3 DEF DropForeign, Take, IInv, TypeOK
    <3>. QED  BY <1>1, <3>1, MessageAssumption
  <2>4. ASSUME Handle(w) \/ Execute(w), worker'[w] # worker[w], ~DropForeign(w)
        PROVE  PublishReport(w)
    BY <1>1, <2>4 DEF Handle, HandleWorks, HandleFails, Execute, RejectGarbage, LoadFails, SkipStale,
       SkipIdempotent, Dispatch, Take, ExecutorPersists, ExecutorSucceeds, ExecutorFails,
       ExecutorAsksRetry, PersistApplied, PersistAppliedFails, PersistError,
       PersistErrorFails, PublishReportFails, Ack, AckLost, Nak, Goto, Idle,
       applierVars, IInv, TypeOK, WorkerType
  <2>5. CASE Crash
    BY <1>1, <2>5 DEF Crash, AgentRestarts, Idle
  <2>6. ASSUME NEW m \in Messages, Publish(m) \/ Deliver(m)
        PROVE  worker'[w] = worker[w]
    BY <2>6 DEF Publish, Deliver
  <2>7. CASE UNCHANGED vars
    BY <2>1, <2>7 DEF vars, applierVars
  <2>. QED  BY <2>1, <2>2, <2>3, <2>4, <2>5, <2>6, <2>7 DEF Next
<1>. QED  BY <1>2, <1>3, <1>4

(* A command is dropped from the stream only by the ack of a handler call  *)
(* for it.                                                                 *)
LEMMA StepSettled ==
    ASSUME IInv, [Next]_vars,
           NEW c \in Commands, c \in published', c \notin unacked'
    PROVE  \/ c \in published /\ c \notin unacked
           \/ \E w \in Workers : worker[w].pc = "ack" /\ worker[w].msg = c
BY ZenonT(40)
   DEF Next, Handle, HandleWorks, HandleFails, Execute, Publish, Deliver, RejectGarbage, DropForeign, LoadFails,
   SkipStale, SkipIdempotent, Dispatch, Take, ExecutorPersists, ExecutorSucceeds,
   ExecutorFails, ExecutorAsksRetry, PersistApplied, PersistAppliedFails, PersistError,
   PersistErrorFails, PublishReport, PublishReportFails, Ack, AckLost, Nak, Crash, AgentRestarts,
   vars, applierVars, streamVars

(* No command leaves the stream without its apply result: the report is    *)
(* published before the ack, and every error path before it ends in a Nak. *)
THEOREM CommandsAreAnswered == Spec => []NoSilentLoss
<1>1. Init => AckInv /\ NoSilentLoss
  BY DEF Init, AckInv, NoSilentLoss, Idle
<1>2. ASSUME IInv, AckInv, NoSilentLoss, [Next]_vars
      PROVE  NoSilentLoss'
  <2>1. \A c \in Commands \cap (published \ unacked) : Answered(c, reports, store)
    BY <1>2 DEF NoSilentLoss, Answered
  <2>2. ASSUME NEW c \in Commands, c \in published', c \notin unacked'
        PROVE  Answered(c, reports', store')
    BY <1>2, <2>1, <2>2, StepSettled, AnsweredStable DEF AckInv
  <2>. QED  BY <2>2 DEF NoSilentLoss, Answered
<1>. QED  BY Invariance, <1>1, <1>2, StepAck, PTL DEF Spec

-----------------------------------------------------------------------------

(* The command path implements the register: every step maps to accepting  *)
(* a command, to answering one, or to nothing.                             *)
THEOREM Refinement == Spec => ImplementsRegister
<1>1. Init => Register!Init
  BY Zenon DEF Init, StoreInit, Register!Init, Register!StoreInit
<1>2. ASSUME IInv, [Next]_vars
      PROVE  [Register!Next]_<<store, reports>>
  <2>1. CASE UNCHANGED <<store, reports>>
    BY <2>1
  <2>2. ASSUME NEW c \in Commands, NEW a \in AppliedState, PutPlacement(c, a),
               Found(store[c.pid]) => store[c.pid].op <= c.op, reports' = reports
        PROVE  Register!Next
    BY <2>2, Zenon DEF Register!Next, Register!Accept, Register!PutPlacement, Register!Found,
       Register!Row, Register!AppliedState, PutPlacement, Found, Row, AppliedState
  <2>3. ASSUME NEW w \in Workers, worker[w].pc = "report", reports' = reports \cup {Report(w)},
               store' = store
        PROVE  Register!Next
    <3> DEFINE c == worker[w].msg
               status == worker[w].status
    <3>1. /\ c \in Commands /\ status \in ReportStatus
          /\ reports' = reports \cup {[pid |-> c.pid, op |-> c.op, status |-> status]}
      BY <1>2, <2>3, ReportTyping, Zenon DEF Report
    <3>2. Register!Answer(c, status)
      BY <1>2, <2>3, <3>1 DEF Register!Answer, Register!Found, Register!Row, Found, Row,
         IInv, HandlerInv, CallOK
    <3>. QED  BY <3>1, <3>2 DEF Register!Next, Register!ReportStatus, ReportStatus
  <2>. QED  BY <1>2, <2>1, <2>2, <2>3, StepStore, StepReports
<1>. QED  BY Invariance, <1>1, <1>2, PTL DEF Spec, ImplementsRegister, Register!Spec
=============================================================================
