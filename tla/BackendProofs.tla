---------------------------- MODULE BackendProofs ---------------------------
(***************************************************************************)
(* BackendExecutor keeps the executor contract of module Applier, for any  *)
(* placements, commands, shards and failures; and xray has the users the   *)
(* table says it has.                                                      *)
(*                                                                         *)
(* The second part rests on what a call of BackendExecutor.Apply knows.    *)
(* ExecInv: the row it was given is still the stored one, until its own    *)
(* PutPlacement.  StartInv: nothing is handled before the startup rebuild  *)
(* is over.  GoneInv and AddedInv: what its xray call has achieved still   *)
(* holds when the row is stored, since nobody else adds or removes that    *)
(* client.                                                                 *)
(***************************************************************************)
EXTENDS BackendNode, ApplierProofs

(* Every step of BackendExecutor.Apply is a step the contract allows, or   *)
(* leaves the command path alone.                                          *)
LEMMA ApplyIsExecute ==
    ASSUME NEW w \in Workers, Apply(w)
    PROVE  Execute(w) \/ UNCHANGED vars
<1>1. CASE XrayCall(w)
  BY <1>1 DEF XrayCall
<1>2. CASE XrayCallFails(w) \/ ApplyPutFails(w)
  BY <1>2 DEF XrayCallFails, ApplyPutFails, Execute
<1>3. CASE ApplyPuts(w)
  BY <1>3 DEF ApplyPuts, Execute
<1>4. CASE ApplyReturns(w)
  BY <1>4 DEF ApplyReturns, Execute
<1>5. QED
  BY <1>1, <1>2, <1>3, <1>4 DEF Apply, ApplyWorks

(* A rebuild never touches the table or the stream.                        *)
LEMMA RebuildIsLocal ==
    ASSUME RebuildStep
    PROVE  UNCHANGED vars
BY DEF RebuildStep, RebuildWorks, RebuildLists, RebuildListFails, RebuildAdds, RebuildAddFails, RebuildEnds

(* Every step of a backend node is a step of the command path, or leaves   *)
(* the command path alone.                                                 *)
LEMMA BackendCommandStep ==
    ASSUME [BackendNext]_nodeVars
    PROVE  [Next]_vars
<1>1. CASE UNCHANGED nodeVars
  BY <1>1 DEF nodeVars
<1>2. CASE \E m \in Messages : Publish(m) \/ Deliver(m)
  BY <1>2 DEF Next
<1>3. CASE \E w \in Workers : Handle(w)
  BY <1>3 DEF Next
<1>4. CASE \E w \in Workers : Apply(w)
  BY <1>4, ApplyIsExecute DEF Next
<1>5. CASE RebuildStep
  BY <1>5, RebuildIsLocal
<1>6. CASE AgentCrash
  BY <1>6 DEF AgentCrash, Next
<1>7. CASE XrayRestarts
  BY <1>7 DEF XrayRestarts
<1>. QED
  BY <1>1, <1>2, <1>3, <1>4, <1>5, <1>6, <1>7 DEF BackendNext

(* A backend node behaves towards the control plane as the command path    *)
(* with an executor that keeps the contract: rebuilds, xray failures and   *)
(* restarts of xray included.                                              *)
THEOREM ContractKept == BackendSpec => KeepsExecutorContract
<1>1. BackendInit => Init
  BY DEF BackendInit
<1>. QED
  BY <1>1, BackendCommandStep, PTL DEF BackendSpec, KeepsExecutorContract, Spec

(* On a backend node no command leaves the stream unanswered, apply        *)
(* results stay true of the table and versions never go back.              *)
THEOREM BackendCommandPath ==
    BackendSpec => [](NoSilentLoss /\ ReportsAreDurable) /\ OpVersionNeverRegresses
BY ContractKept, CommandsAreAnswered, ReportsStayTrue, VersionsNeverRegress, PTL
   DEF KeepsExecutorContract

-----------------------------------------------------------------------------
(* The users of xray.                                                      *)

(* What the control plane sees to: a placement keeps its client, and no    *)
(* other placement of this node has that client.                           *)
OneClientEach == \A c, d \in Commands : c.pid = d.pid <=> c.client = d.client

(* xray keeps its users and answers, and the table can be read and         *)
(* written.  The stream, the process and the publisher may still fail.     *)
XrayAndStoreWork == Faults \cap {"xray", "execute", "store"} = {}

(* Until it stores the command's row, a call of Apply has the stored row   *)
(* in hand; from then on until the handler stores it again it is there.    *)
CallKnows(wk, at, st) ==
    /\ wk.pc # "execute" => at = "call"
    /\ wk.pc = "execute" /\ at # "return" => wk.existing = st[wk.msg.pid]
    /\ wk.pc = "persist" \/ (wk.pc = "execute" /\ at = "return") =>
           st[wk.msg.pid] = Row(wk.msg, "applied")

ExecInv == \A w \in Workers : CallKnows(worker[w], step[w], store)

(* Nothing is handled before the startup rebuild is over.                  *)
StartInv ==
    /\ ~Consuming => \A w \in Workers : queue[w] = <<>> /\ worker[w].pc = "idle"
    /\ rebuild.pc \in {"idle", "starting"} => rebuild.toAdd = {}
    /\ rebuild.pc = "running" => Reconciling

(* Every row was stored for a command.                                     *)
RowInv ==
    \A p \in Placements :
        Found(store[p]) => \E c \in Commands : c.pid = p /\ c.client = store[p].client

(* A user that Apply has removed stays out until the row is stored.        *)
GoneInv ==
    \A w \in Workers :
        /\ Applying(w, "put") /\ ~NowActive(worker[w].msg) /\ WasActive(worker[w].existing)
        => worker[w].existing.client \notin users

(* A user that Apply has added stays in until the row is stored.           *)
AddedInv ==
    \A w \in Workers :
        Applying(w, "put") /\ NowActive(worker[w].msg) => worker[w].msg.client \in users

(* A call of Apply is about to store that placement p is not served.       *)
Ending(p) == \E w \in Workers :
    Applying(w, "put") /\ worker[w].msg.pid = p /\ ~NowActive(worker[w].msg)

(* The user of every served placement stays in until then; at startup the  *)
(* rebuild has the missing ones in hand.                                   *)
PresentInv ==
    /\ Consuming =>
           \A p \in Placements : WasActive(store[p]) /\ ~Ending(p) => store[p].client \in users
    /\ rebuild.pc = "startup" =>
           \A p \in Placements : WasActive(store[p]) => store[p].client \in users \cup rebuild.toAdd

BInv == IInv /\ BackendTypeOK /\ ExecInv /\ StartInv /\ RowInv

(* Types of the node's own variables.                                      *)
LEMMA BackendTypesKept ==
    ASSUME BInv, [BackendNext]_nodeVars, TypeOK'
    PROVE  BackendTypeOK'
<1>. USE DEF BInv, BackendTypeOK
<1>1. CASE UNCHANGED backendVars
  BY <1>1 DEF backendVars
<1>2. ASSUME NEW w \in Workers, XrayCall(w)
      PROVE  BackendTypeOK'
  <2>1. worker[w].msg \in Commands
    BY <1>2 DEF XrayCall, Applying, IInv, HandlerInv, CallOK
  <2>2. worker[w].msg.client \in Clients
    BY <2>1, CommandsAssumption DEF CommandType
  <2>. QED  BY <1>2, <2>2 DEF XrayCall
<1>3. ASSUME NEW w \in Workers, XrayCallFails(w)
      PROVE  BackendTypeOK'
  <2>1. worker[w].msg \in Commands
    BY <1>3 DEF XrayCallFails, Applying, IInv, HandlerInv, CallOK
  <2>2. worker[w].msg.client \in Clients
    BY <2>1, CommandsAssumption DEF CommandType
  <2>. QED  BY <1>3, <2>2 DEF XrayCallFails
<1>4. ASSUME NEW w \in Workers, ApplyPuts(w) \/ ApplyPutFails(w) \/ ApplyReturns(w)
      PROVE  BackendTypeOK'
  BY <1>4 DEF ApplyPuts, ApplyPutFails, ApplyReturns
<1>5. CASE RebuildLists
  <2>1. ServingClients \subseteq Clients
    BY DEF ServingClients, ListPlacements, Found, TypeOK, StoreTypeOK, RowType
  <2>. QED  BY <1>5, <2>1 DEF RebuildLists
<1>6. CASE RebuildListFails \/ RebuildEnds
  BY <1>6 DEF RebuildListFails, RebuildEnds, NoRebuild
<1>7. ASSUME NEW u \in Clients, RebuildAdds(u) \/ RebuildAddFails(u)
      PROVE  BackendTypeOK'
  BY <1>7 DEF RebuildAdds, RebuildAddFails
<1>8. CASE AgentCrash
  BY <1>8 DEF AgentCrash, StartupRebuild
<1>9. CASE XrayRestarts
  BY <1>9 DEF XrayRestarts
<1>. QED
  BY <1>1, <1>2, <1>3, <1>4, <1>5, <1>6, <1>7, <1>8, <1>9
     DEF BackendNext, Apply, ApplyWorks, RebuildStep, RebuildWorks, nodeVars

(* A call that a step does not concern keeps what it knows, if the step    *)
(* leaves the row of its placement alone.                                  *)
LEMMA OthersKnow ==
    ASSUME BInv, NEW v \in Workers, worker'[v] = worker[v], step'[v] = step[v],
           worker[v].pc \in {"execute", "persist"} =>
               store'[worker[v].msg.pid] = store[worker[v].msg.pid]
    PROVE  CallKnows(worker'[v], step'[v], store')
BY DEF BInv, ExecInv, CallKnows

(* A write for the command of one call leaves the rows of the others.      *)
LEMMA OthersRows ==
    ASSUME BInv, NEW w \in Workers, NEW a \in AppliedState,
           worker[w].pc \in {"execute", "persist", "persist_error"},
           PutPlacement(worker[w].msg, a), NEW v \in Workers \ {w},
           worker[v].pc \in {"execute", "persist"}
    PROVE  store'[worker[v].msg.pid] = store[worker[v].msg.pid]
<1>1. worker[v].msg.pid \in Placements /\ worker[v].msg.pid # worker[w].msg.pid
  BY CallAlone DEF BInv
<1>. QED  BY <1>1 DEF PutPlacement, BInv, IInv, TypeOK, StoreTypeOK

(* Every step keeps what the calls of BackendExecutor.Apply know.          *)
LEMMA StepExec ==
    ASSUME BInv, [BackendNext]_nodeVars
    PROVE  ExecInv'
<1>1. CASE UNCHANGED <<store, worker, step>>
  BY <1>1 DEF BInv, ExecInv, CallKnows
<1>2. ASSUME NEW w \in Workers, Handle(w), UNCHANGED backendVars
      PROVE  ExecInv'
  <2>1. step' = step /\ TypeOK
    BY <1>2 DEF backendVars, BInv, IInv
  <2>2. ASSUME NEW v \in Workers \ {w}
        PROVE  CallKnows(worker'[v], step'[v], store')
    <3>1. worker'[v] = worker[v]
      BY <1>2, <2>1, HandleEffect
    <3>2. worker[v].pc \in {"execute", "persist"} =>
              store'[worker[v].msg.pid] = store[worker[v].msg.pid]
      <4>1. \/ store' = store
            \/ worker[w].pc = "persist" /\ PutPlacement(worker[w].msg, "applied")
            \/ worker[w].pc = "persist_error" /\ PutPlacement(worker[w].msg, "error")
        BY <1>2, <2>1, HandleEffect
      <4>2. CASE worker[w].pc = "persist" /\ PutPlacement(worker[w].msg, "applied")
        BY <4>2, OthersRows DEF AppliedState
      <4>3. CASE worker[w].pc = "persist_error" /\ PutPlacement(worker[w].msg, "error")
        BY <4>3, OthersRows DEF AppliedState
      <4>. QED  BY <4>1, <4>2, <4>3
    <3>. QED  BY <2>1, <3>1, <3>2, OthersKnow
  <2>3. CallKnows(worker'[w], step'[w], store')
    BY <1>2, <2>1, HandleEffect DEF BInv, ExecInv, CallKnows
  <2>. QED  BY <2>2, <2>3 DEF ExecInv
<1>3. ASSUME NEW w \in Workers, XrayCall(w)
      PROVE  ExecInv'
  <2>1. /\ UNCHANGED <<store, worker>> /\ worker[w].pc = "execute" /\ step[w] = "call"
        /\ step' = [step EXCEPT ![w] = "put"]
    BY <1>3 DEF XrayCall, Applying, vars, applierVars
  <2>. QED  BY <2>1 DEF BInv, BackendTypeOK, ExecInv, CallKnows
<1>4. ASSUME NEW w \in Workers, XrayCallFails(w) \/ ApplyPutFails(w)
      PROVE  ExecInv'
  <2>1. /\ UNCHANGED store /\ Goto(w, "execute", "persist_error", "none")
        /\ step' = [step EXCEPT ![w] = "call"]
    BY <1>4 DEF XrayCallFails, ApplyPutFails, Applying, ExecutorFails, BInv, BackendTypeOK
  <2>2. \A v \in Workers \ {w} : worker'[v] = worker[v] /\ step'[v] = step[v]
    BY <2>1 DEF Goto, BInv, IInv, TypeOK, BackendTypeOK
  <2>3. worker'[w].pc = "persist_error" /\ step'[w] = "call"
    BY <2>1 DEF Goto, BInv, IInv, TypeOK, WorkerType, BackendTypeOK
  <2>. QED  BY <2>1, <2>2, <2>3, OthersKnow DEF ExecInv, CallKnows
<1>5. ASSUME NEW w \in Workers, ApplyPuts(w)
      PROVE  ExecInv'
  <2>1. /\ worker' = worker /\ worker[w].pc = "execute"
        /\ step' = [step EXCEPT ![w] = "return"]
        /\ PutPlacement(worker[w].msg, "applied")
    BY <1>5 DEF ApplyPuts, ExecutorPersists, applierVars
  <2>2. ASSUME NEW v \in Workers \ {w}
        PROVE  CallKnows(worker'[v], step'[v], store')
    BY <2>1, OthersKnow, OthersRows DEF BInv, BackendTypeOK, AppliedState
  <2>3. store'[worker[w].msg.pid] = Row(worker[w].msg, "applied")
    BY <2>1, PutTyping DEF BInv, AppliedState
  <2>4. CallKnows(worker'[w], step'[w], store')
    BY <2>1, <2>3 DEF CallKnows, BInv, BackendTypeOK
  <2>. QED  BY <2>2, <2>4 DEF ExecInv
<1>6. ASSUME NEW w \in Workers, ApplyReturns(w)
      PROVE  ExecInv'
  <2>1. /\ UNCHANGED store /\ Goto(w, "execute", "persist", "none") /\ step[w] = "return"
        /\ step' = [step EXCEPT ![w] = "call"]
    BY <1>6 DEF ApplyReturns, Applying, ExecutorSucceeds
  <2>2. \A v \in Workers \ {w} : worker'[v] = worker[v] /\ step'[v] = step[v]
    BY <2>1 DEF Goto, BInv, IInv, TypeOK, BackendTypeOK
  <2>3. worker'[w].pc = "persist" /\ step'[w] = "call" /\ worker'[w].msg = worker[w].msg
    BY <2>1 DEF Goto, BInv, IInv, TypeOK, WorkerType, BackendTypeOK
  <2>4. store[worker[w].msg.pid] = Row(worker[w].msg, "applied")
    BY <2>1 DEF Goto, BInv, ExecInv, CallKnows
  <2>. QED  BY <2>1, <2>2, <2>3, <2>4, OthersKnow DEF ExecInv, CallKnows
<1>7. CASE AgentCrash
  BY <1>7 DEF AgentCrash, Crash, AgentRestarts, Idle, ExecInv, CallKnows
<1>8. ASSUME \/ \E m \in Messages : (Publish(m) \/ Deliver(m)) /\ UNCHANGED backendVars
             \/ RebuildStep \/ XrayRestarts \/ UNCHANGED nodeVars
      PROVE  UNCHANGED <<store, worker, step>>
  BY <1>8 DEF Publish, Deliver, backendVars, RebuildStep, RebuildWorks, RebuildLists, RebuildListFails,
              RebuildAdds, RebuildAddFails, RebuildEnds, XrayRestarts, nodeVars, vars, applierVars
<1>. QED
  BY <1>1, <1>2, <1>3, <1>4, <1>5, <1>6, <1>7, <1>8 DEF BackendNext, Apply, ApplyWorks

(* Commands are handled only once the startup rebuild is over.             *)
LEMMA HandlingIsConsuming ==
    ASSUME BInv, NEW w \in Workers, Handle(w) \/ worker[w].pc # "idle"
    PROVE  Consuming
BY HandleEffect DEF BInv, IInv, StartInv

(* Every step keeps handling and startup apart.                            *)
LEMMA StepStart ==
    ASSUME BInv, [BackendNext]_nodeVars
    PROVE  StartInv'
<1>1. ASSUME NEW m \in Messages, Publish(m), UNCHANGED backendVars
      PROVE  StartInv'
  BY <1>1 DEF Publish, backendVars, BInv, StartInv, Consuming
<1>2. ASSUME Consuming, UNCHANGED rebuild
      PROVE  StartInv'
  BY <1>2 DEF BInv, StartInv, Consuming
<1>3. ASSUME NEW w \in Workers, (Handle(w) /\ UNCHANGED backendVars) \/ Apply(w)
      PROVE  StartInv'
  BY <1>2, <1>3, HandlingIsConsuming
     DEF backendVars, Apply, ApplyWorks, XrayCall, XrayCallFails, ApplyPuts, ApplyPutFails,
         ApplyReturns, Applying
<1>4. CASE RebuildLists
  BY <1>4 DEF RebuildLists, BInv, StartInv, Consuming, vars, applierVars
<1>5. CASE RebuildListFails \/ RebuildEnds
  BY <1>5 DEF RebuildListFails, RebuildEnds, NoRebuild, StartInv, Consuming
<1>6. ASSUME NEW u \in Clients, RebuildAdds(u) \/ RebuildAddFails(u)
      PROVE  StartInv'
  <2>1. /\ rebuild'.pc = rebuild.pc /\ rebuild'.toAdd \subseteq rebuild.toAdd
        /\ UNCHANGED <<queue, worker>>
    BY <1>6 DEF RebuildAdds, RebuildAddFails, BInv, BackendTypeOK, vars, applierVars
  <2>. QED  BY <2>1 DEF BInv, StartInv, Consuming
<1>7. CASE AgentCrash
  BY <1>7 DEF AgentCrash, Crash, AgentRestarts, StartupRebuild, Idle, StartInv
<1>8. CASE XrayRestarts \/ UNCHANGED nodeVars
  BY <1>8 DEF XrayRestarts, nodeVars, backendVars, vars, applierVars, BInv, StartInv, Consuming
<1>. QED
  BY <1>1, <1>2, <1>3, <1>4, <1>5, <1>6, <1>7, <1>8
     DEF BackendNext, RebuildStep, RebuildWorks, backendVars

(* The client of the row a command is stored as.                           *)
LEMMA RowServes ==
    ASSUME NEW c \in Commands, NEW a \in AppliedState
    PROVE  /\ Row(c, a).client = c.client
           /\ Serving(Row(c, a)) <=> Serving(c)
BY DEF Row, Serving

(* Every step stores rows of commands only.                                *)
LEMMA StepRows ==
    ASSUME BInv, [BackendNext]_nodeVars
    PROVE  RowInv'
<1>1. CASE store' = store
  BY <1>1 DEF BInv, RowInv
<1>2. ASSUME NEW c \in Commands, NEW a \in AppliedState, PutPlacement(c, a)
      PROVE  RowInv'
  <2>1. store'[c.pid] = Row(c, a) /\ \A p \in Placements \ {c.pid} : store'[p] = store[p]
    BY <1>2, RowTyping DEF PutPlacement, BInv, IInv, TypeOK, StoreTypeOK
  <2>. QED  BY <2>1, RowServes DEF BInv, RowInv
<1>. QED  BY <1>1, <1>2, StepStore, BackendCommandStep DEF BInv

LEMMA BackendInvInit == BackendInit => BInv
<1> SUFFICES ASSUME BackendInit PROVE BInv
  OBVIOUS
<1>1. IInv
  BY InitIInv DEF BackendInit
<1>2. BackendTypeOK
  BY <1>1 DEF BackendInit, BackendTypeOK, StartupRebuild, IInv
<1>3. ExecInv /\ StartInv /\ RowInv
  BY DEF BackendInit, Init, StoreInit, Idle, StartupRebuild, ExecInv, CallKnows, StartInv, RowInv,
         Found
<1>. QED  BY <1>1, <1>2, <1>3 DEF BInv

LEMMA BackendInvStep == BInv /\ [BackendNext]_nodeVars => BInv'
<1> SUFFICES ASSUME BInv, [BackendNext]_nodeVars PROVE BInv'
  OBVIOUS
<1>1. IInv'
  BY BackendCommandStep, StepTypes, StepShard, StepHandler DEF BInv, IInv
<1>. QED  BY <1>1, BackendTypesKept, StepExec, StepStart, StepRows DEF BInv, IInv

(* The users of xray, the rebuild and the handler calls of a backend node  *)
(* keep their types, whatever fails or restarts.                           *)
THEOREM BackendTypes == BackendSpec => []BackendTypeOK
<1>1. BInv => BackendTypeOK
  BY DEF BInv
<1>. QED  BY <1>1, BackendInvInit, BackendInvStep, PTL DEF BackendSpec

(* A client's row and its commands are those of one placement.             *)
LEMMA OwnClient ==
    ASSUME BInv, OneClientEach, NEW p \in Placements, Found(store[p])
    PROVE  /\ \A c \in Commands : store[p].client = c.client <=> c.pid = p
           /\ \A q \in Placements : Found(store[q]) /\ store[q].client = store[p].client => q = p
BY DEF BInv, RowInv, OneClientEach

(* What the executor decides on, for a call that is at its xray call.      *)
LEMMA ApplyKnows ==
    ASSUME BInv, NEW w \in Workers, worker[w].pc = "execute", step[w] # "return"
    PROVE  /\ worker[w].msg \in Commands /\ worker[w].msg.pid \in Placements
           /\ worker[w].existing = store[worker[w].msg.pid]
           /\ WasActive(worker[w].existing) => Found(store[worker[w].msg.pid])
<1>1. worker[w].msg \in Commands
  BY DEF BInv, IInv, HandlerInv, CallOK
<1>. QED  BY <1>1, RowTyping DEF BInv, ExecInv, CallKnows, WasActive, AppliedState

(* The user a call of Apply has removed stays out of xray while it is      *)
(* storing the row: only the reconcile loop would put it back.             *)
LEMMA StepGone ==
    ASSUME BInv, OneClientEach, ~Reconciling, GoneInv, [BackendNext]_nodeVars
    PROVE  GoneInv'
<1>1. SUFFICES ASSUME NEW w \in Workers, worker'[w].pc = "execute", step'[w] = "put",
                      ~NowActive(worker'[w].msg), WasActive(worker'[w].existing)
               PROVE  worker'[w].existing.client \notin users'
  BY <1>1 DEF GoneInv, Applying, NowActive, WasActive, Serving
<1>2. ASSUME worker'[w] = worker[w], step'[w] = step[w], users' \subseteq users
      PROVE  worker'[w].existing.client \notin users'
  BY <1>1, <1>2 DEF GoneInv, Applying
<1>3. ASSUME NEW v \in Workers, Handle(v), UNCHANGED backendVars
      PROVE  worker'[w].existing.client \notin users'
  <2>1. CASE v = w
    BY <1>1, <1>3, <2>1, HandleEffect DEF backendVars, BInv, IInv, ExecInv, CallKnows
  <2>2. CASE v # w
    BY <1>2, <1>3, <2>2, HandleEffect DEF backendVars, BInv, IInv
  <2>. QED  BY <2>1, <2>2
<1>4. ASSUME NEW v \in Workers, v # w, worker'[w] = worker[w], step'[w] = step[w],
             worker[v].pc = "execute", users' \subseteq users \cup {worker[v].msg.client}
      PROVE  worker'[w].existing.client \notin users'
  <2>1. worker[v].msg \in Commands /\ worker[v].msg.pid # worker[w].msg.pid
    BY <1>1, <1>4, CallAlone DEF BInv
  <2>2. /\ worker[w].existing = store[worker[w].msg.pid] /\ worker[w].msg.pid \in Placements
        /\ Found(store[worker[w].msg.pid])
    BY <1>1, <1>4, ApplyKnows
  <2>3. worker[w].existing.client # worker[v].msg.client
    BY <2>1, <2>2, OwnClient
  <2>4. worker[w].existing.client \notin users
    BY <1>1, <1>4 DEF GoneInv, Applying
  <2>. QED  BY <1>4, <2>3, <2>4
<1>5. ASSUME NEW v \in Workers, XrayCall(v)
      PROVE  worker'[w].existing.client \notin users'
  <2>1. /\ worker' = worker /\ worker[v].pc = "execute"
        /\ step' = [step EXCEPT ![v] = "put"]
        /\ users' \subseteq users \cup {worker[v].msg.client}
        /\ ~NowActive(worker[v].msg) /\ WasActive(worker[v].existing) =>
               users' = users \ {worker[v].existing.client}
    BY <1>5 DEF XrayCall, Applying, vars, applierVars
  <2>2. CASE v = w
    BY <1>1, <2>1, <2>2
  <2>3. CASE v # w
    BY <1>4, <2>1, <2>3 DEF BInv, BackendTypeOK
  <2>. QED  BY <2>2, <2>3
<1>6. ASSUME NEW v \in Workers, XrayCallFails(v)
      PROVE  worker'[w].existing.client \notin users'
  <2>1. /\ Goto(v, "execute", "persist_error", "none") /\ step' = step
        /\ users' \subseteq users \cup {worker[v].msg.client}
    BY <1>6 DEF XrayCallFails, ExecutorFails
  <2>2. worker[v].pc = "execute" /\ worker'[v].pc = "persist_error"
        /\ \A x \in Workers \ {v} : worker'[x] = worker[x]
    BY <2>1 DEF Goto, BInv, IInv, TypeOK, WorkerType
  <2>. QED  BY <1>1, <1>4, <2>1, <2>2
<1>7. ASSUME NEW v \in Workers, ApplyPuts(v) \/ ApplyPutFails(v) \/ ApplyReturns(v)
      PROVE  worker'[w].existing.client \notin users'
  <2>1. /\ users' = users /\ step'[v] # "put"
        /\ \A x \in Workers \ {v} : worker'[x] = worker[x] /\ step'[x] = step[x]
    BY <1>7 DEF ApplyPuts, ApplyPutFails, ApplyReturns, ExecutorPersists, ExecutorFails,
                ExecutorSucceeds, Goto, applierVars, BInv, BackendTypeOK, IInv, TypeOK
  <2>. QED  BY <1>1, <1>2, <2>1
<1>8. CASE RebuildLists \/ RebuildListFails \/ RebuildEnds \/ UNCHANGED nodeVars \/ XrayRestarts
  BY <1>2, <1>8 DEF RebuildLists, RebuildListFails, RebuildEnds, XrayRestarts, nodeVars,
                    backendVars, vars, applierVars
<1>9. ASSUME NEW u \in Clients, RebuildAdds(u) \/ RebuildAddFails(u)
      PROVE  FALSE
  <2>1. worker' = worker /\ u \in rebuild.toAdd
    BY <1>9 DEF RebuildAdds, RebuildAddFails, vars, applierVars
  <2>2. rebuild.pc = "startup"
    BY <2>1 DEF BInv, StartInv, BackendTypeOK
  <2>. QED  BY <1>1, <2>1, <2>2 DEF BInv, StartInv, Consuming
<1>10. CASE AgentCrash
  BY <1>1, <1>10 DEF AgentCrash, Crash, AgentRestarts, Idle
<1>11. ASSUME NEW m \in Messages, Publish(m) \/ Deliver(m), UNCHANGED backendVars
       PROVE  worker'[w].existing.client \notin users'
  BY <1>2, <1>11 DEF Publish, Deliver, backendVars
<1>. QED
  BY <1>3, <1>5, <1>6, <1>7, <1>8, <1>9, <1>10, <1>11
     DEF BackendNext, Apply, ApplyWorks, RebuildStep, RebuildWorks

(* A call at its xray call finds the user of the row it was given in xray. *)
LEMMA ServedBefore ==
    ASSUME BInv, OneClientEach, PresentInv, NEW w \in Workers, Applying(w, "call"),
           WasActive(worker[w].existing)
    PROVE  worker[w].msg.client \in users
<1>. DEFINE p == worker[w].msg.pid
<1>1. /\ worker[w].msg \in Commands /\ p \in Placements
      /\ WasActive(store[p]) /\ Found(store[p])
  BY ApplyKnows DEF Applying
<1>2. ~Ending(p)
  BY CallAlone DEF Ending, Applying, BInv
<1>3. Consuming
  BY HandlingIsConsuming DEF Applying
<1>4. store[p].client \in users
  BY <1>1, <1>2, <1>3 DEF PresentInv
<1>. QED  BY <1>1, <1>4, OwnClient

(* The user a call of Apply has added stays in xray while it is storing    *)
(* the row.                                                                *)
LEMMA StepAdded ==
    ASSUME BInv, OneClientEach, XrayAndStoreWork, AddedInv, PresentInv, [BackendNext]_nodeVars
    PROVE  AddedInv'
<1>1. SUFFICES ASSUME NEW w \in Workers, worker'[w].pc = "execute", step'[w] = "put",
                      NowActive(worker'[w].msg)
               PROVE  worker'[w].msg.client \in users'
  BY <1>1 DEF AddedInv, Applying, NowActive, Serving
<1>2. ASSUME worker'[w] = worker[w], step'[w] = step[w], users \subseteq users'
      PROVE  worker'[w].msg.client \in users'
  BY <1>1, <1>2 DEF AddedInv, Applying
<1>3. ASSUME NEW v \in Workers, Handle(v), UNCHANGED backendVars
      PROVE  worker'[w].msg.client \in users'
  <2>1. CASE v = w
    BY <1>1, <1>3, <2>1, HandleEffect DEF backendVars, BInv, IInv, ExecInv, CallKnows
  <2>2. CASE v # w
    BY <1>2, <1>3, <2>2, HandleEffect DEF backendVars, BInv, IInv
  <2>. QED  BY <2>1, <2>2, Zenon
<1>4. ASSUME NEW v \in Workers, XrayCall(v)
      PROVE  worker'[w].msg.client \in users'
  <2>1. /\ worker' = worker /\ worker[v].pc = "execute" /\ step[v] = "call"
        /\ step' = [step EXCEPT ![v] = "put"]
        /\ NowActive(worker[v].msg) /\ ~WasActive(worker[v].existing) =>
               users' = users \cup {worker[v].msg.client}
        /\ NowActive(worker[v].msg) /\ WasActive(worker[v].existing) => users' = users
        /\ \/ users \subseteq users'
           \/ WasActive(worker[v].existing) /\ users' = users \ {worker[v].existing.client}
    BY <1>4 DEF XrayCall, Applying, vars, applierVars
  <2>2. CASE v = w
    BY <1>1, <2>1, <2>2, ServedBefore DEF Applying
  <2>3. CASE v # w
    <3>1. worker[w].msg \in Commands /\ worker[w].msg.pid # worker[v].msg.pid
      BY <1>1, <2>1, <2>3, CallAlone DEF BInv
    <3>2. WasActive(worker[v].existing) => worker[v].existing.client # worker[w].msg.client
      BY <2>1, <3>1, ApplyKnows, OwnClient
    <3>3. worker[w].msg.client \in users
      BY <1>1, <2>1, <2>3 DEF AddedInv, Applying, BInv, BackendTypeOK
    <3>. QED  BY <2>1, <3>2, <3>3
  <2>. QED  BY <2>2, <2>3
<1>5. ASSUME NEW v \in Workers, ApplyPuts(v) \/ ApplyReturns(v)
      PROVE  worker'[w].msg.client \in users'
  <2>1. /\ users' = users /\ step'[v] # "put"
        /\ \A x \in Workers \ {v} : worker'[x] = worker[x] /\ step'[x] = step[x]
    BY <1>5 DEF ApplyPuts, ApplyReturns, ExecutorPersists, ExecutorSucceeds, Goto, applierVars,
                BInv, BackendTypeOK, IInv, TypeOK
  <2>. QED  BY <1>1, <1>2, <2>1
<1>6. CASE RebuildLists \/ RebuildEnds \/ UNCHANGED nodeVars
           \/ \E u \in Clients : RebuildAdds(u)
  BY <1>2, <1>6 DEF RebuildLists, RebuildEnds, RebuildAdds, nodeVars, backendVars, vars, applierVars
<1>7. CASE AgentCrash
  BY <1>1, <1>7 DEF AgentCrash, Crash, AgentRestarts, Idle
<1>8. ASSUME NEW m \in Messages, Publish(m) \/ Deliver(m), UNCHANGED backendVars
      PROVE  worker'[w].msg.client \in users'
  BY <1>2, <1>8 DEF Publish, Deliver, backendVars
<1>9. ASSUME \/ RebuildListFails \/ XrayRestarts
             \/ \E u \in Clients : RebuildAddFails(u)
             \/ \E v \in Workers : XrayCallFails(v) \/ ApplyPutFails(v)
      PROVE  FALSE
  BY <1>9 DEF XrayAndStoreWork, RebuildListFails, XrayRestarts, RebuildAddFails, XrayCallFails,
              ApplyPutFails
<1>. QED
  BY <1>3, <1>4, <1>5, <1>6, <1>7, <1>8, <1>9
     DEF BackendNext, Apply, ApplyWorks, RebuildStep, RebuildWorks

(* The user of a served placement stays in xray as long as no call of      *)
(* Apply is ending it.                                                     *)
LEMMA StepServed ==
    ASSUME BInv, OneClientEach, XrayAndStoreWork, AddedInv, PresentInv, [BackendNext]_nodeVars,
           Consuming', NEW p \in Placements, WasActive(store'[p]),
           \A w \in Workers :
               worker'[w].pc = "execute" /\ step'[w] = "put" /\ worker'[w].msg.pid = p =>
                   NowActive(worker'[w].msg)
    PROVE  store'[p].client \in users'
<1>1. ASSUME Consuming, store'[p] = store[p], users \subseteq users',
             \A w \in Workers : Applying(w, "put") => worker'[w] = worker[w] /\ step'[w] = step[w]
      PROVE  store'[p].client \in users'
  <2>1. ~Ending(p)
    BY <1>1 DEF Ending, Applying
  <2>. QED  BY <1>1, <2>1 DEF PresentInv
<1>2. ASSUME NEW v \in Workers, Handle(v), UNCHANGED backendVars
      PROVE  store'[p].client \in users'
  <2>1. TypeOK /\ UNCHANGED <<users, step>>
    BY <1>2, ZenonT(40) DEF BInv, IInv, backendVars
  <2>2. \A w \in Workers : Applying(w, "put") => worker'[w] = worker[w] /\ step'[w] = step[w]
    BY <1>2, <2>1, HandleEffect DEF Applying
  <2>3. store'[p] = store[p]
    <3>1. \/ store' = store
          \/ worker[v].pc = "persist" /\ PutPlacement(worker[v].msg, "applied")
          \/ worker[v].pc = "persist_error" /\ PutPlacement(worker[v].msg, "error")
      BY <1>2, <2>1, HandleEffect
    <3>2. CASE worker[v].pc = "persist" /\ PutPlacement(worker[v].msg, "applied")
      BY <3>2, PutTyping DEF AppliedState, BInv, ExecInv, CallKnows
    <3>3. CASE worker[v].pc = "persist_error" /\ PutPlacement(worker[v].msg, "error")
      <4>1. /\ store'[worker[v].msg.pid] = Row(worker[v].msg, "error")
            /\ worker[v].msg \in Commands
            /\ \A q \in Placements \ {worker[v].msg.pid} : store'[q] = store[q]
        BY <3>3, PutTyping DEF AppliedState, BInv
      <4>2. ~WasActive(Row(worker[v].msg, "error"))
        BY <4>1, RowTyping DEF WasActive, AppliedState
      <4>. QED  BY <4>1, <4>2
    <3>. QED  BY <3>1, <3>2, <3>3
  <2>4. Consuming
    BY <1>2, HandlingIsConsuming
  <2>. QED  BY <1>1, <2>1, <2>2, <2>3, <2>4
<1>3. ASSUME NEW v \in Workers, XrayCall(v)
      PROVE  store'[p].client \in users'
  <2>1. /\ UNCHANGED <<store, worker>> /\ worker[v].pc = "execute" /\ step[v] = "call"
        /\ step' = [step EXCEPT ![v] = "put"]
        /\ \/ users \subseteq users'
           \/ /\ ~NowActive(worker[v].msg) /\ WasActive(worker[v].existing)
              /\ users' = users \ {worker[v].existing.client}
    BY <1>3 DEF XrayCall, Applying, vars, applierVars
  <2>2. Consuming
    BY <2>1, HandlingIsConsuming
  <2>3. \A w \in Workers : Applying(w, "put") => step'[w] = step[w]
    BY <2>1 DEF Applying, BInv, BackendTypeOK
  <2>4. CASE users \subseteq users'
    BY <1>1, <2>1, <2>2, <2>3, <2>4
  <2>5. CASE /\ ~NowActive(worker[v].msg) /\ WasActive(worker[v].existing)
             /\ users' = users \ {worker[v].existing.client}
    <3>1. step'[v] = "put"
      BY <2>1 DEF BInv, BackendTypeOK
    <3>2. p # worker[v].msg.pid
      BY <2>1, <2>5, <3>1
    <3>3. /\ worker[v].existing = store[worker[v].msg.pid] /\ worker[v].msg.pid \in Placements
          /\ Found(store[worker[v].msg.pid])
      BY <2>1, <2>5, ApplyKnows
    <3>4. Found(store[p]) /\ store[p] = store'[p]
      BY <2>1, SMTT(30) DEF WasActive
    <3>5. store[p].client # worker[v].existing.client
      BY <3>2, <3>3, <3>4, OwnClient
    <3>6. ~Ending(p)
      BY <2>1, <2>3 DEF Ending, Applying
    <3>7. store[p].client \in users
      BY <2>1, <2>2, <3>4, <3>6 DEF PresentInv
    <3>. QED  BY <2>5, <3>4, <3>5, <3>7
  <2>. QED  BY <2>1, <2>4, <2>5, ZenonT(40)
<1>4. ASSUME NEW v \in Workers, ApplyPuts(v)
      PROVE  store'[p].client \in users'
  <2>1. /\ UNCHANGED <<worker, users>> /\ worker[v].pc = "execute" /\ step[v] = "put"
        /\ step' = [step EXCEPT ![v] = "return"]
        /\ PutPlacement(worker[v].msg, "applied")
    BY <1>4, Zenon DEF ApplyPuts, Applying, ExecutorPersists, applierVars
  <2>2. /\ store'[worker[v].msg.pid] = Row(worker[v].msg, "applied")
        /\ worker[v].msg \in Commands
        /\ \A q \in Placements \ {worker[v].msg.pid} : store'[q] = store[q]
    BY <2>1, PutTyping DEF AppliedState, BInv
  <2>3. CASE p = worker[v].msg.pid
    <3>1. Serving(worker[v].msg) /\ store'[p].client = worker[v].msg.client
      BY <2>2, <2>3, RowServes, Zenon DEF WasActive, AppliedState
    <3>. QED  BY <2>1, <3>1, Zenon DEF AddedInv, Applying, NowActive
  <2>4. CASE p # worker[v].msg.pid
    <3>1. Consuming /\ store'[p] = store[p]
      BY <2>1, <2>2, <2>4, HandlingIsConsuming
    <3>2. ~Ending(p)
      BY <2>1, <2>4 DEF Ending, Applying, BInv, BackendTypeOK
    <3>. QED  BY <2>1, <3>1, <3>2, SMTT(30) DEF PresentInv
  <2>. QED  BY <2>3, <2>4
<1>5. ASSUME NEW v \in Workers, ApplyReturns(v)
      PROVE  store'[p].client \in users'
  <2>1. /\ UNCHANGED <<store, users>> /\ worker[v].pc = "execute" /\ step[v] = "return"
        /\ \A x \in Workers \ {v} : worker'[x] = worker[x] /\ step'[x] = step[x]
    BY <1>5 DEF ApplyReturns, Applying, ExecutorSucceeds, Goto, BInv, BackendTypeOK, IInv, TypeOK
  <2>2. Consuming
    BY <2>1, HandlingIsConsuming
  <2>. QED  BY <1>1, <2>1, <2>2 DEF Applying
<1>6. CASE RebuildLists
  <2>1. Consuming
    BY <1>6 DEF RebuildLists, Consuming
  <2>. QED  BY <1>1, <1>6, <2>1 DEF RebuildLists, vars, applierVars
<1>7. ASSUME NEW u \in Clients, RebuildAdds(u)
      PROVE  store'[p].client \in users'
  <2>1. Consuming
    BY <1>7 DEF RebuildAdds, Consuming, BInv, BackendTypeOK
  <2>. QED  BY <1>1, <1>7, <2>1 DEF RebuildAdds, vars, applierVars
<1>8. CASE RebuildEnds
  <2>1. UNCHANGED <<store, users, worker, step>> /\ rebuild.toAdd = {}
        /\ rebuild.pc \in {"startup", "running"}
    BY <1>8 DEF RebuildEnds, vars, applierVars
  <2>2. CASE rebuild.pc = "startup"
    BY <2>1, <2>2 DEF PresentInv
  <2>3. CASE rebuild.pc = "running"
    BY <1>1, <2>1, <2>3 DEF Consuming
  <2>. QED  BY <2>1, <2>2, <2>3
<1>9. CASE AgentCrash
  BY <1>9 DEF AgentCrash, StartupRebuild, Consuming
<1>10. ASSUME UNCHANGED <<store, users, worker, step, rebuild>>
       PROVE  store'[p].client \in users'
  BY <1>1, <1>10 DEF Consuming
<1>11. ASSUME \/ \E m \in Messages : (Publish(m) \/ Deliver(m)) /\ UNCHANGED backendVars
              \/ UNCHANGED nodeVars
       PROVE  UNCHANGED <<store, users, worker, step, rebuild>>
  BY <1>11 DEF Publish, Deliver, backendVars, nodeVars, vars, applierVars
<1>12. ASSUME \/ RebuildListFails \/ XrayRestarts
              \/ \E u \in Clients : RebuildAddFails(u)
              \/ \E v \in Workers : XrayCallFails(v) \/ ApplyPutFails(v)
       PROVE  FALSE
  BY <1>12 DEF XrayAndStoreWork, RebuildListFails, XrayRestarts, RebuildAddFails, XrayCallFails,
               ApplyPutFails
<1>. QED
  BY <1>2, <1>3, <1>4, <1>5, <1>6, <1>7, <1>8, <1>9, <1>10, <1>11, <1>12
     DEF BackendNext, Apply, ApplyWorks, RebuildStep, RebuildWorks

(* The startup rebuild has every missing user in hand.                     *)
LEMMA StepStartup ==
    ASSUME BInv, XrayAndStoreWork, PresentInv, [BackendNext]_nodeVars,
           rebuild'.pc = "startup", NEW p \in Placements, WasActive(store'[p])
    PROVE  store'[p].client \in users' \cup rebuild'.toAdd
<1>1. ASSUME UNCHANGED <<store, users, rebuild>>
      PROVE  store'[p].client \in users' \cup rebuild'.toAdd
  BY <1>1 DEF PresentInv
<1>2. CASE RebuildLists
  <2>1. rebuild'.toAdd = ServingClients /\ UNCHANGED store
    BY <1>2 DEF RebuildLists, vars
  <2>. QED  BY <2>1 DEF ServingClients, ListPlacements, WasActive
<1>3. ASSUME NEW u \in Clients, RebuildAdds(u)
      PROVE  store'[p].client \in users' \cup rebuild'.toAdd
  <2>1. /\ UNCHANGED store /\ users' = users \cup {u}
        /\ rebuild'.pc = rebuild.pc /\ rebuild'.toAdd = rebuild.toAdd \ {u}
    BY <1>3 DEF RebuildAdds, vars, BInv, BackendTypeOK
  <2>. QED  BY <2>1 DEF PresentInv
<1>4. CASE RebuildEnds \/ AgentCrash
  BY <1>4 DEF RebuildEnds, AgentCrash, NoRebuild, StartupRebuild
<1>5. ASSUME NEW v \in Workers, (Handle(v) /\ UNCHANGED backendVars) \/ Apply(v)
      PROVE  FALSE
  <2>1. Consuming
    BY <1>5, HandlingIsConsuming, ZenonT(40)
       DEF Apply, ApplyWorks, XrayCall, XrayCallFails, ApplyPuts,
                                     ApplyPutFails, ApplyReturns, Applying
  <2>2. rebuild' = rebuild
    BY <1>5 DEF Apply, ApplyWorks, XrayCall, XrayCallFails, ApplyPuts, ApplyPutFails,
                ApplyReturns, backendVars
  <2>. QED  BY <2>1, <2>2, Zenon DEF Consuming
<1>6. ASSUME \/ \E m \in Messages : (Publish(m) \/ Deliver(m)) /\ UNCHANGED backendVars
             \/ UNCHANGED nodeVars
      PROVE  UNCHANGED <<store, users, rebuild>>
  BY <1>6 DEF Publish, Deliver, backendVars, nodeVars, vars, applierVars
<1>7. ASSUME \/ RebuildListFails \/ XrayRestarts \/ \E u \in Clients : RebuildAddFails(u)
      PROVE  FALSE
  BY <1>7 DEF XrayAndStoreWork, RebuildListFails, XrayRestarts, RebuildAddFails
<1>. QED
  BY <1>1, <1>2, <1>3, <1>4, <1>5, <1>6, <1>7
     DEF BackendNext, RebuildStep, RebuildWorks

(* While xray and the table work, and if no two placements have the same   *)
(* client, a user whose placement is stored as applied and serving is in   *)
(* xray, after crashes, redeliveries and reconcile ticks at any moment.    *)
THEOREM ServedUsersArePresent ==
    ASSUME OneClientEach, XrayAndStoreWork
    PROVE  BackendSpec => []AppliedUsersPresent
<1>. DEFINE Inv == BInv /\ AddedInv /\ PresentInv
<1>1. BackendInit => Inv
  <2>1. BackendInit => AddedInv /\ PresentInv
    BY DEF BackendInit, Init, Idle, StartupRebuild, AddedInv, PresentInv, Applying, Consuming
  <2>. QED  BY <2>1, BackendInvInit, Zenon
<1>2. Inv /\ [BackendNext]_nodeVars => Inv'
  <2>. SUFFICES ASSUME Inv, [BackendNext]_nodeVars PROVE Inv'
    OBVIOUS
  <2>1. BInv'
    BY BackendInvStep
  <2>2. AddedInv'
    BY StepAdded, Zenon
  <2>3. Consuming' =>
            \A p \in Placements : WasActive(store'[p]) /\ ~Ending(p)' => store'[p].client \in users'
    BY StepServed DEF Ending, Applying, NowActive, Serving
  <2>4. rebuild'.pc = "startup" =>
            \A p \in Placements :
                WasActive(store'[p]) => store'[p].client \in users' \cup rebuild'.toAdd
    BY StepStartup, ZenonT(40)
  <2>5. PresentInv'
    BY <2>3, <2>4 DEF PresentInv, Ending, WasActive, Serving
  <2>. QED  BY <2>1, <2>2, <2>5
<1>3. Inv => AppliedUsersPresent
  BY DEF AppliedUsersPresent, PresentInv, Ending, Applying, WasActive, ListPlacements
<1>. QED  BY <1>1, <1>2, <1>3, PTL DEF BackendSpec

(* Without the reconcile loop, whatever fails, a row stops serving only    *)
(* when its user is gone from xray, if no two placements have the same     *)
(* client.                                                                 *)
THEOREM RemovalComesFirst ==
    ASSUME OneClientEach, ~Reconciling
    PROVE  BackendSpec => RemovedBeforeStored
<1>. DEFINE Inv == BInv /\ GoneInv
<1>1. BackendInit => Inv
  <2>1. BackendInit => GoneInv
    BY DEF BackendInit, Init, Idle, GoneInv, Applying
  <2>. QED  BY <2>1, BackendInvInit
<1>2. Inv /\ [BackendNext]_nodeVars => Inv'
  BY BackendInvStep, StepGone
<1>3. ASSUME Inv, [BackendNext]_nodeVars, NEW p \in Placements,
             WasActive(store[p]), Found(store'[p]), ~Serving(store'[p]), store'[p].applied = "applied"
      PROVE  store[p].client \notin users
  <2>1. store' # store
    BY <1>3, Zenon DEF WasActive
  <2>2. PICK w \in Workers : Handle(w) \/ ApplyPuts(w)
    BY <1>3, <2>1, RebuildIsLocal, Zenon
       DEF BackendNext, Apply, ApplyWorks, XrayCall, XrayCallFails, ExecutorFails, ApplyPutFails,
           ApplyReturns, ExecutorSucceeds, Publish, Deliver, AgentCrash, Crash, AgentRestarts,
           XrayRestarts, nodeVars, vars
  <2>3. CASE Handle(w)
    <3>1. \/ worker[w].pc = "persist" /\ PutPlacement(worker[w].msg, "applied")
          \/ worker[w].pc = "persist_error" /\ PutPlacement(worker[w].msg, "error")
      BY <1>3, <2>1, <2>3, HandleEffect, ZenonT(40) DEF BInv, IInv
    <3>2. CASE worker[w].pc = "persist" /\ PutPlacement(worker[w].msg, "applied")
      BY <1>3, <3>2, PutTyping DEF AppliedState, BInv, ExecInv, CallKnows, WasActive
    <3>3. CASE worker[w].pc = "persist_error" /\ PutPlacement(worker[w].msg, "error")
      <4>1. /\ store'[worker[w].msg.pid] = Row(worker[w].msg, "error")
            /\ worker[w].msg \in Commands
            /\ \A q \in Placements \ {worker[w].msg.pid} : store'[q] = store[q]
        BY <1>3, <3>3, PutTyping DEF AppliedState, BInv
      <4>. QED  BY <1>3, <4>1, RowTyping, ZenonT(40) DEF WasActive, AppliedState
    <3>. QED  BY <3>1, <3>2, <3>3, Zenon
  <2>4. CASE ApplyPuts(w)
    <3>1. /\ worker[w].pc = "execute" /\ step[w] = "put"
          /\ PutPlacement(worker[w].msg, "applied")
      BY <2>4 DEF ApplyPuts, Applying, ExecutorPersists
    <3>2. /\ store'[worker[w].msg.pid] = Row(worker[w].msg, "applied")
          /\ worker[w].msg \in Commands
          /\ \A q \in Placements \ {worker[w].msg.pid} : store'[q] = store[q]
      BY <1>3, <3>1, PutTyping DEF AppliedState, BInv
    <3>3. p = worker[w].msg.pid
      BY <1>3, <3>2 DEF WasActive
    <3>4. ~NowActive(worker[w].msg)
      BY <1>3, <3>2, <3>3, RowServes DEF NowActive, AppliedState
    <3>5. worker[w].existing = store[p]
      BY <1>3, <3>1, <3>3, ApplyKnows
    <3>. QED  BY <1>3, <3>1, <3>4, <3>5 DEF GoneInv, Applying
  <2>. QED  BY <2>2, <2>3, <2>4
<1>4. Inv /\ [BackendNext]_nodeVars =>
          [\A p \in Placements :
             /\ Found(store[p]) /\ Serving(store[p]) /\ store[p].applied = "applied"
             /\ Found(store'[p]) /\ ~Serving(store'[p]) /\ store'[p].applied = "applied"
             => store[p].client \notin users]_nodeVars
  BY <1>3 DEF WasActive
<1>. QED  BY <1>1, <1>2, <1>4, PTL DEF BackendSpec, RemovedBeforeStored
=============================================================================
