----------------------------- MODULE EntryProofs ----------------------------
(***************************************************************************)
(* FlipExecutor with EntryProxyActions keeps the executor contract of      *)
(* module Applier, for any placements, commands, shards, backends and      *)
(* failures.  The types of the node hold without further hypotheses.       *)
(*                                                                         *)
(* What the proxy has once the node is quiet takes more.  KnowInv: until   *)
(* it stores the row, a call of Apply has the stored row in hand.  From    *)
(* there the users and routes are followed through the phases of a call:   *)
(* ServedInv says that a serving placement stored as applied is accepted   *)
(* unless a call is ending it, AbsentInv that one that is not to be served *)
(* is not accepted unless a call is starting it.                           *)
(***************************************************************************)
EXTENDS EntryNode, ApplierProofs

(* Whatever phase it fails in, Apply returns a final error to the handler. *)
LEMMA FailureIsFinal ==
    ASSUME NEW w \in Workers, NEW at, ApplyFails(w, at)
    PROVE  Execute(w)
BY DEF ApplyFails, Execute

(* Every step of FlipExecutor.Apply is a step the contract allows, or      *)
(* leaves the command path alone.                                          *)
LEMMA ApplyIsExecute ==
    ASSUME NEW w \in Workers, Apply(w)
    PROVE  Execute(w) \/ UNCHANGED vars
<1>1. CASE SimpleApply(w) \/ ValidateBackend(w) \/ SwapRoute(w) \/ DeferRoute(w) \/ DrainEnds(w)
  BY <1>1 DEF SimpleApply, ValidateBackend, SwapRoute, DeferRoute, DrainEnds
<1>2. CASE \E at \in Calls : ProxyCall(w, at)
  BY <1>2 DEF ProxyCall
<1>3. CASE InvalidBackend(w) \/ ApplyGetFails(w) \/ UnknownBackend(w) \/ ApplyPutFails(w)
           \/ DrainFails(w)
  BY <1>3, FailureIsFinal
     DEF InvalidBackend, ApplyGetFails, UnknownBackend, ApplyPutFails, DrainFails
<1>4. CASE \E at \in Calls : ProxyCallFails(w, at)
  BY <1>4, FailureIsFinal DEF ProxyCallFails
<1>5. CASE ApplyPuts(w)
  BY <1>5 DEF ApplyPuts, Execute
<1>6. CASE ApplyReturns(w)
  BY <1>6 DEF ApplyReturns, Execute
<1>7. QED
  BY <1>1, <1>2, <1>3, <1>4, <1>5, <1>6 DEF Apply, ApplyWorks

(* A rebuild never touches the table or the stream.                        *)
LEMMA RebuildIsLocal ==
    ASSUME NEW r \in Rebuilders, RebuildStep(r) \/ RebuildFails(r)
    PROVE  UNCHANGED vars
BY Zenon DEF RebuildStep, RebuildFails, RebuildStarts, RebuildSyncs, RebuildLists, RebuildAddsUser,
       RebuildRoutesUser, RebuildEnds

(* Every step of an entry node is a step of the command path, or leaves    *)
(* the command path alone.                                                 *)
LEMMA EntryCommandStep ==
    ASSUME [EntryNext]_nodeVars
    PROVE  [Next]_vars
<1>1. CASE UNCHANGED nodeVars
  BY <1>1 DEF nodeVars
<1>2. CASE \E m \in Messages : Publish(m) \/ Deliver(m)
  BY <1>2 DEF Next
<1>3. CASE \E w \in Workers : Handle(w)
  BY <1>3 DEF Next
<1>4. CASE \E w \in Workers : Apply(w)
  BY <1>4, ApplyIsExecute DEF Next
<1>5. CASE \E r \in Rebuilders : RebuildStep(r) \/ RebuildFails(r)
  BY <1>5, RebuildIsLocal
<1>6. CASE \E e \in Upstreams : UpstreamChanged(e)
  BY <1>6 DEF UpstreamChanged
<1>7. CASE AgentCrash
  BY <1>7 DEF AgentCrash, Next
<1>8. CASE ProxyCrash
  BY <1>8 DEF ProxyCrash
<1>. QED
  BY <1>1, <1>2, <1>3, <1>4, <1>5, <1>6, <1>7, <1>8 DEF EntryNext, EntryStep

(* An entry node behaves towards the control plane as the command path     *)
(* with an executor that keeps the contract: flips, rebuilds, registry     *)
(* changes and restarts of the proxy included.                             *)
THEOREM ContractKept == EntrySpec => KeepsExecutorContract
<1>1. EntryInit => Init
  BY DEF EntryInit
<1>. QED
  BY <1>1, EntryCommandStep, PTL DEF EntrySpec, KeepsExecutorContract, Spec

(* On an entry node no command leaves the stream unanswered, apply results *)
(* stay true of the table and versions never go back.                      *)
THEOREM EntryCommandPath ==
    EntrySpec => [](NoSilentLoss /\ ReportsAreDurable) /\ OpVersionNeverRegresses
BY ContractKept, CommandsAreAnswered, ReportsStayTrue, VersionsNeverRegress, PTL
   DEF KeepsExecutorContract

-----------------------------------------------------------------------------
(* Types.                                                                  *)

(* The node's own types without its flags.                                 *)
ApplyPc == {"start", "swap", "sync", "add", "select", "remove", "put", "drain", "return"}
RebuildPc == {"idle", "sync", "list", "users"}
RebuildType ==
    [pc: RebuildPc, specs: SUBSET Backends, cands: [Clients -> SUBSET Backends],
     left: SUBSET Clients, user: Clients \cup {NoUser}, pending: BOOLEAN, epoch: Nat]

DataOK ==
    /\ ProxyTypeOK
    /\ registry \subseteq Backends
    /\ loaded \subseteq Clients
    /\ lastEpoch \in Nat /\ lastEpoch <= epoch
    /\ fx \in [Workers -> [pc: ApplyPc, specs: SUBSET Backends]]

RebuildsOK ==
    /\ rb \in [Rebuilders -> RebuildType]
    /\ \A r \in Rebuilders : rb[r].epoch <= epoch

FlagOK == pending \in BOOLEAN

LEMMA TypeParts == EntryTypeOK <=> TypeOK /\ DataOK /\ RebuildsOK /\ FlagOK
<1>1. ASSUME ProxyTypeOK
      PROVE  /\ epoch \in Nat
             /\ \A n : n \in 0..epoch <=> n \in Nat /\ n <= epoch
  BY <1>1, MaxEpochAssumption DEF ProxyTypeOK
<1>2. ASSUME ProxyTypeOK
      PROVE  rb \in [Rebuilders -> [pc: RebuildPc, specs: SUBSET Backends,
                              cands: [Clients -> SUBSET Backends], left: SUBSET Clients,
                              user: Clients \cup {NoUser}, pending: BOOLEAN, epoch: 0..epoch]]
             <=> RebuildsOK
  BY <1>1, <1>2, Zenon DEF RebuildsOK, RebuildType
<1>. QED
  BY <1>1, <1>2 DEF EntryTypeOK, DataOK, FlagOK, ApplyPc, RebuildPc
(* The command of a call of Apply, and its parts.                          *)
LEMMA CallTyping ==
    ASSUME IInv, NEW w \in Workers, worker[w].pc = "execute"
    PROVE  /\ worker[w].msg \in Commands
           /\ worker[w].msg.pid \in Placements /\ worker[w].msg.op \in Nat
           /\ worker[w].msg.client \in Clients
           /\ worker[w].msg.backend \in Backends
BY CommandsAssumption DEF IInv, HandlerInv, CallOK, CommandType

(* Where a call of Apply goes.                                             *)
LEMMA AdvanceTyping ==
    ASSUME DataOK, NEW w \in Workers, NEW to \in ApplyPc, Advance(w, to)
    PROVE  fx' \in [Workers -> [pc: ApplyPc, specs: SUBSET Backends]]
BY DEF Advance, DataOK

(* What a call to the proxy makes of its state.                            *)
LEMMA ProxyTyping ==
    ASSUME IInv, DataOK, NEW w \in Workers, NEW at \in Calls, Applying(w, at), ProxyEffect(w, at)
    PROVE  ProxyTypeOK' /\ epoch' = epoch
<1>1. worker[w].msg.client \in Clients /\ worker[w].msg.backend \in Backends
  BY CallTyping DEF Applying
<1>2. fx[w].specs \subseteq Backends
  BY DEF DataOK
<1>. QED
  BY <1>1, <1>2 DEF ProxyEffect, SetBackends, AddUser, SelectBackend, RemoveUser, DataOK, ProxyTypeOK

(* A step of Apply keeps the types, and the proxy its epoch.               *)
LEMMA ApplyData ==
    ASSUME IInv, DataOK, NEW w \in Workers, Apply(w)
    PROVE  DataOK' /\ epoch' = epoch
<1>1. ASSUME NEW at, ApplyFails(w, at)
      PROVE  fx' \in [Workers -> [pc: ApplyPc, specs: SUBSET Backends]]
  BY <1>1 DEF ApplyFails, NoApply, ApplyPc, DataOK
<1>2. CASE SimpleApply(w) \/ ValidateBackend(w) \/ SwapRoute(w) \/ DrainEnds(w)
  BY <1>2, AdvanceTyping
     DEF SimpleApply, ValidateBackend, SwapRoute, DrainEnds, ApplyPc, DataOK, proxyVars, agentVars,
         ProxyTypeOK
<1>3. CASE DeferRoute(w)
  BY <1>3, AdvanceTyping DEF DeferRoute, ApplyPc, DataOK, proxyVars, ProxyTypeOK
<1>4. CASE InvalidBackend(w) \/ ApplyGetFails(w) \/ UnknownBackend(w) \/ ApplyPutFails(w)
           \/ DrainFails(w)
  BY <1>1, <1>4
     DEF InvalidBackend, ApplyGetFails, UnknownBackend, ApplyPutFails, DrainFails, DataOK,
         proxyVars, agentVars, ProxyTypeOK
<1>5. ASSUME NEW at \in Calls, ProxyCall(w, at)
      PROVE  DataOK' /\ epoch' = epoch
  <2>1. AfterCall(w, at) \in ApplyPc
    BY DEF AfterCall, ApplyPc
  <2>. QED  BY <1>5, <2>1, AdvanceTyping, ProxyTyping DEF ProxyCall, DataOK, agentVars
<1>6. ASSUME NEW at \in Calls, ProxyCallFails(w, at)
      PROVE  DataOK' /\ epoch' = epoch
  <2>1. ProxyTypeOK' /\ epoch' = epoch
    BY <1>6, ProxyTyping DEF ProxyCallFails, ApplyFails, proxyVars, DataOK, ProxyTypeOK
  <2>. QED  BY <1>1, <1>6, <2>1 DEF ProxyCallFails, DataOK, agentVars
<1>7. CASE ApplyPuts(w)
  BY <1>7, AdvanceTyping DEF ApplyPuts, ApplyPc, DataOK, proxyVars, agentVars, ProxyTypeOK
<1>8. CASE ApplyReturns(w)
  BY <1>8 DEF ApplyReturns, NoApply, ApplyPc, DataOK, proxyVars, agentVars, ProxyTypeOK
<1>. QED
  BY <1>2, <1>3, <1>4, <1>5, <1>6, <1>7, <1>8 DEF Apply, ApplyWorks

(* What a rebuild has read from the table is of the right kind.            *)
LEMMA ListTyping ==
    ASSUME TypeOK
    PROVE  \A u \in Clients : BackendsOf(u) \subseteq Backends
BY DEF TypeOK, StoreTypeOK, RowType, BackendsOf, ServingRows, ListPlacements, Found

(* A step of a rebuild keeps the types, and the proxy its epoch.           *)
LEMMA RebuildData ==
    ASSUME TypeOK, DataOK, RebuildsOK, NEW r \in Rebuilders, RebuildStep(r) \/ RebuildFails(r)
    PROVE  DataOK' /\ epoch' = epoch
<1>1. /\ rb[r].specs \subseteq Backends /\ rb[r].epoch \in Nat /\ rb[r].epoch <= epoch
      /\ rb[r].cands \in [Clients -> SUBSET Backends]
      /\ rb[r].user # NoUser => rb[r].user \in Clients
  BY DEF RebuildsOK, RebuildType
<1>2. CASE RebuildStarts(r) \/ RebuildLists(r) \/ RebuildFails(r)
  BY <1>2, Zenon
     DEF RebuildStarts, RebuildLists, RebuildFails, DataOK, proxyVars, agentVars, ProxyTypeOK
<1>3. CASE RebuildSyncs(r)
  BY <1>1, <1>3 DEF RebuildSyncs, SetBackends, DataOK, agentVars, ProxyTypeOK
<1>4. ASSUME NEW u \in Clients, RebuildAddsUser(r, u)
      PROVE  DataOK' /\ epoch' = epoch
  BY <1>4 DEF RebuildAddsUser, AddUser, DataOK, agentVars, ProxyTypeOK
<1>5. CASE RebuildRoutesUser(r)
  <2>1. Eligible(r) \subseteq Backends
    BY DEF Eligible, DataOK
  <2>2. CASE Eligible(r) # {}
    BY <1>1, <1>5, <2>1, <2>2 DEF RebuildRoutesUser, SetUserBackends, DataOK, agentVars, ProxyTypeOK
  <2>3. CASE Eligible(r) = {}
    BY <1>5, <2>3 DEF RebuildRoutesUser, DataOK, agentVars, proxyVars, ProxyTypeOK
  <2>. QED  BY <2>2, <2>3
<1>6. CASE RebuildEnds(r)
  BY <1>1, <1>6 DEF RebuildEnds, DataOK, proxyVars, ProxyTypeOK
<1>. QED
  BY <1>2, <1>3, <1>4, <1>5, <1>6 DEF RebuildStep
(* Every step keeps the types of the node's own variables, and the epoch   *)
(* of the proxy never goes back.                                           *)
LEMMA StepData ==
    ASSUME IInv, DataOK, RebuildsOK, [EntryNext]_nodeVars
    PROVE  DataOK' /\ epoch' >= epoch
<1>0. epoch \in Nat
  BY MaxEpochAssumption DEF DataOK, ProxyTypeOK
<1>1. CASE UNCHANGED entryVars
  BY <1>0, <1>1 DEF entryVars, proxyVars, agentVars, DataOK, ProxyTypeOK
<1>2. ASSUME NEW w \in Workers, Apply(w)
      PROVE  DataOK' /\ epoch' >= epoch
  BY <1>0, <1>2, ApplyData
<1>3. ASSUME NEW r \in Rebuilders, RebuildStep(r) \/ RebuildFails(r)
      PROVE  DataOK' /\ epoch' >= epoch
  BY <1>0, <1>3, RebuildData DEF IInv
<1>4. ASSUME NEW e \in Upstreams, UpstreamChanged(e)
      PROVE  DataOK' /\ epoch' >= epoch
  <2>1. e.backend \in Backends
    BY UpstreamsAssumption DEF UpstreamType
  <2>. QED  BY <1>0, <1>4, <2>1 DEF UpstreamChanged, proxyVars, DataOK, ProxyTypeOK
<1>5. CASE AgentCrash
  BY <1>0, <1>5 DEF AgentCrash, NoApply, ApplyPc, proxyVars, DataOK, ProxyTypeOK
<1>6. CASE ProxyCrash
  BY <1>0, <1>6, MaxEpochAssumption
     DEF ProxyCrash, ProxyRestarts, NoRoutes, agentVars, DataOK, ProxyTypeOK
<1>. QED
  BY <1>1, <1>2, <1>3, <1>4, <1>5, <1>6 DEF EntryNext, EntryStep, nodeVars

LEMMA NoRebuildTyping == NoRebuild \in RebuildType
BY DEF NoRebuild, RebuildType, RebuildPc, NoRoutes

(* A rebuild in progress keeps its type.                                   *)
LEMMA RebuildTyping ==
    ASSUME TypeOK, DataOK, RebuildsOK, NEW r \in Rebuilders, RebuildStep(r) \/ RebuildFails(r)
    PROVE  /\ rb' \in [Rebuilders -> RebuildType]
           /\ \A q \in Rebuilders : rb'[q].epoch <= epoch
<1>0. epoch \in Nat /\ NoRebuild.epoch = 0
  BY MaxEpochAssumption DEF DataOK, ProxyTypeOK, NoRebuild
<1>1. CASE RebuildStarts(r)
  <2>1. [NoRebuild EXCEPT !.pc = "sync", !.specs = registry, !.epoch = epoch] \in RebuildType
    BY <1>0, Zenon DEF NoRebuild, RebuildType, RebuildPc, NoRoutes, DataOK
  <2>2. [NoRebuild EXCEPT !.pc = "sync", !.specs = registry, !.epoch = epoch].epoch = epoch
    BY DEF NoRebuild
  <2>. QED  BY <1>0, <1>1, <2>1, <2>2 DEF RebuildStarts, RebuildsOK
<1>2. CASE RebuildSyncs(r)
  BY <1>2, ZenonT(40) DEF RebuildSyncs, RebuildsOK, RebuildType, RebuildPc
<1>3. CASE RebuildLists(r)
  <2>1. PICK cs \in [Clients -> SUBSET Backends] : cs = [u \in Clients |-> BackendsOf(u)]
    BY ListTyping, Zenon
  <2>2. PICK us \in SUBSET Clients : us = {u \in Clients : BackendsOf(u) # {}}
    BY Zenon
  <2>3. rb' = [rb EXCEPT ![r] = [rb[r] EXCEPT !.pc = "users", !.cands = cs, !.left = us]]
    BY <1>3, <2>1, <2>2, Zenon DEF RebuildLists, RebuildsOK, RebuildType
  <2>4. cs \in [Clients -> SUBSET Backends] /\ us \in SUBSET Clients
    BY <2>1, <2>2
  <2>. QED  BY <2>3, <2>4, ZenonT(40) DEF RebuildsOK, RebuildType, RebuildPc
<1>4. ASSUME NEW u \in Clients, RebuildAddsUser(r, u)
      PROVE  /\ rb' \in [Rebuilders -> RebuildType]
             /\ \A q \in Rebuilders : rb'[q].epoch <= epoch
  BY <1>4 DEF RebuildAddsUser, RebuildsOK, RebuildType
<1>5. CASE RebuildRoutesUser(r)
  <2>1. (rb[r].pending \/ Eligible(r) = {}) \in BOOLEAN
    OBVIOUS
  <2>2. rb' = [rb EXCEPT ![r] = [rb[r] EXCEPT !.user = NoUser,
                                             !.pending = rb[r].pending \/ Eligible(r) = {}]]
    BY <1>5, Zenon DEF RebuildRoutesUser, RebuildsOK, RebuildType
  <2>3. [rb[r] EXCEPT !.user = NoUser, !.pending = rb[r].pending \/ Eligible(r) = {}]
            \in RebuildType
    BY <2>1, Zenon DEF RebuildsOK, RebuildType
  <2>. QED  BY <2>2, <2>3, Zenon DEF RebuildsOK, RebuildType
<1>6. CASE RebuildEnds(r) \/ RebuildFails(r)
  BY <1>0, <1>6, NoRebuildTyping DEF RebuildEnds, RebuildFails, RebuildsOK
<1>. QED
  BY <1>1, <1>2, <1>3, <1>4, <1>5, <1>6 DEF RebuildStep
LEMMA StepRebuilds ==
    ASSUME IInv, DataOK, RebuildsOK, [EntryNext]_nodeVars
    PROVE  RebuildsOK'
<1>0. epoch \in Nat /\ epoch' \in Nat /\ epoch' >= epoch /\ NoRebuild.epoch = 0
  BY StepData, MaxEpochAssumption DEF DataOK, ProxyTypeOK, NoRebuild
<1>1. CASE UNCHANGED rb
  BY <1>0, <1>1 DEF RebuildsOK, RebuildType
<1>2. ASSUME NEW w \in Workers, Apply(w)
      PROVE  UNCHANGED rb
  BY <1>2 DEF Apply, ApplyWorks, SimpleApply, ValidateBackend, InvalidBackend, SwapRoute,
              ApplyGetFails, DeferRoute, ProxyCall, UnknownBackend, ProxyCallFails, ApplyPuts,
              ApplyPutFails, DrainEnds, DrainFails, ApplyReturns
<1>3. ASSUME NEW r \in Rebuilders, RebuildStep(r) \/ RebuildFails(r)
      PROVE  RebuildsOK'
  <2>1. /\ rb' \in [Rebuilders -> RebuildType]
        /\ \A q \in Rebuilders : rb'[q].epoch <= epoch
    BY <1>3, RebuildTyping DEF IInv
  <2>2. \A q \in Rebuilders : rb'[q].epoch \in Nat
    BY <2>1 DEF RebuildType
  <2>. QED  BY <1>0, <2>1, <2>2 DEF RebuildsOK
<1>4. CASE AgentCrash
  BY <1>0, <1>4, NoRebuildTyping DEF AgentCrash, RebuildsOK
<1>. QED
  BY <1>1, <1>2, <1>3, <1>4
     DEF EntryNext, EntryStep, UpstreamChanged, ProxyCrash, nodeVars, entryVars

(* HasPending stays a flag.                                                *)
LEMMA StepFlag ==
    ASSUME RebuildsOK, FlagOK, [EntryNext]_nodeVars
    PROVE  FlagOK'
<1>1. CASE UNCHANGED pending
  BY <1>1, Zenon DEF FlagOK
<1>2. ASSUME NEW w \in Workers, Apply(w)
      PROVE  UNCHANGED pending \/ pending' = TRUE
  BY <1>2, Zenon
     DEF Apply, ApplyWorks, SimpleApply, ValidateBackend, InvalidBackend, SwapRoute,
         ApplyGetFails, DeferRoute, ProxyCall, UnknownBackend, ProxyCallFails, ApplyPuts,
         ApplyPutFails, DrainEnds, DrainFails, ApplyReturns, agentVars
<1>3. ASSUME NEW r \in Rebuilders, RebuildEnds(r)
      PROVE  pending' \in BOOLEAN
  <2>1. rb[r].pending \in BOOLEAN
    BY DEF RebuildsOK, RebuildType
  <2>. QED  BY <1>3, <2>1, Zenon DEF RebuildEnds
<1>4. ASSUME NEW r \in Rebuilders, RebuildStep(r) \/ RebuildFails(r), ~RebuildEnds(r)
      PROVE  UNCHANGED pending
  BY <1>4, Zenon
     DEF RebuildStep, RebuildFails, RebuildStarts, RebuildSyncs, RebuildLists, RebuildAddsUser,
         RebuildRoutesUser, agentVars
<1>5. CASE AgentCrash
  BY <1>5, Zenon DEF AgentCrash, FlagOK
<1>6. ASSUME \/ UNCHANGED nodeVars \/ ProxyCrash
             \/ \E m \in Messages : (Publish(m) \/ Deliver(m)) /\ UNCHANGED entryVars
             \/ \E w \in Workers : Handle(w) /\ UNCHANGED entryVars
             \/ \E e \in Upstreams : UpstreamChanged(e)
      PROVE  UNCHANGED pending
  BY <1>6, Zenon DEF UpstreamChanged, ProxyCrash, nodeVars, entryVars, agentVars
<1>7. CASE \E w \in Workers : Apply(w)
  BY <1>1, <1>2, <1>7, Zenon DEF FlagOK
<1>8. CASE \E r \in Rebuilders : RebuildStep(r) \/ RebuildFails(r)
  BY <1>1, <1>3, <1>4, <1>8, Zenon DEF FlagOK
<1>. QED
  BY <1>1, <1>5, <1>6, <1>7, <1>8 DEF EntryNext, EntryStep

(* The proxy's users and routes, the registry, the calls of Apply and the  *)
(* rebuilds of an entry node keep their types, and no recorded epoch is    *)
(* ahead of the proxy's, whatever fails or restarts.                       *)
THEOREM EntryTypes == EntrySpec => []EntryTypeOK
<1>. DEFINE Inv == IInv /\ DataOK /\ RebuildsOK /\ FlagOK
<1>1. EntryInit => Inv
  <2> SUFFICES ASSUME EntryInit PROVE Inv
    OBVIOUS
  <2>1. IInv
    BY InitIInv DEF EntryInit
  <2>2. DataOK
    BY UpstreamsAssumption, MaxEpochAssumption
       DEF EntryInit, ProxyInit, NoRoutes, NoApply, ApplyPc, DataOK, ProxyTypeOK
  <2>3. RebuildsOK
    BY NoRebuildTyping DEF EntryInit, ProxyInit, NoRebuild, RebuildsOK
  <2>4. FlagOK
    BY Zenon DEF EntryInit, FlagOK
  <2>. QED  BY <2>1, <2>2, <2>3, <2>4
<1>2. Inv /\ [EntryNext]_nodeVars => Inv'
  <2> SUFFICES ASSUME Inv, [EntryNext]_nodeVars PROVE Inv'
    OBVIOUS
  <2>1. IInv'
    BY EntryCommandStep, StepTypes, StepShard, StepHandler DEF IInv
  <2>. QED  BY <2>1, StepData, StepRebuilds, StepFlag
<1>3. Inv => EntryTypeOK
  BY TypeParts, ZenonT(40) DEF IInv
<1>. QED  BY <1>1, <1>2, <1>3, PTL DEF EntrySpec
-----------------------------------------------------------------------------
(* The users and routes of the proxy, while no process restarts and no     *)
(* rebuild runs.                                                           *)

(* What the control plane sees to: a placement keeps its client, no other  *)
(* placement of this node has that client, a version is issued once and a  *)
(* revoked placement is not wanted active.                                 *)
OneClientEach == \A c, d \in Commands : c.pid = d.pid <=> c.client = d.client

VersionsAreIssuedOnce == \A c, d \in Commands : c.pid = d.pid /\ c.op = d.op => c = d

RevokedIsInactive == \A c \in Commands : c.revoked => c.desired = "inactive"

(* Backends are announced and not withdrawn, and no shard can overtake     *)
(* another between its registry read and its SetBackends: the set a shard  *)
(* is about to send would be older than the one in the proxy.              *)
BackendsOnlyJoin ==
    /\ \A e \in Upstreams : ~e.removed
    /\ Upstreams = {} \/ \A v, w \in Workers : v = w

(* Only the commands change the proxy, and every apply result arrives.     *)
OnlyCommands == Rebuilders = {} /\ "publish" \notin Faults

Ordered ==
    OneClientEach /\ VersionsAreIssuedOnce /\ RevokedIsInactive /\ BackendsOnlyJoin /\ OnlyCommands

(* A call of the handler that is going to report an error.                 *)
Failing(wk) == wk.pc = "persist_error" \/ (wk.pc = "report" /\ wk.status = "error")

HasFailed(p, wks, rs) ==
    \/ \E r \in rs : r.pid = p /\ r.status = "error"
    \/ \E w \in Workers : Failing(wks[w]) /\ wks[w].msg.pid = p

Storing == {"start", "swap", "sync", "add", "select", "remove", "put"}

(* Until it stores the command's row, a call of Apply has the stored row   *)
(* in hand; and the phase it is in says what its command asks for.         *)
CallKnows(wk, at, st) ==
    /\ wk.pc # "execute" => at = "start"
    /\ wk.pc = "execute" /\ at \in Storing => wk.existing = st[wk.msg.pid]
    /\ at \in {"swap", "sync", "add", "select"} => Serving(wk.msg)
    /\ at = "swap" => IsBackendFlip(wk.existing, wk.msg)
    /\ at = "add" => ~IsBackendFlip(wk.existing, wk.msg)
    /\ at = "remove" => ~Serving(wk.msg)

KnowInv == \A w \in Workers : CallKnows(worker[w], fx[w].pc, store)

(* Every row was stored for a command.                                     *)
RowInv ==
    \A p \in Placements :
        Found(store[p]) => \E c \in Commands, a \in AppliedState : c.pid = p /\ store[p] = Row(c, a)

(* The pool only grows.                                                    *)
PoolInv ==
    /\ pool \subseteq registry
    /\ \A w \in Workers : fx[w].pc = "sync" =>
           /\ pool \subseteq fx[w].specs /\ fx[w].specs \subseteq registry
           /\ Upstreams = {} => fx[w].specs = registry

(* While no command of its placement fails, a call of Apply handles a      *)
(* newer version than the stored one until it has stored it.               *)
CleanCall(wk, at, st) ==
    /\ wk.pc = "execute" /\ at \in Storing =>
           (Found(st[wk.msg.pid]) => st[wk.msg.pid].op < wk.msg.op)
    /\ wk.pc = "persist" \/ (wk.pc = "execute" /\ at \notin Storing) =>
           st[wk.msg.pid] = Row(wk.msg, "applied")

CleanInv ==
    /\ \A w \in Workers : CleanCall(worker[w], fx[w].pc, store)
                          \/ HasFailed(worker[w].msg.pid, worker, reports)
    /\ \A p \in Placements : HasFailed(p, worker, reports)
                             \/ (Found(store[p]) => store[p].applied = "applied")

(* Client u is accepted and may use backend b, or its route is pending.    *)
Accepted(u, b, us, rt, pl, pend) == u \in us /\ (b \in rt[u] \cap pl \/ pend)

(* What the proxy calls of a call have achieved.                           *)
CallServes(wk, at, us, rt, pl, pend) ==
    LET c == wk.msg IN
    wk.pc = "execute" =>
        /\ at = "select" => c.client \in us
        /\ at = "put" /\ Serving(c) => Accepted(c.client, c.backend, us, rt, pl, pend)
        /\ at = "put" /\ ~Serving(c) => c.client \notin us

CallInv ==
    \A w \in Workers : CallServes(worker[w], fx[w].pc, proxyUsers, route, pool, pending)
                       \/ HasFailed(worker[w].msg.pid, worker, reports)

(* A call is about to store that placement p is not served, or is making   *)
(* sure that it is.                                                        *)
Ending(p, wks, f) ==
    \E w \in Workers : wks[w].pc = "execute" /\ f[w].pc = "put"
                       /\ wks[w].msg.pid = p /\ ~Serving(wks[w].msg)

Starting(p, wks) ==
    \E w \in Workers : wks[w].pc = "execute" /\ wks[w].msg.pid = p /\ Serving(wks[w].msg)

ServedInv ==
    \A p \in Placements :
        \/ ~Found(store[p]) \/ HasFailed(p, worker, reports)
        \/ ~Serving(store[p]) \/ Ending(p, worker, fx)
        \/ Accepted(store[p].client, store[p].backend, proxyUsers, route, pool, pending)

AbsentInv ==
    \A p \in Placements :
        \/ ~Found(store[p]) \/ HasFailed(p, worker, reports)
        \/ Serving(store[p]) \/ Starting(p, worker)
        \/ store[p].client \notin proxyUsers

EInv == IInv /\ DataOK /\ RebuildsOK /\ KnowInv /\ RowInv /\ PoolInv

UInv == EInv /\ CleanInv /\ CallInv /\ ServedInv /\ AbsentInv

-----------------------------------------------------------------------------
(* What the steps of a call of Apply do.                                   *)

Moves(w) ==
    \/ SimpleApply(w) \/ ValidateBackend(w) \/ SwapRoute(w) \/ DeferRoute(w) \/ DrainEnds(w)
    \/ \E at \in Calls : ProxyCall(w, at)

(* A row serves whom its command serves.                                   *)
LEMMA RowServes ==
    ASSUME NEW c, NEW a
    PROVE  Row(c, a).client = c.client /\ Row(c, a).backend = c.backend
           /\ (Serving(Row(c, a)) <=> Serving(c))
BY DEF Row, Serving

(* A step of Apply ends the call with an error, stores the row, ends it    *)
(* with success, or moves on within it.                                    *)
LEMMA ApplyCases ==
    ASSUME TypeOK, DataOK, NEW w \in Workers, Apply(w)
    PROVE  /\ worker[w].pc = "execute" /\ reports' = reports
           /\ worker'[w].msg = worker[w].msg
           /\ \A v \in Workers \ {w} : worker'[v] = worker[v] /\ fx'[v] = fx[v]
           /\ \/ worker'[w].pc = "persist_error" /\ fx'[w].pc = "start" /\ store' = store
              \/ ApplyPuts(w)
              \/ ApplyReturns(w)
              \/ Moves(w) /\ UNCHANGED <<store, worker>>
<1>1. ASSUME NEW at, ApplyFails(w, at)
      PROVE  /\ worker[w].pc = "execute" /\ reports' = reports
             /\ worker'[w].msg = worker[w].msg
             /\ \A v \in Workers \ {w} : worker'[v] = worker[v] /\ fx'[v] = fx[v]
             /\ worker'[w].pc = "persist_error" /\ fx'[w].pc = "start" /\ store' = store
  BY <1>1, Zenon
     DEF ApplyFails, Applying, ExecutorFails, Goto, NoApply, TypeOK, WorkerType, DataOK
<1>2. CASE \/ InvalidBackend(w) \/ ApplyGetFails(w) \/ UnknownBackend(w) \/ ApplyPutFails(w)
           \/ DrainFails(w) \/ \E at \in Calls : ProxyCallFails(w, at)
  BY <1>1, <1>2, Zenon
     DEF InvalidBackend, ApplyGetFails, UnknownBackend, ApplyPutFails, DrainFails, ProxyCallFails
<1>3. CASE Moves(w)
  <2>1. worker[w].pc = "execute" /\ UNCHANGED <<store, worker, reports>>
    BY <1>3, Zenon
       DEF Moves, SimpleApply, ValidateBackend, SwapRoute, DeferRoute, DrainEnds, ProxyCall,
                Applying, vars, applierVars
  <2>2. \E to : Advance(w, to)
    BY <1>3 DEF Moves, SimpleApply, ValidateBackend, SwapRoute, DeferRoute, DrainEnds, ProxyCall
  <2>. QED  BY <1>3, <2>1, <2>2 DEF Advance, DataOK
<1>4. CASE ApplyPuts(w)
  BY <1>4, Zenon DEF ApplyPuts, Applying, ExecutorPersists, applierVars, Advance, DataOK
<1>5. CASE ApplyReturns(w)
  BY <1>5, Zenon
     DEF ApplyReturns, Applying, ExecutorSucceeds, Goto, NoApply, TypeOK, WorkerType, DataOK
<1>. QED
  BY <1>2, <1>3, <1>4, <1>5 DEF Apply, ApplyWorks, Moves

(* ApplyPuts in full.                                                      *)
LEMMA PutsEffect ==
    ASSUME IInv, DataOK, NEW w \in Workers, ApplyPuts(w)
    PROVE  /\ worker[w].pc = "execute" /\ fx[w].pc = "put" /\ worker' = worker
           /\ fx'[w].pc \in {"drain", "return"}
           /\ PutPlacement(worker[w].msg, "applied")
           /\ store'[worker[w].msg.pid] = Row(worker[w].msg, "applied")
           /\ \A p \in Placements \ {worker[w].msg.pid} : store'[p] = store[p]
           /\ UNCHANGED <<proxyVars, agentVars>>
<1>1. /\ worker[w].pc = "execute" /\ fx[w].pc = "put" /\ worker' = worker
      /\ PutPlacement(worker[w].msg, "applied")
      /\ UNCHANGED <<proxyVars, agentVars>>
  BY DEF ApplyPuts, Applying, ExecutorPersists, applierVars
<1>2. fx'[w].pc \in {"drain", "return"}
  BY DEF ApplyPuts, Advance, DataOK
<1>3. /\ store'[worker[w].msg.pid] = Row(worker[w].msg, "applied")
      /\ \A p \in Placements \ {worker[w].msg.pid} : store'[p] = store[p]
  BY <1>1, PutTyping DEF AppliedState
<1>. QED  BY <1>1, <1>2, <1>3

LEMMA ReturnsEffect ==
    ASSUME IInv, DataOK, NEW w \in Workers, ApplyReturns(w)
    PROVE  /\ worker[w].pc = "execute" /\ fx[w].pc = "return"
           /\ worker'[w].pc = "persist" /\ fx'[w].pc = "start"
           /\ UNCHANGED <<store, proxyVars, agentVars>>
BY DEF ApplyReturns, Applying, ExecutorSucceeds, Goto, NoApply, IInv, TypeOK, WorkerType, DataOK

(* Every step of the stable node is one of these.                          *)
LEMMA StepKinds ==
    ASSUME [EntryStep]_nodeVars, OnlyCommands
    PROVE  \/ UNCHANGED <<store, worker, reports, entryVars>>
           \/ \E w \in Workers : Handle(w) /\ UNCHANGED entryVars
           \/ \E w \in Workers : Apply(w)
           \/ \E e \in Upstreams : UpstreamChanged(e)
BY DEF EntryStep, OnlyCommands, Publish, Deliver, nodeVars, vars, applierVars

LEMMA StableIsEntry == [EntryStep]_nodeVars => [EntryNext]_nodeVars
BY DEF EntryNext

(* A write for the command of one call leaves the rows of the others.      *)
LEMMA OthersRows ==
    ASSUME IInv, NEW w \in Workers, NEW a \in AppliedState,
           worker[w].pc \in {"execute", "persist", "persist_error"},
           PutPlacement(worker[w].msg, a), NEW v \in Workers \ {w},
           worker[v].pc \in {"execute", "persist"}
    PROVE  store'[worker[v].msg.pid] = store[worker[v].msg.pid]
<1>1. worker[v].msg.pid \in Placements /\ worker[v].msg.pid # worker[w].msg.pid
  BY CallAlone
<1>. QED  BY <1>1 DEF PutPlacement, IInv, TypeOK, StoreTypeOK

(* Neither a step of another call's handler nor one of its executor        *)
(* changes the row of a call's placement.                                  *)
LEMMA OthersSafe ==
    ASSUME IInv, DataOK, NEW w \in Workers, Handle(w) \/ Apply(w),
           NEW v \in Workers \ {w}, worker[v].pc \in {"execute", "persist"}
    PROVE  store'[worker[v].msg.pid] = store[worker[v].msg.pid]
<1>. USE DEF IInv
<1>1. CASE store' = store
  BY <1>1
<1>2. CASE worker[w].pc = "persist" /\ PutPlacement(worker[w].msg, "applied")
  BY <1>2, OthersRows DEF AppliedState
<1>3. CASE worker[w].pc = "persist_error" /\ PutPlacement(worker[w].msg, "error")
  BY <1>3, OthersRows DEF AppliedState
<1>4. CASE worker[w].pc = "execute" /\ PutPlacement(worker[w].msg, "applied")
  BY <1>4, OthersRows DEF AppliedState
<1>5. CASE Handle(w)
  BY <1>1, <1>2, <1>3, <1>5, HandleEffect, Zenon
<1>6. CASE Apply(w)
  BY <1>1, <1>4, <1>6, ApplyCases, PutsEffect, ReturnsEffect
<1>. QED  BY <1>5, <1>6

(* A call that a step does not concern keeps what it knows.                *)
LEMMA OthersKnow ==
    ASSUME EInv, NEW v \in Workers, worker'[v] = worker[v], fx'[v] = fx[v],
           worker[v].pc \in {"execute", "persist"} =>
               store'[worker[v].msg.pid] = store[worker[v].msg.pid]
    PROVE  CallKnows(worker'[v], fx'[v].pc, store')
BY DEF EInv, KnowInv, CallKnows

(* Every step keeps what the calls of Apply know.                          *)
LEMMA StepKnow ==
    ASSUME EInv, Ordered, [EntryStep]_nodeVars
    PROVE  KnowInv'
<1>1. CASE UNCHANGED <<store, worker, fx>>
  BY <1>1 DEF EInv, KnowInv, CallKnows
<1>2. ASSUME NEW w \in Workers, Handle(w), UNCHANGED entryVars
      PROVE  KnowInv'
  <2>1. TypeOK /\ fx' = fx
    BY <1>2 DEF EInv, IInv, entryVars
  <2>2. \A v \in Workers \ {w} : worker'[v] = worker[v]
    BY <1>2, <2>1, HandleEffect
  <2>3. \A v \in Workers \ {w} : CallKnows(worker'[v], fx'[v].pc, store')
    BY <1>2, <2>1, <2>2, OthersSafe, OthersKnow, Zenon DEF EInv
  <2>4. /\ fx'[w].pc = "start"
        /\ worker'[w].pc = "execute" => worker'[w].existing = store'[worker'[w].msg.pid]
    BY <1>2, <2>1, HandleEffect DEF EInv, KnowInv, CallKnows
  <2>5. CallKnows(worker'[w], fx'[w].pc, store')
    BY <2>4, Zenon DEF CallKnows
  <2>. QED  BY <2>3, <2>5 DEF KnowInv
<1>3. ASSUME NEW w \in Workers, Apply(w)
      PROVE  KnowInv'
  <2>0. TypeOK /\ DataOK
    BY DEF EInv, IInv
  <2>1. \A v \in Workers \ {w} : worker'[v] = worker[v] /\ fx'[v] = fx[v]
    BY <1>3, <2>0, ApplyCases
  <2>2. \A v \in Workers \ {w} : CallKnows(worker'[v], fx'[v].pc, store')
    BY <1>3, <2>1, OthersSafe, OthersKnow DEF EInv
  <2>. SUFFICES CallKnows(worker'[w], fx'[w].pc, store')
    BY <2>2 DEF KnowInv
  <2>3. CASE worker'[w].pc = "persist_error" /\ fx'[w].pc = "start"
    BY <2>3 DEF CallKnows
  <2>4. CASE ApplyPuts(w)
    BY <2>4, PutsEffect DEF CallKnows, EInv, Storing
  <2>5. CASE ApplyReturns(w)
    BY <2>5, ReturnsEffect DEF CallKnows, EInv
  <2>6. CASE Moves(w) /\ UNCHANGED <<store, worker>>
    <3>1. /\ worker[w].pc = "execute" /\ worker[w].msg \in Commands
          /\ fx[w].pc \in Storing => worker[w].existing = store[worker[w].msg.pid]
          /\ CallKnows(worker[w], fx[w].pc, store)
      BY <1>3, <2>0, ApplyCases, CallTyping DEF EInv, KnowInv, CallKnows
    <3>2. ASSUME NEW to \in ApplyPc, Advance(w, to)
          PROVE  fx'[w].pc = to
      BY <2>0, <3>2 DEF Advance, DataOK
    <3>3. Flipping(w) => Serving(worker[w].msg)
      BY <3>1, Zenon DEF Flipping, IsBackendFlip, Serving, Ordered, RevokedIsInactive
    <3>. USE <3>1 DEF CallKnows, ApplyPc, Storing
    <3>4. CASE SimpleApply(w)
      BY <2>6, <3>2, <3>3, <3>4, Zenon DEF SimpleApply, Applying, Flipping
    <3>5. CASE ValidateBackend(w)
      BY <2>6, <3>2, <3>3, <3>5, Zenon DEF ValidateBackend, Applying, Flipping
    <3>6. CASE SwapRoute(w)
      BY <2>6, <3>2, <3>6, Zenon DEF SwapRoute, Applying
    <3>7. CASE DeferRoute(w) \/ DrainEnds(w)
      BY <2>6, <3>2, <3>7 DEF DeferRoute, DrainEnds, Applying
    <3>8. ASSUME NEW at \in Calls, ProxyCall(w, at)
          PROVE  CallKnows(worker'[w], fx'[w].pc, store')
      BY <2>6, <3>2, <3>8, Zenon DEF ProxyCall, Applying, AfterCall, Calls, Flipping
    <3>. QED  BY <2>6, <3>4, <3>5, <3>6, <3>7, <3>8, ZenonT(40) DEF Moves
  <2>. QED  BY <1>3, <2>0, <2>3, <2>4, <2>5, <2>6, ApplyCases
<1>. QED
  BY <1>1, <1>2, <1>3, StepKinds DEF Ordered, UpstreamChanged, entryVars, vars, applierVars

(* Every step stores rows of commands only.                                *)
LEMMA StepRows ==
    ASSUME EInv, [EntryStep]_nodeVars
    PROVE  RowInv'
<1>1. CASE store' = store
  BY <1>1 DEF EInv, RowInv
<1>2. ASSUME NEW c \in Commands, NEW a \in AppliedState, PutPlacement(c, a)
      PROVE  RowInv'
  <2>1. store'[c.pid] = Row(c, a) /\ \A p \in Placements \ {c.pid} : store'[p] = store[p]
    BY <1>2, RowTyping DEF PutPlacement, EInv, IInv, TypeOK, StoreTypeOK
  <2>. QED  BY <2>1 DEF EInv, RowInv
<1>. QED  BY <1>1, <1>2, StepStore, EntryCommandStep, StableIsEntry DEF EInv

(* What a call of Apply sends to SetBackends is no older than the pool.    *)
LEMMA StepPool ==
    ASSUME EInv, Ordered, [EntryStep]_nodeVars
    PROVE  PoolInv' /\ pool \subseteq pool'
<1>1. CASE UNCHANGED entryVars
  BY <1>1 DEF EInv, PoolInv, entryVars, proxyVars, agentVars
<1>2. ASSUME NEW w \in Workers, Apply(w)
      PROVE  PoolInv' /\ pool \subseteq pool'
  <2>0. TypeOK /\ DataOK /\ PoolInv
    BY DEF EInv, IInv
  <2>1. registry' = registry /\ \A v \in Workers \ {w} : fx'[v] = fx[v]
    <3>1. \A v \in Workers \ {w} : fx'[v] = fx[v]
      BY <1>2, <2>0, ApplyCases, Zenon
    <3>2. registry' = registry
      BY <1>2, Zenon
         DEF Apply, ApplyWorks, SimpleApply, ValidateBackend, InvalidBackend, SwapRoute,
             ApplyGetFails, DeferRoute, ProxyCall, UnknownBackend, ProxyCallFails, ApplyPuts,
             ApplyPutFails, DrainEnds, DrainFails, ApplyReturns, agentVars
    <3>. QED  BY <3>1, <3>2, Zenon
  <2>2. fx'[w].pc = "sync" => fx'[w].specs = registry
    <3>1. CASE fx' = [fx EXCEPT ![w] = NoApply]
      BY <2>0, <3>1 DEF NoApply, DataOK
    <3>2. ASSUME NEW to, Advance(w, to)
          PROVE  fx'[w].pc = "sync" => fx'[w].specs = registry
      BY <2>0, <3>2 DEF Advance, DataOK
    <3>3. fx' = [fx EXCEPT ![w] = NoApply] \/ \E to : Advance(w, to)
      BY <1>2, Zenon
         DEF Apply, ApplyWorks, SimpleApply, ValidateBackend, InvalidBackend, SwapRoute,
             ApplyGetFails, DeferRoute, ProxyCall, UnknownBackend, ProxyCallFails, ApplyPuts,
             ApplyPutFails, DrainEnds, DrainFails, ApplyReturns, ApplyFails
    <3>. QED  BY <3>1, <3>2, <3>3, Zenon
  <2>3. \/ pool' = pool
        \/ fx[w].pc = "sync" /\ pool' = fx[w].specs
    <3>1. UNCHANGED proxyVars \/ \E at \in Calls : fx[w].pc = at /\ ProxyEffect(w, at)
      BY <1>2, Zenon
         DEF Apply, ApplyWorks, SimpleApply, ValidateBackend, InvalidBackend, SwapRoute,
             ApplyGetFails, DeferRoute, ProxyCall, UnknownBackend, ProxyCallFails, ApplyPuts,
             ApplyPutFails, DrainEnds, DrainFails, ApplyReturns, ApplyFails, Applying
    <3>. QED
      BY <3>1, Zenon
         DEF ProxyEffect, SetBackends, AddUser, SelectBackend, RemoveUser, proxyVars
  <2>4. CASE pool' = pool
    BY <2>0, <2>1, <2>2, <2>4, Zenon DEF PoolInv
  <2>5. CASE fx[w].pc = "sync" /\ pool' = fx[w].specs
    BY <2>0, <2>1, <2>2, <2>5 DEF PoolInv, Ordered, BackendsOnlyJoin
  <2>. QED  BY <2>3, <2>4, <2>5
<1>3. ASSUME NEW e \in Upstreams, UpstreamChanged(e)
      PROVE  PoolInv' /\ pool \subseteq pool'
  BY <1>3 DEF UpstreamChanged, EInv, PoolInv, proxyVars, Ordered, BackendsOnlyJoin
<1>. QED
  BY <1>1, <1>2, <1>3, StepKinds DEF Ordered, entryVars

(* Without rebuilds a route that is pending stays so.                      *)
LEMMA PendingStays ==
    ASSUME OnlyCommands, [EntryStep]_nodeVars
    PROVE  pending => pending'
<1>1. ASSUME NEW w \in Workers, Apply(w)
      PROVE  UNCHANGED pending \/ pending' = TRUE
  BY <1>1, Zenon
     DEF Apply, ApplyWorks, SimpleApply, ValidateBackend, InvalidBackend, SwapRoute,
         ApplyGetFails, DeferRoute, ProxyCall, UnknownBackend, ProxyCallFails, ApplyPuts,
         ApplyPutFails, DrainEnds, DrainFails, ApplyReturns, agentVars
<1>2. CASE UNCHANGED entryVars
  BY <1>2, Zenon DEF entryVars, agentVars
<1>3. ASSUME NEW e \in Upstreams, UpstreamChanged(e)
      PROVE  UNCHANGED pending
  BY <1>3 DEF UpstreamChanged
<1>4. ASSUME NEW w \in Workers, Apply(w)
      PROVE  pending => pending'
  BY <1>1, <1>4, Zenon
<1>. QED
  BY <1>2, <1>3, <1>4, StepKinds, Zenon

(* What a step of Apply leaves alone in the proxy: it takes nobody's       *)
(* access but in "remove", gives nobody access but in "add", and in both   *)
(* only its own client's.                                                  *)
LEMMA ProxyKeeps ==
    ASSUME TypeOK, DataOK, NEW w \in Workers, Apply(w), NEW u \in Clients
    PROVE  /\ u # worker[w].msg.client \/ fx[w].pc # "remove" =>
                  (u \in proxyUsers => u \in proxyUsers') /\ route[u] \subseteq route'[u]
           /\ u # worker[w].msg.client \/ fx[w].pc # "add" =>
                  (u \in proxyUsers' => u \in proxyUsers)
<1>1. \/ UNCHANGED proxyVars
      \/ \E at \in Calls : Applying(w, at) /\ ProxyEffect(w, at)
  BY DEF Apply, ApplyWorks, SimpleApply, ValidateBackend, InvalidBackend, SwapRoute,
         ApplyGetFails, DeferRoute, ProxyCall, UnknownBackend, ProxyCallFails, ApplyPuts,
         ApplyPutFails, DrainEnds, DrainFails, ApplyReturns, ApplyFails
<1>2. CASE UNCHANGED proxyVars
  BY <1>2, Zenon DEF proxyVars
<1>3. ASSUME NEW at \in Calls, Applying(w, at), ProxyEffect(w, at)
      PROVE  /\ u # worker[w].msg.client \/ fx[w].pc # "remove" =>
                    (u \in proxyUsers => u \in proxyUsers') /\ route[u] \subseteq route'[u]
             /\ u # worker[w].msg.client \/ fx[w].pc # "add" =>
                    (u \in proxyUsers' => u \in proxyUsers)
  BY <1>3 DEF Applying, ProxyEffect, SetBackends, AddUser, SelectBackend, RemoveUser, DataOK,
              ProxyTypeOK
<1>. QED  BY <1>1, <1>2, <1>3, Zenon

(* A placement that has failed stays failed: the error is reported before  *)
(* its call ends.                                                          *)
LEMMA FailedStays ==
    ASSUME IInv, DataOK, OnlyCommands, [EntryStep]_nodeVars,
           NEW p \in Placements, HasFailed(p, worker, reports)
    PROVE  HasFailed(p, worker', reports')
<1>1. reports \subseteq reports'
  BY StepReports, EntryCommandStep, StableIsEntry
<1>2. ASSUME NEW w \in Workers, Failing(worker[w]), worker[w].msg.pid = p
      PROVE  HasFailed(p, worker', reports')
  <2>1. CASE worker'[w] = worker[w]
    BY <1>2, <2>1, Zenon DEF HasFailed
  <2>2. CASE Handle(w)
    <3>1. CASE PersistError(w) \/ PersistErrorFails(w)
      BY <1>2, <3>1, ZenonT(40)
         DEF PersistError, PersistErrorFails, Goto, IInv, TypeOK, WorkerType, Failing, HasFailed
    <3>2. CASE PublishReport(w)
      <4>1. worker[w].pc = "report" /\ Report(w) \in reports'
        BY <3>2 DEF PublishReport, Goto
      <4>. QED  BY <1>2, <4>1, ReportTyping DEF Failing, HasFailed
    <3>. QED
      BY <1>2, <2>2, <3>1, <3>2
         DEF Handle, HandleWorks, HandleFails, RejectGarbage, DropForeign, LoadFails, SkipStale,
             SkipIdempotent, Dispatch, Take, PersistApplied, PersistAppliedFails,
             PublishReportFails, Ack, AckLost, Nak, Goto, Failing, OnlyCommands
  <2>3. ASSUME NEW v \in Workers, Handle(v), v # w
        PROVE  worker'[w] = worker[w]
    BY <2>3, HandleEffect, Zenon DEF IInv
  <2>4. ASSUME NEW v \in Workers, Apply(v)
        PROVE  worker'[w] = worker[w]
    BY <1>2, <2>4, ApplyCases DEF IInv, Failing
  <2>. QED
    BY <2>1, <2>2, <2>3, <2>4, StepKinds DEF UpstreamChanged, vars, applierVars
<1>. QED  BY <1>1, <1>2 DEF HasFailed

-----------------------------------------------------------------------------
(* Placements none of whose commands fails.                                *)

(* The handler stores nothing new for them.                                *)
LEMMA HandleRows ==
    ASSUME EInv, CleanInv, OnlyCommands, [EntryStep]_nodeVars, NEW w \in Workers, Handle(w),
           NEW p \in Placements, ~HasFailed(p, worker', reports')
    PROVE  store'[p] = store[p]
<1>0. IInv /\ TypeOK /\ DataOK
  BY DEF EInv, IInv
<1>1. ~HasFailed(p, worker, reports)
  BY <1>0, FailedStays
<1>2. CASE store' = store
  BY <1>2
<1>3. CASE worker[w].pc = "persist" /\ PutPlacement(worker[w].msg, "applied")
  <2>1. /\ store'[worker[w].msg.pid] = Row(worker[w].msg, "applied")
        /\ \A q \in Placements \ {worker[w].msg.pid} : store'[q] = store[q]
    BY <1>0, <1>3, PutTyping, Zenon DEF AppliedState
  <2>2. CASE worker[w].msg.pid = p
    BY <1>1, <1>3, <2>1, <2>2, Zenon DEF CleanInv, CleanCall
  <2>. QED  BY <2>1, <2>2, Zenon
<1>4. CASE worker[w].pc = "persist_error" /\ PutPlacement(worker[w].msg, "error")
  <2>1. \A q \in Placements \ {worker[w].msg.pid} : store'[q] = store[q]
    BY <1>0, <1>4, PutTyping DEF AppliedState
  <2>2. worker[w].msg.pid # p
    BY <1>1, <1>4 DEF HasFailed, Failing
  <2>. QED  BY <2>1, <2>2, Zenon
<1>. QED  BY <1>0, <1>2, <1>3, <1>4, HandleEffect, Zenon

(* A version is dispatched only when it is newer than the stored one.      *)
LEMMA DispatchIsNewer ==
    ASSUME EInv, Ordered, CleanInv, NEW c \in Commands, ~HasFailed(c.pid, worker, reports),
           Found(store[c.pid]), ~IsStale(store[c.pid], c), ~IsIdempotent(store[c.pid], c)
    PROVE  store[c.pid].op < c.op
<1>1. c.pid \in Placements /\ c.op \in Nat
  BY RowTyping DEF AppliedState
<1>2. PICK d \in Commands, a \in AppliedState : d.pid = c.pid /\ store[c.pid] = Row(d, a)
  BY <1>1, Zenon DEF EInv, RowInv
<1>3. store[c.pid].op = d.op /\ d.op \in Nat /\ store[c.pid].applied = a
  BY <1>2, RowTyping, SMTT(30)
<1>4. a = "applied"
  BY <1>1, <1>3, Zenon DEF CleanInv
<1>5. CASE d.op = c.op
  <2>1. d = c
    BY <1>2, <1>5 DEF Ordered, VersionsAreIssuedOnce
  <2>. QED  BY <1>2, <1>4, <2>1 DEF IsIdempotent, Row
<1>. QED  BY <1>1, <1>3, <1>5 DEF IsStale

(* The rows of such placements are applied, and their calls know a newer   *)
(* version until they have stored it.                                      *)
LEMMA StepClean ==
    ASSUME EInv, CleanInv, Ordered, [EntryStep]_nodeVars
    PROVE  CleanInv'
<1>0. IInv /\ TypeOK /\ DataOK /\ OnlyCommands
  BY DEF EInv, IInv, Ordered
<1>a. \A p \in Placements : ~HasFailed(p, worker', reports') => ~HasFailed(p, worker, reports)
  BY <1>0, FailedStays
<1>b. ASSUME NEW v \in Workers, worker'[v] = worker[v], fx'[v] = fx[v],
             worker[v].pc \in {"execute", "persist"} =>
                 store'[worker[v].msg.pid] = store[worker[v].msg.pid],
             ~HasFailed(worker'[v].msg.pid, worker', reports')
      PROVE  CleanCall(worker'[v], fx'[v].pc, store')
  <2>1. CASE worker[v].pc \in {"execute", "persist"}
    <3>1. worker[v].msg.pid \in Placements
      BY <1>0, <2>1, RowTyping, Zenon DEF IInv, HandlerInv, CallOK, AppliedState
    <3>2. CleanCall(worker[v], fx[v].pc, store)
      BY <1>a, <1>b, <3>1 DEF CleanInv
    <3>. QED  BY <1>b, <2>1, <3>2, Zenon DEF CleanCall
  <2>2. CASE worker[v].pc \notin {"execute", "persist"}
    BY <1>b, <2>2, Zenon DEF CleanCall
  <2>. QED  BY <2>1, <2>2, Zenon
<1>1. CASE UNCHANGED <<store, worker, reports, fx>>
  BY <1>1, Zenon DEF CleanInv, CleanCall, HasFailed
<1>2. ASSUME NEW w \in Workers, Handle(w), UNCHANGED entryVars
      PROVE  CleanInv'
  <2>1. fx' = fx /\ \A v \in Workers \ {w} : worker'[v] = worker[v]
    BY <1>0, <1>2, HandleEffect, Zenon DEF entryVars
  <2>2. ASSUME NEW v \in Workers \ {w}, ~HasFailed(worker'[v].msg.pid, worker', reports')
        PROVE  CleanCall(worker'[v], fx'[v].pc, store')
    BY <1>0, <1>2, <1>b, <2>1, <2>2, OthersSafe
  <2>3. ASSUME ~HasFailed(worker'[w].msg.pid, worker', reports')
        PROVE  CleanCall(worker'[w], fx'[w].pc, store')
    <3>1. CASE worker'[w].pc = "execute"
      <4>1. /\ store' = store /\ worker'[w].msg \in Commands
            /\ worker'[w].existing = store[worker'[w].msg.pid]
            /\ ~IsStale(worker'[w].existing, worker'[w].msg)
            /\ ~IsIdempotent(worker'[w].existing, worker'[w].msg)
        BY <1>0, <1>2, <3>1, HandleEffect, Zenon
      <4>2. fx'[w].pc = "start"
        BY <1>0, <1>2, <2>1, HandleEffect, Zenon DEF EInv, KnowInv, CallKnows
      <4>3. ~HasFailed(worker'[w].msg.pid, worker, reports)
        BY <1>a, <2>3, <4>1, RowTyping, Zenon DEF AppliedState
      <4>4. Found(store[worker'[w].msg.pid]) => store[worker'[w].msg.pid].op < worker'[w].msg.op
        BY <4>1, <4>3, DispatchIsNewer, Zenon
      <4>. QED  BY <3>1, <4>1, <4>2, <4>4, Zenon DEF CleanCall, Storing
    <3>2. CASE worker'[w].pc # "execute"
      BY <1>0, <1>2, <3>2, HandleEffect DEF CleanCall
    <3>. QED  BY <3>1, <3>2, Zenon
  <2>4. ASSUME NEW p \in Placements, ~HasFailed(p, worker', reports')
        PROVE  Found(store'[p]) => store'[p].applied = "applied"
    BY <1>0, <1>2, <1>a, <2>4, HandleRows, Zenon DEF CleanInv
  <2>. QED  BY <2>2, <2>3, <2>4 DEF CleanInv
<1>3. ASSUME NEW w \in Workers, Apply(w)
      PROVE  CleanInv'
  <2>1. /\ \A v \in Workers \ {w} : worker'[v] = worker[v] /\ fx'[v] = fx[v]
        /\ worker[w].pc = "execute" /\ worker'[w].msg = worker[w].msg
    BY <1>0, <1>3, ApplyCases, Zenon
  <2>2. ASSUME NEW v \in Workers \ {w}, ~HasFailed(worker'[v].msg.pid, worker', reports')
        PROVE  CleanCall(worker'[v], fx'[v].pc, store')
    BY <1>0, <1>3, <1>b, <2>1, <2>2, OthersSafe, Zenon
  <2>3. /\ worker[w].msg \in Commands /\ worker[w].msg.pid \in Placements
        /\ worker[w].msg.op \in Nat
    BY <1>0, <2>1, CallTyping, Zenon
  <2>4. ASSUME ~HasFailed(worker'[w].msg.pid, worker', reports')
        PROVE  CleanCall(worker'[w], fx'[w].pc, store')
    <3>1. CleanCall(worker[w], fx[w].pc, store)
      BY <1>a, <2>1, <2>3, <2>4, Zenon DEF CleanInv
    <3>2. CASE worker'[w].pc = "persist_error"
      BY <3>2, Zenon DEF CleanCall
    <3>3. CASE ApplyPuts(w)
      BY <1>0, <3>3, PutsEffect, Zenon DEF CleanCall, Storing
    <3>4. CASE ApplyReturns(w)
      BY <1>0, <2>1, <3>1, <3>4, ReturnsEffect, Zenon DEF CleanCall, Storing
    <3>5. CASE Moves(w) /\ UNCHANGED <<store, worker>>
      <4>1. fx[w].pc \in {"start", "swap"} => ~AlreadyStored(worker[w].msg)
        <5>1. Found(store[worker[w].msg.pid]) => store[worker[w].msg.pid].op \in Nat
          BY <1>0, <2>3, SMTT(30) DEF TypeOK, StoreTypeOK, RowType, Found
        <5>. QED  BY <2>1, <2>3, <3>1, <5>1, SMTT(30) DEF CleanCall, Storing, AlreadyStored
      <4>2. ASSUME NEW to \in ApplyPc, Advance(w, to)
            PROVE  fx'[w].pc = to
        BY <1>0, <4>2, Zenon DEF Advance, DataOK
      <4>3. fx[w].pc \in Storing <=> fx'[w].pc \in Storing
        <5>1. CASE SimpleApply(w)
          BY <4>1, <4>2, <5>1 DEF SimpleApply, Applying, ApplyPc, Storing
        <5>2. CASE SwapRoute(w)
          BY <4>1, <4>2, <5>2, Zenon DEF SwapRoute, Applying, ApplyPc, Storing
        <5>3. CASE ValidateBackend(w) \/ DeferRoute(w) \/ DrainEnds(w)
          BY <4>2, <5>3 DEF ValidateBackend, DeferRoute, DrainEnds, Applying, ApplyPc, Storing
        <5>4. ASSUME NEW at \in Calls, ProxyCall(w, at)
              PROVE  fx[w].pc \in Storing <=> fx'[w].pc \in Storing
          BY <4>2, <5>4, Zenon DEF ProxyCall, Applying, AfterCall, Calls, ApplyPc, Storing
        <5>. QED  BY <3>5, <5>1, <5>2, <5>3, <5>4, Zenon DEF Moves
      <4>. QED  BY <3>1, <3>5, <4>3, Zenon DEF CleanCall
    <3>. QED  BY <1>0, <1>3, <3>2, <3>3, <3>4, <3>5, ApplyCases, Zenon
  <2>5. ASSUME NEW p \in Placements, ~HasFailed(p, worker', reports')
        PROVE  Found(store'[p]) => store'[p].applied = "applied"
    <3>1. CASE store' = store
      BY <1>a, <2>5, <3>1, Zenon DEF CleanInv
    <3>2. CASE ApplyPuts(w)
      BY <1>0, <1>a, <2>3, <2>5, <3>2, PutsEffect, RowTyping, SMTT(30) DEF CleanInv, AppliedState
    <3>. QED  BY <1>0, <1>3, <3>1, <3>2, ApplyCases, ReturnsEffect, Zenon
  <2>. QED  BY <2>2, <2>4, <2>5 DEF CleanInv
<1>. QED
  BY <1>0, <1>1, <1>2, <1>3, StepKinds DEF UpstreamChanged, entryVars, vars, applierVars

(* The client of a row belongs to its placement, and a row that is wanted  *)
(* active is served.                                                       *)
LEMMA RowClient ==
    ASSUME EInv, Ordered, NEW p \in Placements, Found(store[p])
    PROVE  /\ store[p].client \in Clients
           /\ \A c \in Commands : store[p].client = c.client <=> c.pid = p
           /\ store[p].desired = "active" => Serving(store[p])
<1>1. PICK d \in Commands, a \in AppliedState : d.pid = p /\ store[p] = Row(d, a)
  BY DEF EInv, RowInv
<1>2. /\ store[p].client = d.client /\ store[p].desired = d.desired
      /\ Serving(store[p]) <=> Serving(d)
  BY <1>1 DEF Row, Serving
<1>3. d.client \in Clients
  BY CommandsAssumption DEF CommandType
<1>4. d.desired = "active" => Serving(d)
  BY DEF Serving, Ordered, RevokedIsInactive
<1>. QED  BY <1>1, <1>2, <1>3, <1>4 DEF Ordered, OneClientEach

(* A client that is accepted with a route stays so, unless a call removes  *)
(* it.                                                                     *)
LEMMA AcceptedStays ==
    ASSUME EInv, Ordered, [EntryStep]_nodeVars, NEW w \in Workers, Apply(w),
           NEW u \in Clients, NEW b, u # worker[w].msg.client \/ fx[w].pc # "remove",
           Accepted(u, b, proxyUsers, route, pool, pending)
    PROVE  Accepted(u, b, proxyUsers', route', pool', pending')
<1>1. (u \in proxyUsers => u \in proxyUsers') /\ route[u] \subseteq route'[u]
  BY ProxyKeeps DEF EInv, IInv
<1>2. pool \subseteq pool'
  BY StepPool
<1>3. pending => pending'
  BY PendingStays DEF Ordered
<1>. QED  BY <1>1, <1>2, <1>3, Zenon DEF Accepted

(* A call of Apply that ends with an error leaves its placement failed.    *)
LEMMA FailureShows ==
    ASSUME EInv, NEW w \in Workers, Apply(w), worker'[w].pc = "persist_error"
    PROVE  HasFailed(worker[w].msg.pid, worker', reports')
BY ApplyCases DEF EInv, IInv, HasFailed, Failing

(* Two calls of Apply are for different placements and clients.            *)
LEMMA CallsDiffer ==
    ASSUME EInv, Ordered, NEW v \in Workers, NEW w \in Workers, v # w,
           worker[v].pc = "execute", worker[w].pc = "execute"
    PROVE  /\ worker[v].msg.pid # worker[w].msg.pid
           /\ worker[v].msg.client # worker[w].msg.client
BY CallAlone DEF EInv, Ordered, OneClientEach

(* What the proxy calls of a call have achieved still holds when the row   *)
(* is stored.                                                              *)
LEMMA StepCall ==
    ASSUME UInv, Ordered, [EntryStep]_nodeVars
    PROVE  CallInv'
<1>0. EInv /\ IInv /\ TypeOK /\ DataOK /\ OnlyCommands
  BY DEF UInv, EInv, IInv, Ordered
<1>a. \A p \in Placements : ~HasFailed(p, worker', reports') => ~HasFailed(p, worker, reports)
  BY <1>0, FailedStays, Zenon
<1>1. CASE UNCHANGED <<worker, reports, fx, proxyVars, pending>>
  BY <1>1 DEF UInv, CallInv, CallServes, Accepted, HasFailed, proxyVars
<1>2. ASSUME NEW w \in Workers, Handle(w), UNCHANGED entryVars
      PROVE  CallInv'
  <2>1. /\ fx' = fx /\ \A v \in Workers \ {w} : worker'[v] = worker[v]
        /\ UNCHANGED <<proxyUsers, route, pool, pending>>
    BY <1>0, <1>2, HandleEffect DEF entryVars, proxyVars, agentVars
  <2>2. fx[w].pc = "start"
    BY <1>0, <1>2, HandleEffect, ZenonT(40) DEF EInv, KnowInv, CallKnows
  <2>3. ASSUME NEW v \in Workers, ~HasFailed(worker'[v].msg.pid, worker', reports')
        PROVE  CallServes(worker'[v], fx'[v].pc, proxyUsers', route', pool', pending')
    <3>1. CASE v = w
      BY <2>1, <2>2, <3>1, SMTT(30) DEF CallServes
    <3>2. CASE v # w /\ worker[v].pc = "execute"
      <4>1. worker[v].msg.pid \in Placements /\ worker'[v] = worker[v]
        BY <1>0, <2>1, <3>2, CallTyping, Zenon
      <4>2. CallServes(worker[v], fx[v].pc, proxyUsers, route, pool, pending)
        BY <1>a, <2>3, <4>1, Zenon DEF UInv, CallInv
      <4>. QED  BY <2>1, <4>1, <4>2
    <3>3. CASE v # w /\ worker[v].pc # "execute"
      BY <2>1, <3>3 DEF CallServes
    <3>. QED  BY <3>1, <3>2, <3>3, Zenon
  <2>. QED  BY <2>3, Zenon DEF CallInv
<1>3. ASSUME NEW w \in Workers, Apply(w)
      PROVE  CallInv'
  <2>1. /\ \A v \in Workers \ {w} : worker'[v] = worker[v] /\ fx'[v] = fx[v]
        /\ worker[w].pc = "execute" /\ worker'[w].msg = worker[w].msg
    BY <1>0, <1>3, ApplyCases
  <2>2. ASSUME NEW v \in Workers \ {w}, worker[v].pc = "execute",
               ~HasFailed(worker'[v].msg.pid, worker', reports')
        PROVE  CallServes(worker'[v], fx'[v].pc, proxyUsers', route', pool', pending')
    <3>1. worker[v].msg.pid \in Placements /\ worker[v].msg.client \in Clients
      BY <1>0, <2>2, CallTyping, Zenon
    <3>2. CallServes(worker[v], fx[v].pc, proxyUsers, route, pool, pending)
      BY <1>a, <2>1, <2>2, <3>1, Zenon DEF UInv, CallInv
    <3>3. worker[v].msg.client # worker[w].msg.client
      BY <1>0, <2>1, <2>2, CallsDiffer
    <3>4. worker[v].msg.client \in proxyUsers' <=> worker[v].msg.client \in proxyUsers
      BY <1>0, <1>3, <3>1, <3>3, ProxyKeeps, Zenon
    <3>5. Accepted(worker[v].msg.client, worker[v].msg.backend, proxyUsers, route, pool, pending)
            => Accepted(worker[v].msg.client, worker[v].msg.backend,
                        proxyUsers', route', pool', pending')
      BY <1>0, <1>3, <3>1, <3>3, AcceptedStays, Zenon
    <3>. QED  BY <2>1, <2>2, <3>2, <3>4, <3>5, ZenonT(40) DEF CallServes
  <2>3. ASSUME NEW v \in Workers \ {w}, worker[v].pc # "execute"
        PROVE  CallServes(worker'[v], fx'[v].pc, proxyUsers', route', pool', pending')
    BY <2>1, <2>3, Zenon DEF CallServes
  <2>. SUFFICES ASSUME ~HasFailed(worker'[w].msg.pid, worker', reports')
                PROVE  CallServes(worker'[w], fx'[w].pc, proxyUsers', route', pool', pending')
    BY <2>2, <2>3, Zenon DEF CallInv
  <2>4. CASE worker'[w].pc = "persist_error"
    BY <2>4, Zenon DEF CallServes
  <2>5. CASE ApplyPuts(w)
    BY <1>0, <2>5, PutsEffect, Zenon DEF CallServes
  <2>6. CASE ApplyReturns(w)
    BY <1>0, <2>6, ReturnsEffect DEF CallServes
  <2>7. CASE Moves(w) /\ UNCHANGED <<store, worker>>
    <3>1. /\ worker[w].msg.pid \in Placements /\ worker[w].msg.client \in Clients
          /\ worker[w].msg \in Commands
      BY <1>0, <2>1, CallTyping, ZenonT(40)
    <3>2. /\ CallServes(worker[w], fx[w].pc, proxyUsers, route, pool, pending)
          /\ CallKnows(worker[w], fx[w].pc, store)
          /\ ~HasFailed(worker[w].msg.pid, worker, reports)
      BY <1>0, <1>a, <2>1, <3>1 DEF UInv, CallInv, EInv, KnowInv
    <3>3. ASSUME NEW to \in ApplyPc, Advance(w, to)
          PROVE  fx'[w].pc = to
      BY <1>0, <3>3, ZenonT(40) DEF Advance, DataOK
    <3>4. CASE SimpleApply(w) \/ ValidateBackend(w) \/ SwapRoute(w) \/ DrainEnds(w)
      <4>1. fx'[w].pc \notin {"select", "put"}
        BY <3>3, <3>4, ZenonT(40) DEF SimpleApply, ValidateBackend, SwapRoute, DrainEnds, ApplyPc
      <4>. QED  BY <4>1 DEF CallServes
    <3>5. CASE DeferRoute(w)
      <4>1. /\ fx[w].pc = "select" /\ fx'[w].pc = "put" /\ proxyUsers' = proxyUsers
        BY <3>3, <3>5, Zenon DEF DeferRoute, Applying, ApplyPc, proxyVars
      <4>2. pending' = TRUE
        BY <3>5, Zenon DEF DeferRoute
      <4>3. Serving(worker[w].msg) /\ worker[w].msg.client \in proxyUsers
        BY <2>1, <3>2, <4>1, Zenon DEF CallKnows, CallServes
      <4>. QED  BY <2>7, <4>1, <4>2, <4>3 DEF CallServes, Accepted
    <3>6. ASSUME NEW at \in Calls, ProxyCall(w, at)
          PROVE  CallServes(worker'[w], fx'[w].pc, proxyUsers', route', pool', pending')
      <4>1. fx[w].pc = at /\ fx'[w].pc = AfterCall(w, at)
        BY <3>3, <3>6 DEF ProxyCall, Applying, AfterCall, ApplyPc
      <4>2. CASE at = "sync"
        <5>1. proxyUsers' = proxyUsers
          BY <3>6, <4>2, Zenon DEF ProxyCall, ProxyEffect, SetBackends
        <5>2. ASSUME Flipping(w)
              PROVE  worker[w].msg.client \in proxyUsers
          <6>1. /\ Found(store[worker[w].msg.pid]) /\ store[worker[w].msg.pid].desired = "active"
                /\ store[worker[w].msg.pid].client = worker[w].msg.client
            BY <2>1, <3>2, <4>1, <4>2, <5>2, Zenon DEF CallKnows, Storing, Flipping, IsBackendFlip
          <6>2. Serving(store[worker[w].msg.pid])
            BY <1>0, <3>1, <6>1, RowClient, Zenon
          <6>3. ~Ending(worker[w].msg.pid, worker, fx)
            BY <1>0, <2>1, <4>1, <4>2, CallsDiffer, Zenon DEF Ending
          <6>. QED  BY <3>1, <3>2, <6>1, <6>2, <6>3, Zenon DEF UInv, ServedInv, Accepted
        <5>. QED  BY <2>7, <4>1, <4>2, <5>1, <5>2 DEF CallServes, AfterCall
      <4>3. CASE at = "add"
        BY <2>7, <3>6, <4>1, <4>3 DEF ProxyCall, ProxyEffect, AddUser, CallServes, AfterCall
      <4>4. CASE at = "select"
        <5>1. /\ worker[w].msg.backend \in pool /\ pool' = pool /\ proxyUsers' = proxyUsers
              /\ route' = [route EXCEPT ![worker[w].msg.client] = @ \cup {worker[w].msg.backend}]
          BY <3>6, <4>4, Zenon DEF ProxyCall, ProxyEffect, SelectBackend
        <5>2. worker[w].msg.backend \in route'[worker[w].msg.client] \cap pool'
          BY <1>0, <3>1, <5>1 DEF DataOK, ProxyTypeOK
        <5>3. Serving(worker[w].msg) /\ worker[w].msg.client \in proxyUsers
          BY <2>1, <3>2, <4>1, <4>4, Zenon DEF CallKnows, CallServes
        <5>. QED  BY <2>7, <4>1, <4>4, <5>1, <5>2, <5>3, Zenon
                     DEF CallServes, Accepted, AfterCall
      <4>5. CASE at = "remove"
        <5>1. worker[w].msg.client \notin proxyUsers'
          BY <3>6, <4>5, Zenon DEF ProxyCall, ProxyEffect, RemoveUser
        <5>2. ~Serving(worker[w].msg)
          BY <2>1, <3>2, <4>1, <4>5, Zenon DEF CallKnows
        <5>. QED  BY <2>7, <4>1, <4>5, <5>1, <5>2 DEF CallServes, AfterCall
      <4>. QED  BY <4>2, <4>3, <4>4, <4>5 DEF Calls
    <3>. QED  BY <2>7, <3>4, <3>5, <3>6, ZenonT(40) DEF Moves
  <2>. QED  BY <1>0, <1>3, <2>4, <2>5, <2>6, <2>7, ApplyCases, ZenonT(40)
<1>4. CASE \E e \in Upstreams : UpstreamChanged(e)
  BY <1>1, <1>4, Zenon DEF UpstreamChanged, vars, applierVars
<1>. QED
  BY <1>0, <1>1, <1>2, <1>3, <1>4, StepKinds DEF entryVars, agentVars

(* A served placement keeps its access until a call is about to store that *)
(* it is not served.                                                       *)
LEMMA StepServed ==
    ASSUME UInv, Ordered, [EntryStep]_nodeVars
    PROVE  ServedInv'
<1>0. EInv /\ IInv /\ TypeOK /\ DataOK /\ OnlyCommands /\ CleanInv
  BY DEF UInv, EInv, IInv, Ordered
<1>. SUFFICES ASSUME NEW p \in Placements, Found(store'[p]), ~HasFailed(p, worker', reports'),
                     Serving(store'[p]), ~Ending(p, worker', fx')
              PROVE  Accepted(store'[p].client, store'[p].backend, proxyUsers', route', pool',
                              pending')
  BY DEF ServedInv
<1>a. ~HasFailed(p, worker, reports)
  BY <1>0, FailedStays, Zenon
<1>1. CASE UNCHANGED <<store, worker, fx, proxyVars, pending>>
  BY <1>1, <1>a, Zenon DEF UInv, ServedInv, Accepted, Ending, proxyVars
<1>2. ASSUME NEW w \in Workers, Handle(w), UNCHANGED entryVars
      PROVE  Accepted(store'[p].client, store'[p].backend, proxyUsers', route', pool', pending')
  <2>1. store'[p] = store[p] /\ UNCHANGED <<fx, proxyUsers, route, pool, pending>>
    BY <1>0, <1>2, HandleRows, Zenon DEF entryVars, proxyVars, agentVars
  <2>2. ~Ending(p, worker, fx)
    BY <1>0, <1>2, <2>1, HandleEffect DEF Ending
  <2>. QED  BY <1>a, <2>1, <2>2, Zenon DEF UInv, ServedInv, Accepted
<1>3. ASSUME NEW w \in Workers, Apply(w)
      PROVE  Accepted(store'[p].client, store'[p].backend, proxyUsers', route', pool', pending')
  <2>1. /\ \A v \in Workers \ {w} : worker'[v] = worker[v] /\ fx'[v] = fx[v]
        /\ worker[w].pc = "execute" /\ worker'[w].msg = worker[w].msg
    BY <1>0, <1>3, ApplyCases, ZenonT(40)
  <2>2. worker[w].msg \in Commands
    BY <1>0, <2>1, CallTyping, Zenon
  <2>3. ASSUME store'[p] = store[p], fx[w].pc # "put" \/ worker[w].msg.pid # p,
               worker[w].msg.pid # p \/ fx[w].pc # "remove"
        PROVE  Accepted(store'[p].client, store'[p].backend, proxyUsers', route', pool', pending')
    <3>1. ~Ending(p, worker, fx)
      BY <2>1, <2>3, Zenon DEF Ending
    <3>2. Accepted(store[p].client, store[p].backend, proxyUsers, route, pool, pending)
      BY <1>a, <2>3, <3>1, Zenon DEF UInv, ServedInv
    <3>3. /\ store[p].client \in Clients
          /\ store[p].client = worker[w].msg.client => worker[w].msg.pid = p
      BY <1>0, <2>2, <2>3, RowClient, Zenon
    <3>. QED  BY <1>0, <1>3, <2>3, <3>2, <3>3, AcceptedStays, Zenon
  <2>4. CASE worker[w].msg.pid # p
    <3>1. store'[p] = store[p]
      BY <1>0, <1>3, <2>4, ApplyCases, PutsEffect, ReturnsEffect, ZenonT(40)
    <3>. QED  BY <2>3, <2>4, <3>1
  <2>5. CASE worker[w].msg.pid = p /\ ApplyPuts(w)
    <3>1. /\ worker[w].pc = "execute" /\ fx[w].pc = "put"
          /\ store'[p] = Row(worker[w].msg, "applied") /\ UNCHANGED <<proxyVars, agentVars>>
      BY <1>0, <2>5, PutsEffect, ZenonT(40)
    <3>2. /\ store'[p].client = worker[w].msg.client /\ store'[p].backend = worker[w].msg.backend
          /\ Serving(worker[w].msg)
      BY <3>1, RowServes
    <3>3. Accepted(worker[w].msg.client, worker[w].msg.backend, proxyUsers, route, pool, pending)
      BY <1>a, <2>5, <3>1, <3>2, Zenon DEF UInv, CallInv, CallServes
    <3>. QED  BY <3>1, <3>2, <3>3, Zenon DEF Accepted, proxyVars, agentVars
  <2>6. CASE worker[w].msg.pid = p /\ ApplyReturns(w)
    BY <1>0, <2>3, <2>6, ReturnsEffect, ZenonT(40)
  <2>7. CASE worker[w].msg.pid = p /\ Moves(w) /\ UNCHANGED <<store, worker>>
    <3>1. fx[w].pc # "put"
      BY <2>7, ZenonT(40) DEF Moves, SimpleApply, ValidateBackend, SwapRoute, DeferRoute, DrainEnds,
                  ProxyCall, Applying, Calls
    <3>2. ASSUME fx[w].pc = "remove"
          PROVE  Ending(p, worker', fx')
      <4>1. ProxyCall(w, "remove")
        BY <2>7, <3>2, Zenon
           DEF Moves, SimpleApply, ValidateBackend, SwapRoute, DeferRoute, DrainEnds,
                          ProxyCall, Applying, Calls
      <4>2. fx'[w].pc = "put"
        BY <1>0, <4>1 DEF ProxyCall, AfterCall, Advance, DataOK
      <4>3. ~Serving(worker[w].msg)
        BY <1>0, <3>2, ZenonT(40) DEF EInv, KnowInv, CallKnows
      <4>. QED  BY <2>1, <2>7, <4>2, <4>3 DEF Ending
    <3>. QED  BY <2>3, <2>7, <3>1, <3>2
  <2>8. worker'[w].pc = "persist_error" => worker[w].msg.pid # p
    BY <1>0, <1>3, FailureShows
  <2>. QED  BY <1>0, <1>3, <2>4, <2>5, <2>6, <2>7, <2>8, ApplyCases, Zenon
<1>4. CASE \E e \in Upstreams : UpstreamChanged(e)
  BY <1>1, <1>4 DEF UpstreamChanged, vars, applierVars
<1>. QED
  BY <1>0, <1>1, <1>2, <1>3, <1>4, StepKinds DEF entryVars, agentVars

(* The client of a placement that is not served is not accepted, unless a  *)
(* call is about to serve it.                                              *)
LEMMA StepAbsent ==
    ASSUME UInv, Ordered, [EntryStep]_nodeVars
    PROVE  AbsentInv'
<1>0. EInv /\ IInv /\ TypeOK /\ DataOK /\ OnlyCommands /\ CleanInv
  BY DEF UInv, EInv, IInv, Ordered
<1>. SUFFICES ASSUME NEW p \in Placements, Found(store'[p]), ~HasFailed(p, worker', reports'),
                     ~Serving(store'[p]), ~Starting(p, worker')
              PROVE  store'[p].client \notin proxyUsers'
  BY DEF AbsentInv
<1>a. ~HasFailed(p, worker, reports)
  BY <1>0, FailedStays, Zenon
<1>1. CASE UNCHANGED <<store, worker, proxyUsers>>
  BY <1>1, <1>a, Zenon DEF UInv, AbsentInv, Starting
<1>2. ASSUME NEW w \in Workers, Handle(w), UNCHANGED entryVars
      PROVE  store'[p].client \notin proxyUsers'
  <2>1. store'[p] = store[p] /\ proxyUsers' = proxyUsers
    BY <1>0, <1>2, HandleRows, ZenonT(40) DEF entryVars, proxyVars
  <2>2. ~Starting(p, worker)
    BY <1>0, <1>2, <2>1, HandleEffect DEF Starting
  <2>. QED  BY <1>a, <2>1, <2>2, Zenon DEF UInv, AbsentInv
<1>3. ASSUME NEW w \in Workers, Apply(w)
      PROVE  store'[p].client \notin proxyUsers'
  <2>1. /\ \A v \in Workers \ {w} : worker'[v] = worker[v] /\ fx'[v] = fx[v]
        /\ worker[w].pc = "execute" /\ worker'[w].msg = worker[w].msg
    BY <1>0, <1>3, ApplyCases, ZenonT(40)
  <2>2. worker[w].msg \in Commands
    BY <1>0, <2>1, CallTyping, ZenonT(40)
  <2>3. ASSUME store'[p] = store[p], ~Serving(worker[w].msg) \/ worker[w].msg.pid # p
        PROVE  store'[p].client \notin proxyUsers'
    <3>1. ~Starting(p, worker)
      BY <2>1, <2>3, ZenonT(40) DEF Starting
    <3>2. store[p].client \notin proxyUsers
      BY <1>a, <2>3, <3>1, Zenon DEF UInv, AbsentInv
    <3>3. /\ store[p].client \in Clients
          /\ store[p].client = worker[w].msg.client => worker[w].msg.pid = p
      BY <1>0, <2>2, <2>3, RowClient, Zenon
    <3>4. fx[w].pc = "add" => Serving(worker[w].msg)
      BY <1>0, Zenon DEF EInv, KnowInv, CallKnows
    <3>. QED  BY <1>0, <1>3, <2>3, <3>2, <3>3, <3>4, ProxyKeeps
  <2>4. CASE worker[w].msg.pid # p
    <3>1. store'[p] = store[p]
      BY <1>0, <1>3, <2>4, ApplyCases, PutsEffect, ReturnsEffect, Zenon
    <3>. QED  BY <2>3, <2>4, <3>1
  <2>5. CASE worker[w].msg.pid = p /\ ApplyPuts(w)
    <3>1. /\ worker[w].pc = "execute" /\ fx[w].pc = "put"
          /\ store'[p] = Row(worker[w].msg, "applied") /\ UNCHANGED <<proxyVars, agentVars>>
      BY <1>0, <2>5, PutsEffect, Zenon
    <3>2. store'[p].client = worker[w].msg.client /\ ~Serving(worker[w].msg)
      BY <3>1, RowServes
    <3>. QED  BY <1>a, <2>5, <3>1, <3>2, ZenonT(40) DEF UInv, CallInv, CallServes, proxyVars
  <2>6. CASE worker[w].msg.pid = p /\ ApplyReturns(w)
    <3>1. fx[w].pc = "return" /\ store' = store
      BY <1>0, <2>6, ReturnsEffect
    <3>2. store[p] = Row(worker[w].msg, "applied")
      BY <1>0, <1>a, <2>1, <2>6, <3>1, ZenonT(40) DEF CleanInv, CleanCall, Storing
    <3>3. ~Serving(worker[w].msg)
      BY <3>1, <3>2, RowServes, Zenon
    <3>. QED  BY <2>3, <3>1, <3>3, Zenon
  <2>7. CASE worker[w].msg.pid = p /\ Moves(w) /\ UNCHANGED <<store, worker>>
    <3>1. ~Serving(worker[w].msg)
      BY <2>1, <2>7, Zenon DEF Starting
    <3>. QED  BY <2>3, <2>7, <3>1, Zenon
  <2>8. worker'[w].pc = "persist_error" => worker[w].msg.pid # p
    BY <1>0, <1>3, FailureShows
  <2>. QED  BY <1>0, <1>3, <2>4, <2>5, <2>6, <2>7, <2>8, ApplyCases, Zenon
<1>4. CASE \E e \in Upstreams : UpstreamChanged(e)
  BY <1>1, <1>4 DEF UpstreamChanged, vars, applierVars, proxyVars
<1>. QED
  BY <1>0, <1>1, <1>2, <1>3, <1>4, StepKinds DEF entryVars, proxyVars

LEMMA EntryInitInv == EntryInit => UInv
<1> SUFFICES ASSUME EntryInit PROVE UInv
  BY ZenonT(40)
<1>1. IInv
  BY InitIInv DEF EntryInit
<1>2. DataOK /\ RebuildsOK
  BY UpstreamsAssumption, MaxEpochAssumption, NoRebuildTyping
     DEF EntryInit, ProxyInit, NoRoutes, NoApply, ApplyPc, DataOK, ProxyTypeOK, RebuildsOK,
         NoRebuild
<1>3. /\ \A w \in Workers : worker[w].pc = "idle" /\ fx[w].pc = "start"
      /\ \A p \in Placements : ~Found(store[p])
      /\ pool = {}
  BY DEF EntryInit, Init, StoreInit, Idle, NoApply, ProxyInit, Found
<1>4. KnowInv /\ RowInv /\ PoolInv /\ CleanInv
  BY <1>3, Zenon DEF KnowInv, CallKnows, RowInv, PoolInv, CleanInv, CleanCall
<1>5. CallInv /\ ServedInv /\ AbsentInv
  BY <1>3, Zenon DEF CallInv, CallServes, ServedInv, AbsentInv
<1>. QED  BY <1>1, <1>2, <1>4, <1>5 DEF UInv, EInv

LEMMA EntryStepInv ==
    ASSUME Ordered, UInv, [EntryStep]_nodeVars
    PROVE  UInv'
<1>1. IInv'
  BY StableIsEntry, EntryCommandStep, StepTypes, StepShard, StepHandler DEF UInv, EInv, IInv
<1>2. DataOK' /\ RebuildsOK'
  BY StableIsEntry, StepData, StepRebuilds DEF UInv, EInv
<1>3. KnowInv' /\ RowInv' /\ PoolInv' /\ CleanInv'
  BY StepKnow, StepRows, StepPool, StepClean DEF UInv
<1>. QED  BY <1>1, <1>2, <1>3, StepCall, StepServed, StepAbsent DEF UInv, EInv

(* On a node whose processes keep running, where only commands change the  *)
(* proxy and they are ordered as the control plane orders them: when all   *)
(* calls are over, a serving placement stored as applied, none of whose    *)
(* commands failed, is accepted by the proxy with a route to its backend.  *)
(* For any number of placements, backends, redeliveries, store, executor   *)
(* and ack failures; shards may only be many if no backend is announced.   *)
THEOREM ServedUsersAreRouted ==
    ASSUME Ordered
    PROVE  StableEntrySpec => []UnfailedUsersRouted
<1>1. UInv /\ [EntryStep]_nodeVars => UInv'
  BY EntryStepInv
<1>2. UInv => UnfailedUsersRouted
  <2>. SUFFICES ASSUME UInv, NodeQuiet, NEW p \in AppliedRows, Serving(store[p]), NeverFailed(p)
                PROVE  Routed(p)
    BY DEF UnfailedUsersRouted
  <2>1. p \in Placements /\ Found(store[p])
    BY Zenon DEF AppliedRows, ListPlacements
  <2>2. ~HasFailed(p, worker, reports) /\ ~Ending(p, worker, fx)
    BY DEF NodeQuiet, NeverFailed, HasFailed, Failing, Ending
  <2>3. Accepted(store[p].client, store[p].backend, proxyUsers, route, pool, pending)
    BY <2>1, <2>2 DEF UInv, ServedInv
  <2>. QED  BY <2>3 DEF Accepted, Routed, ConnBackends
<1>. QED  BY <1>1, <1>2, EntryInitInv, PTL DEF StableEntrySpec

(* And the client of one that is not to be served is not accepted.         *)
THEOREM EndedUsersAreGone ==
    ASSUME Ordered
    PROVE  StableEntrySpec => []UnfailedUsersGone
<1>1. UInv /\ [EntryStep]_nodeVars => UInv'
  BY EntryStepInv
<1>2. UInv => UnfailedUsersGone
  <2>. SUFFICES ASSUME UInv, NodeQuiet, NEW p \in AppliedRows, ~Serving(store[p]), NeverFailed(p)
                PROVE  Gone(p)
    BY DEF UnfailedUsersGone
  <2>1. p \in Placements /\ Found(store[p])
    BY DEF AppliedRows, ListPlacements
  <2>2. ~HasFailed(p, worker, reports) /\ ~Starting(p, worker)
    BY DEF NodeQuiet, NeverFailed, HasFailed, Failing, Starting
  <2>. QED  BY <2>1, <2>2 DEF UInv, AbsentInv, Gone
<1>. QED  BY <1>1, <1>2, EntryInitInv, PTL DEF StableEntrySpec
=============================================================================
