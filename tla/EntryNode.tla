------------------------------ MODULE EntryNode -----------------------------
(***************************************************************************)
(* An entry node with the embedded proxy: the command path of module       *)
(* Applier with the executor it has there (FlipExecutor, the flip          *)
(* Orchestrator and EntryProxyActions of internal/app), the backend        *)
(* registry fed by internal/app/backends Listener, and RebuildFromStore as *)
(* run by the resync loop of cmd/agent/main.go and by internal/app/        *)
(* reconcile.                                                              *)
(*                                                                         *)
(* Every call to the proxy and every store transaction is a step of its    *)
(* own.  The registry read that precedes SetBackends is another: the       *)
(* registry may change, and another caller may get through, in between.    *)
(***************************************************************************)
EXTENDS Applier, EntryProxy

CONSTANTS
    Rebuilders,     \* which loops call RebuildFromStore in a run
    KnownBackends,  \* backends announced before the first command
    Upstreams       \* upstream_changed events that may still be handled

(* jsonv1.UpstreamChange.                                                  *)
UpstreamType == [backend: Backends, removed: BOOLEAN]

ASSUME RebuildersAssumption == Rebuilders \subseteq {"resync", "reconcile"}
ASSUME UpstreamsAssumption ==
    KnownBackends \subseteq Backends /\ Upstreams \subseteq UpstreamType

VARIABLES
    registry,       \* backends.Registry, in memory
    pending,        \* some user waits for its backend: HasPending
    loaded,         \* users counted by the last rebuild: Users
    lastEpoch,      \* proxy epoch of the last successful resync
    fx,             \* per shard: where FlipExecutor.Apply stands
    rb              \* per loop: the RebuildFromStore in progress

agentVars == <<registry, pending, loaded, lastEpoch>>
entryVars == <<proxyVars, agentVars, fx, rb>>
nodeVars == <<vars, entryVars>>

NoApply == [pc |-> "start", specs |-> {}]

NoUser == "none"
NoRebuild ==
    [pc |-> "idle", specs |-> {}, cands |-> NoRoutes, left |-> {}, user |-> NoUser,
     pending |-> FALSE, epoch |-> 0]

EntryTypeOK ==
    /\ TypeOK
    /\ ProxyTypeOK
    /\ registry \subseteq Backends
    /\ pending \in BOOLEAN
    /\ loaded \subseteq Clients
    /\ lastEpoch \in 0..epoch
    /\ fx \in [Workers -> [pc: {"start", "swap", "sync", "add", "select", "remove", "put",
                                "drain", "return"},
                           specs: SUBSET Backends]]
    /\ rb \in [Rebuilders -> [pc: {"idle", "sync", "list", "users"}, specs: SUBSET Backends,
                              cands: [Clients -> SUBSET Backends], left: SUBSET Clients,
                              user: Clients \cup {NoUser}, pending: BOOLEAN, epoch: 0..epoch]]

EntryInit ==
    /\ Init
    /\ ProxyInit
    /\ registry = KnownBackends
    /\ pending = FALSE
    /\ loaded = {}
    /\ lastEpoch = 0
    /\ fx = [w \in Workers |-> NoApply]
    /\ rb = [r \in Rebuilders |-> NoRebuild]

-----------------------------------------------------------------------------
(* FlipExecutor.Apply for the command and the row worker w has read.       *)

Flipping(w) == IsBackendFlip(worker[w].existing, worker[w].msg)

Applying(w, at) == worker[w].pc = "execute" /\ fx[w].pc = at

(* The executor moves on; entering "sync" it reads the registry.           *)
Advance(w, to) ==
    fx' = [fx EXCEPT ![w] = [pc |-> to, specs |-> IF to = "sync" THEN registry ELSE {}]]

(* The executor returns a final error from phase at.                       *)
ApplyFails(w, at) ==
    /\ Applying(w, at)
    /\ ExecutorFails(w)
    /\ fx' = [fx EXCEPT ![w] = NoApply]

(* SimpleApply up to its first call to the proxy.                          *)
SimpleApply(w) ==
    LET c == worker[w].msg IN
        /\ Applying(w, "start") /\ ~Flipping(w)
        /\ Advance(w, IF AlreadyStored(c) THEN "return"
                      ELSE IF Serving(c) THEN "sync" ELSE "remove")
        /\ UNCHANGED <<vars, proxyVars, agentVars, rb>>

(* The flip phases announced and warming: ValidateBackend.                 *)
ValidateBackend(w) ==
    /\ Applying(w, "start") /\ Flipping(w)
    /\ worker[w].msg.backend \in registry
    /\ Advance(w, "swap")
    /\ UNCHANGED <<vars, proxyVars, agentVars, rb>>

InvalidBackend(w) ==
    /\ ApplyFails(w, "start") /\ Flipping(w)
    /\ worker[w].msg.backend \notin registry
    /\ UNCHANGED <<proxyVars, agentVars, rb>>

(* The flip phase swap: SwapRoute up to its first call to the proxy.       *)
SwapRoute(w) ==
    /\ Applying(w, "swap")
    /\ Advance(w, IF AlreadyStored(worker[w].msg) THEN "drain" ELSE "sync")
    /\ UNCHANGED <<vars, proxyVars, agentVars, rb>>

(* GetPlacement fails in SimpleApply or SwapRoute.                         *)
ApplyGetFails(w) ==
    /\ "store" \in Faults
    /\ (ApplyFails(w, "start") /\ ~Flipping(w)) \/ ApplyFails(w, "swap")
    /\ UNCHANGED <<proxyVars, agentVars, rb>>

(* Without its backend in the registry a user's route is deferred.         *)
RouteDeferred(w) == ~Flipping(w) /\ worker[w].msg.backend \notin registry

DeferRoute(w) ==
    /\ Applying(w, "select") /\ RouteDeferred(w)
    /\ pending' = TRUE
    /\ Advance(w, "put")
    /\ UNCHANGED <<vars, proxyVars, registry, loaded, lastEpoch, rb>>

(* What the call to the proxy in each phase does, and the phase after it.  *)
ProxyEffect(w, at) ==
    LET c == worker[w].msg IN
        \/ at = "sync" /\ SetBackends(fx[w].specs)
        \/ at = "add" /\ AddUser(c.client)
        \/ at = "select" /\ ~RouteDeferred(w) /\ SelectBackend(c.client, c.backend)
        \/ at = "remove" /\ RemoveUser(c.client)

AfterCall(w, at) ==
    CASE at = "sync" -> IF Flipping(w) THEN "select" ELSE "add"
      [] at = "add" -> "select"
      [] OTHER -> "put"

Calls == {"sync", "add", "select", "remove"}

ProxyCall(w, at) ==
    /\ Applying(w, at)
    /\ ProxyEffect(w, at)
    /\ Advance(w, AfterCall(w, at))
    /\ UNCHANGED <<vars, agentVars, rb>>

(* SelectBackend on a backend that is not in the pool.                     *)
UnknownBackend(w) ==
    /\ ApplyFails(w, "select") /\ ~RouteDeferred(w)
    /\ worker[w].msg.backend \notin pool
    /\ UNCHANGED <<proxyVars, agentVars, rb>>

(* The call fails, or takes effect and its answer is lost.                 *)
ProxyCallFails(w, at) ==
    /\ "execute" \in Faults
    /\ ApplyFails(w, at)
    /\ at = "select" => ~RouteDeferred(w)
    /\ UNCHANGED proxyVars \/ ProxyEffect(w, at)
    /\ UNCHANGED <<agentVars, rb>>

(* Faulty variant: a flip stores the new backend and no version.           *)
ApplyPutsBackend(w) ==
    /\ Applying(w, "put")
    /\ store' = [store EXCEPT ![worker[w].msg.pid] =
                   IF Flipping(w) THEN [@ EXCEPT !.backend = worker[w].msg.backend]
                   ELSE Row(worker[w].msg, "applied")]
    /\ Advance(w, IF Flipping(w) THEN "drain" ELSE "return")
    /\ UNCHANGED <<applierVars, proxyVars, agentVars, rb>>

ApplyPuts(w) ==
    /\ Applying(w, "put")
    /\ ExecutorPersists(w)
    /\ Advance(w, IF Flipping(w) THEN "drain" ELSE "return")
    /\ UNCHANGED <<proxyVars, agentVars, rb>>

ApplyPutFails(w) ==
    /\ "store" \in Faults
    /\ ApplyFails(w, "put")
    /\ UNCHANGED <<proxyVars, agentVars, rb>>

(* The flip phase cooling ends: the old backend is not reachable or has no *)
(* connections left, or the drain times out, which Apply takes for success.*)
DrainEnds(w) ==
    /\ Applying(w, "drain")
    /\ Advance(w, "return")
    /\ UNCHANGED <<vars, proxyVars, agentVars, rb>>

(* Counting the connections fails, or the handler's context expires.       *)
DrainFails(w) ==
    /\ "execute" \in Faults
    /\ ApplyFails(w, "drain")
    /\ UNCHANGED <<proxyVars, agentVars, rb>>

ApplyReturns(w) ==
    /\ Applying(w, "return")
    /\ ExecutorSucceeds(w)
    /\ fx' = [fx EXCEPT ![w] = NoApply]
    /\ UNCHANGED <<proxyVars, agentVars, rb>>

ApplyWorks(w) ==
    \/ SimpleApply(w) \/ ValidateBackend(w) \/ InvalidBackend(w) \/ SwapRoute(w)
    \/ DeferRoute(w) \/ UnknownBackend(w)
    \/ \E at \in Calls : ProxyCall(w, at)
    \/ ApplyPuts(w) \/ DrainEnds(w) \/ ApplyReturns(w)

Apply(w) ==
    \/ ApplyWorks(w)
    \/ ApplyGetFails(w) \/ ApplyPutFails(w) \/ DrainFails(w)
    \/ \E at \in Calls : ProxyCallFails(w, at)

-----------------------------------------------------------------------------
(* RebuildFromStore.  The resync loop runs it when the proxy has another   *)
(* epoch than at the last resync or a route is pending, the reconcile loop *)
(* on every tick.                                                          *)

ServingRows(u) == {p \in ListPlacements : Serving(store[p]) /\ store[p].client = u}

BackendsOf(u) == {store[p].backend : p \in ServingRows(u)}

RebuildStarts(r) ==
    /\ rb[r].pc = "idle"
    /\ r = "resync" => epoch # lastEpoch \/ pending
    /\ rb' = [rb EXCEPT ![r] = [NoRebuild EXCEPT !.pc = "sync", !.specs = registry,
                                                !.epoch = epoch]]
    /\ UNCHANGED <<vars, proxyVars, agentVars, fx>>

RebuildSyncs(r) ==
    /\ rb[r].pc = "sync"
    /\ SetBackends(rb[r].specs)
    /\ rb' = [rb EXCEPT ![r].pc = "list"]
    /\ UNCHANGED <<vars, agentVars, fx>>

RebuildLists(r) ==
    /\ rb[r].pc = "list"
    /\ rb' = [rb EXCEPT ![r].pc = "users",
                        ![r].cands = [u \in Clients |-> BackendsOf(u)],
                        ![r].left = {u \in Clients : BackendsOf(u) # {}}]
    /\ UNCHANGED <<vars, proxyVars, agentVars, fx>>

RebuildAddsUser(r, u) ==
    /\ rb[r].user = NoUser /\ u \in rb[r].left
    /\ AddUser(u)
    /\ rb' = [rb EXCEPT ![r].user = u, ![r].left = @ \ {u}]
    /\ UNCHANGED <<vars, agentVars, fx>>

(* eligibleBackendIDs: those of the listed backends the registry knows.    *)
Eligible(r) == rb[r].cands[rb[r].user] \cap registry

RebuildRoutesUser(r) ==
    /\ rb[r].user # NoUser
    /\ IF Eligible(r) # {} THEN SetUserBackends(rb[r].user, Eligible(r)) ELSE UNCHANGED proxyVars
    /\ rb' = [rb EXCEPT ![r].user = NoUser, ![r].pending = @ \/ Eligible(r) = {}]
    /\ UNCHANGED <<vars, agentVars, fx>>

(* The flag and the count are stored last, and a resync notes its epoch.   *)
RebuildEnds(r) ==
    /\ rb[r].pc = "users" /\ rb[r].left = {} /\ rb[r].user = NoUser
    /\ pending' = rb[r].pending
    /\ loaded' = {u \in Clients : rb[r].cands[u] # {}}
    /\ lastEpoch' = IF r = "resync" THEN rb[r].epoch ELSE lastEpoch
    /\ rb' = [rb EXCEPT ![r] = NoRebuild]
    /\ UNCHANGED <<vars, proxyVars, registry, fx>>

(* Any call fails and the rebuild is over.  A call that fails after it     *)
(* took effect is that call followed by this step.                         *)
RebuildFails(r) ==
    /\ "rebuild" \in Faults
    /\ rb[r].pc # "idle"
    /\ rb' = [rb EXCEPT ![r] = NoRebuild]
    /\ UNCHANGED <<vars, proxyVars, agentVars, fx>>

RebuildStep(r) ==
    \/ RebuildStarts(r) \/ RebuildSyncs(r) \/ RebuildLists(r)
    \/ \E u \in Clients : RebuildAddsUser(r, u)
    \/ RebuildRoutesUser(r) \/ RebuildEnds(r)

-----------------------------------------------------------------------------
(* The listener, and restarts.                                             *)

(* Listener.Handle: at least once and, when redelivered, out of order.     *)
UpstreamChanged(e) ==
    /\ registry' = IF e.removed THEN registry \ {e.backend} ELSE registry \cup {e.backend}
    /\ UNCHANGED <<vars, proxyVars, pending, loaded, lastEpoch, fx, rb>>

(* The agent dies; the proxy, another process, goes on serving.            *)
AgentCrash ==
    /\ Crash
    /\ registry' = {}
    /\ pending' = FALSE
    /\ loaded' = {}
    /\ lastEpoch' = 0
    /\ fx' = [w \in Workers |-> NoApply]
    /\ rb' = [r \in Rebuilders |-> NoRebuild]
    /\ UNCHANGED proxyVars

ProxyCrash == ProxyRestarts /\ UNCHANGED <<vars, agentVars, fx, rb>>

-----------------------------------------------------------------------------

(* The steps of a node none of whose processes restarts.                   *)
EntryStep ==
    \/ \E m \in Messages : (Publish(m) \/ Deliver(m)) /\ UNCHANGED entryVars
    \/ \E w \in Workers : (Handle(w) /\ UNCHANGED entryVars) \/ Apply(w)
    \/ \E r \in Rebuilders : RebuildStep(r) \/ RebuildFails(r)
    \/ \E e \in Upstreams : UpstreamChanged(e)

EntryNext == EntryStep \/ AgentCrash \/ ProxyCrash

EntrySpec == EntryInit /\ [][EntryNext]_nodeVars

StableEntrySpec == EntryInit /\ [][EntryStep]_nodeVars

(* A step the node takes when nothing fails and the registry is settled.   *)
EntryWorks ==
    \/ \E m \in Messages : (Publish(m) \/ Deliver(m)) /\ UNCHANGED entryVars
    \/ \E w \in Workers : (HandleWorks(w) /\ UNCHANGED entryVars) \/ ApplyWorks(w)
    \/ \E r \in Rebuilders : RebuildStep(r)

(* The goroutines keep running, the tickers ticking and the server         *)
(* redelivering; failures and upstream events come to an end.              *)
EntryFairness ==
    /\ \A m \in Messages : SF_nodeVars(Deliver(m) /\ UNCHANGED entryVars)
    /\ \A w \in Workers : WF_nodeVars((Handle(w) /\ UNCHANGED entryVars) \/ Apply(w))
    /\ \A r \in Rebuilders : WF_nodeVars(RebuildStep(r))
    /\ <>[][EntryWorks]_nodeVars

-----------------------------------------------------------------------------
(* Properties.                                                             *)

(* FlipExecutor with EntryProxyActions keeps the contract module Applier   *)
(* assumes of an executor, so every theorem about the command path holds   *)
(* on this node.                                                           *)
KeepsExecutorContract == Spec

(* Nothing is being handled or rebuilt, and no command waits for           *)
(* redelivery.                                                             *)
NodeQuiet ==
    /\ \A w \in Workers : worker[w].pc = "idle"
    /\ \A r \in Rebuilders : rb[r].pc = "idle"
    /\ unacked \cap Commands = {}

AppliedRows == {p \in ListPlacements : store[p].applied = "applied"}

(* What row p says of its client is what the proxy does: the client is     *)
(* accepted and may use its backend (or the route is pending, because the  *)
(* backend is not known), or it is not accepted.                           *)
Routed(p) ==
    /\ store[p].client \in proxyUsers
    /\ store[p].backend \in ConnBackends(store[p].client) \/ pending

Gone(p) == ServingRows(store[p].client) = {} => store[p].client \notin proxyUsers

(* No command of placement p was ever answered with an error.              *)
NeverFailed(p) == \A r \in reports : r.pid = p => r.status # "error"

(* When the node is quiet, a serving placement stored as applied, none of  *)
(* whose commands failed, has its route in the proxy, however its commands *)
(* were redelivered, skipped and flipped.                                  *)
UnfailedUsersRouted ==
    NodeQuiet => \A p \in AppliedRows : Serving(store[p]) /\ NeverFailed(p) => Routed(p)

(* And the client of a deactivated one is not accepted, unless another     *)
(* placement serves it.                                                    *)
UnfailedUsersGone ==
    NodeQuiet => \A p \in AppliedRows : ~Serving(store[p]) /\ NeverFailed(p) => Gone(p)

(* Whatever failed and however commands, rebuilds and registry changes     *)
(* overlapped, the proxy ends up accepting every client of a serving       *)
(* placement, with exactly the known backends of its placements as route.  *)
RoutesConverge ==
    <>[](\A u \in Clients :
           BackendsOf(u) # {} =>
               /\ u \in proxyUsers
               /\ BackendsOf(u) \cap registry # {} =>
                      route[u] = BackendsOf(u) \cap registry /\ route[u] \subseteq pool)
=============================================================================
