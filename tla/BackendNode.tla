----------------------------- MODULE BackendNode ----------------------------
(***************************************************************************)
(* A backend node: the command path of module Applier with the executor it *)
(* has there, internal/app/executor BackendExecutor, over the users of the *)
(* local xray; backendRebuilder of cmd/agent/main.go, which adds the       *)
(* store's users to xray when the agent starts and on every tick of        *)
(* internal/app/reconcile; and restarts of xray, which forgets its users.  *)
(*                                                                         *)
(* A call to xray and a store transaction are separate steps, and up to    *)
(* one handler call per shard and one rebuild run at the same time.  Here  *)
(* an xray call is atomic; module XrayInbounds takes it apart.             *)
(***************************************************************************)
EXTENDS Applier

CONSTANT
    Reconciling     \* whether ticks of the reconcile loop are considered

ASSUME ReconcilingAssumption == Reconciling \in BOOLEAN

VARIABLES
    users,          \* clients xray accepts
    step,           \* per shard: where BackendExecutor.Apply stands
    rebuild         \* RebuildFromStore in progress

backendVars == <<users, step, rebuild>>
nodeVars == <<vars, backendVars>>

(* After "starting" the rebuild runs before the consumers do.              *)
NoRebuild == [pc |-> "idle", toAdd |-> {}]
StartupRebuild == [pc |-> "starting", toAdd |-> {}]

BackendTypeOK ==
    /\ TypeOK
    /\ users \subseteq Clients
    /\ step \in [Workers -> {"call", "put", "return"}]
    /\ rebuild \in [pc: {"idle", "starting", "startup", "running"}, toAdd: SUBSET Clients]

BackendInit ==
    /\ Init
    /\ users = {}
    /\ step = [w \in Workers |-> "call"]
    /\ rebuild = StartupRebuild

(* The consumers are subscribed once the startup rebuild is over.          *)
Consuming == rebuild.pc \in {"idle", "running"}

-----------------------------------------------------------------------------
(* BackendExecutor.Apply, for the command and the row worker w has read.   *)

(* Faulty variant: the revocation flag is not looked at.                   *)
NowDesired(c) == c.desired = "active"

NowActive(c) == Serving(c)

WasActive(row) == Found(row) /\ Serving(row) /\ row.applied = "applied"

Applying(w, at) == worker[w].pc = "execute" /\ step[w] = at

(* AddUser or RemoveUser succeeds, or neither is called.                   *)
XrayCall(w) ==
    LET c == worker[w].msg
        row == worker[w].existing
    IN  /\ Applying(w, "call")
        /\ users' = IF NowActive(c) /\ ~WasActive(row) THEN users \cup {c.client}
                    ELSE IF ~NowActive(c) /\ WasActive(row) THEN users \ {row.client}
                    ELSE users
        /\ step' = [step EXCEPT ![w] = "put"]
        /\ UNCHANGED <<vars, rebuild>>

(* The xray call fails: classifyXrayError makes every error final.  The    *)
(* call may have taken effect all the same, and an AddUser that met        *)
(* "already exists" may have removed the user and failed to add it again.  *)
XrayCallFails(w) ==
    LET c == worker[w].msg
        row == worker[w].existing
    IN  /\ "execute" \in Faults
        /\ Applying(w, "call")
        /\ ExecutorFails(w)
        /\ \/ /\ NowActive(c) /\ ~WasActive(row)
              /\ users' \in {users, users \cup {c.client}, users \ {c.client}}
           \/ /\ ~NowActive(c) /\ WasActive(row)
              /\ users' \in {users, users \ {row.client}}
        /\ UNCHANGED <<step, rebuild>>

(* Faulty variant: a deactivated placement's row is deleted.               *)
ApplyDeletes(w) ==
    /\ Applying(w, "put")
    /\ IF NowActive(worker[w].msg) THEN PutPlacement(worker[w].msg, "applied")
       ELSE DeletePlacement(worker[w].msg.pid)
    /\ step' = [step EXCEPT ![w] = "return"]
    /\ UNCHANGED <<applierVars, users, rebuild>>

ApplyPuts(w) ==
    /\ Applying(w, "put")
    /\ ExecutorPersists(w)
    /\ step' = [step EXCEPT ![w] = "return"]
    /\ UNCHANGED <<users, rebuild>>

(* PutPlacement fails inside Apply: a final error as well.                 *)
ApplyPutFails(w) ==
    /\ "store" \in Faults
    /\ Applying(w, "put")
    /\ ExecutorFails(w)
    /\ step' = [step EXCEPT ![w] = "call"]
    /\ UNCHANGED <<users, rebuild>>

ApplyReturns(w) ==
    /\ Applying(w, "return")
    /\ ExecutorSucceeds(w)
    /\ step' = [step EXCEPT ![w] = "call"]
    /\ UNCHANGED <<users, rebuild>>

ApplyWorks(w) == XrayCall(w) \/ ApplyPuts(w) \/ ApplyReturns(w)

Apply(w) == ApplyWorks(w) \/ XrayCallFails(w) \/ ApplyPutFails(w)

-----------------------------------------------------------------------------
(* backendRebuilder.RebuildFromStore: list once, then add every serving    *)
(* placement's client in goroutines; it never removes one, and a failed    *)
(* AddUser is only logged.                                                 *)

(* Faulty variant: the rows' backends instead of their clients.            *)
ServingBackends == {store[p].backend : p \in {q \in ListPlacements : Serving(store[q])}}

ServingClients == {store[p].client : p \in {q \in ListPlacements : Serving(store[q])}}


RebuildLists ==
    /\ \/ rebuild.pc = "starting"
       \/ rebuild.pc = "idle" /\ Reconciling
    /\ rebuild' = [pc |-> IF rebuild.pc = "starting" THEN "startup" ELSE "running",
                   toAdd |-> ServingClients]
    /\ UNCHANGED <<vars, users, step>>

(* ListPlacements fails: the tick, or the startup rebuild, is given up.    *)
RebuildListFails ==
    /\ "store" \in Faults
    /\ rebuild.pc = "starting"
    /\ rebuild' = NoRebuild
    /\ UNCHANGED <<vars, users, step>>

RebuildAdds(u) ==
    /\ u \in rebuild.toAdd
    /\ users' = users \cup {u}
    /\ rebuild' = [rebuild EXCEPT !.toAdd = @ \ {u}]
    /\ UNCHANGED <<vars, step>>

RebuildAddFails(u) ==
    /\ "execute" \in Faults
    /\ u \in rebuild.toAdd
    /\ users' \in {users, users \ {u}}
    /\ rebuild' = [rebuild EXCEPT !.toAdd = @ \ {u}]
    /\ UNCHANGED <<vars, step>>

RebuildEnds ==
    /\ rebuild.pc \in {"startup", "running"} /\ rebuild.toAdd = {}
    /\ rebuild' = NoRebuild
    /\ UNCHANGED <<vars, users, step>>

-----------------------------------------------------------------------------
(* Restarts.                                                               *)

(* Faulty variant: no rebuild at startup.                                  *)
AgentCrashUnrebuilt ==
    /\ Crash
    /\ step' = [w \in Workers |-> "call"]
    /\ rebuild' = NoRebuild
    /\ UNCHANGED users

(* The agent dies; xray keeps its users.                                   *)
AgentCrash ==
    /\ Crash
    /\ step' = [w \in Workers |-> "call"]
    /\ rebuild' = StartupRebuild
    /\ UNCHANGED users

(* xray dies and comes back without users.                                 *)
XrayRestarts ==
    /\ "xray" \in Faults
    /\ users' = {}
    /\ UNCHANGED <<vars, step, rebuild>>

-----------------------------------------------------------------------------

RebuildWorks == RebuildLists \/ RebuildEnds \/ \E u \in Clients : RebuildAdds(u)

RebuildStep ==
    RebuildWorks \/ RebuildListFails \/ \E u \in Clients : RebuildAddFails(u)

BackendNext ==
    \/ \E m \in Messages : Publish(m) /\ UNCHANGED backendVars
    \/ \E m \in Messages : Consuming /\ Deliver(m) /\ UNCHANGED backendVars
    \/ \E w \in Workers : Handle(w) /\ UNCHANGED backendVars
    \/ \E w \in Workers : Apply(w)
    \/ RebuildStep
    \/ AgentCrash
    \/ XrayRestarts

BackendSpec == BackendInit /\ [][BackendNext]_nodeVars

(* A step the node takes when nothing fails.                               *)
BackendWorks ==
    \/ \E m \in Messages : (Publish(m) \/ (Consuming /\ Deliver(m))) /\ UNCHANGED backendVars
    \/ \E w \in Workers : (HandleWorks(w) /\ UNCHANGED backendVars) \/ ApplyWorks(w)
    \/ RebuildWorks

(* The ticker keeps ticking and the goroutines keep running; failures come *)
(* to an end.                                                              *)
BackendLiveSpec ==
    /\ BackendSpec
    /\ \A m \in Messages : SF_nodeVars(Consuming /\ Deliver(m) /\ UNCHANGED backendVars)
    /\ \A w \in Workers : WF_nodeVars((Handle(w) /\ UNCHANGED backendVars) \/ Apply(w))
    /\ WF_nodeVars(RebuildStep)
    /\ <>[][BackendWorks]_nodeVars

-----------------------------------------------------------------------------
(* Properties.                                                             *)

(* BackendExecutor keeps the contract module Applier assumes of an         *)
(* executor, so every theorem about the command path holds on this node.   *)
KeepsExecutorContract == Spec

(* A row stops serving only when its user is gone from xray: the removal   *)
(* comes before the store transaction, in the same handler call, and the   *)
(* rebuild after a restart is over before commands are consumed.  (A tick  *)
(* of the reconcile loop in between may have put the user back.)           *)
RemovedBeforeStored ==
    [][\A p \in Placements :
         /\ Found(store[p]) /\ Serving(store[p]) /\ store[p].applied = "applied"
         /\ Found(store'[p]) /\ ~Serving(store'[p]) /\ store'[p].applied = "applied"
         => store[p].client \notin users]_nodeVars

(* While the agent consumes commands, a placement stored as applied and    *)
(* serving that no handler call is at has its user in xray: the user is    *)
(* added before the row is stored, and after a crash between a removal and *)
(* its row the startup rebuild adds the user again.                        *)
AppliedUsersPresent ==
    Consuming =>
        \A p \in ListPlacements :
            /\ Serving(store[p]) /\ store[p].applied = "applied"
            /\ \A w \in Workers : worker[w].pc = "execute" => worker[w].msg.pid # p
            => store[p].client \in users

=============================================================================
