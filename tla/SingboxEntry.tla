---------------------------- MODULE SingboxEntry ----------------------------
(***************************************************************************)
(* An entry node that drives a separate sing-box process: FlipExecutor and *)
(* the flip Orchestrator over EntryActions, the RenderCoalescer that       *)
(* renders for all of them, the backend registry and the reconcile loop    *)
(* (internal/app/executor, internal/app/flip, internal/app/reconcile), and *)
(* the calls internal/adapters/singbox makes.                              *)
(*                                                                         *)
(* The command path in front of the executor is the one of module Applier, *)
(* reduced to what it guarantees: at most one handler call per placement,  *)
(* for any command of it, again and in any order, that is neither stale    *)
(* nor idempotent when the call starts.                                    *)
(*                                                                         *)
(* A caller waits for the batch its request is in until its context        *)
(* expires; the request then stays in the coalescer without a caller.  An  *)
(* expired context also makes the handler's own writes fail, so nothing is *)
(* stored or reported and the message comes back.                          *)
(***************************************************************************)
EXTENDS SingboxConfig

CONSTANTS
    Scenarios,      \* the commands and failures that may come together
    BaseFiles,      \* what the configuration file may hold at first
    Upstreams,      \* upstream_changed events that may be handled
    MaxBatch,       \* CoalescerOptions.MaxBatch
    MaxSubmit,      \* CoalescerOptions.Buffer
    MaxAbandoned,   \* bound on the placements whose handlers' contexts expire
    NoCaller        \* the reconcile loop, as the caller of a request

ASSUME ScenariosAssumption ==
    Scenarios \subseteq [commands: SUBSET Commands, faults: SUBSET Faults]
ASSUME BaseFilesAssumption == BaseFiles \subseteq {EmptyFile, Template}
ASSUME UpstreamsAssumption == Upstreams \subseteq [backend: Backends, removed: BOOLEAN]
ASSUME CallerAssumption == NoCaller \notin Placements /\ NoPlacement \notin Commands
ASSUME BatchAssumption == MaxBatch \in Nat \ {0} /\ MaxSubmit \in Nat \ {0} /\ MaxAbandoned \in Nat

VARIABLES
    registry,       \* backends.Registry, in memory
    file,           \* the configuration file
    running,        \* the configuration sing-box runs, EmptyFile if it is down
    chosen,         \* sing-box: the outbound chosen in each selector
    lastHash,       \* what the last successful reload loaded, EmptyFile if none
    submit,         \* requests in the coalescer's channel
    flush,          \* the batch being flushed
    call,           \* per placement: the handler call in progress
    rebuild,        \* the reconcile loop's RebuildFromStore
    scenario,       \* the commands and the failures of this behaviour
    abandoned       \* history: placements that had a request given up

singboxVars == <<file, running, chosen>>
coalescerVars == <<lastHash, submit, flush>>
auxVars == <<scenario, abandoned>>
sbVars == <<store, registry, singboxVars, coalescerVars, call, rebuild, auxVars>>

(* renderReq: who waits on done (live says whether it still does) and the  *)
(* overlay, NoPlacement for a plain rebuild.                               *)
Request(by, overlay) == [by |-> by, overlay |-> overlay, live |-> TRUE]

RequestType ==
    [by: Placements \cup {NoCaller}, overlay: Commands \cup {NoPlacement}, live: BOOLEAN]

NoFlush == [pc |-> "idle", batch |-> <<>>, list |-> <<>>, overlays |-> {}, cfg |-> EmptyFile]
NoCall == [pc |-> "idle", cmd |-> NoPlacement, flip |-> FALSE]

(* "submit" and "wait" are the rendering of the command's own row, "cool"  *)
(* and "cooling" the one that ends a flip.                                 *)
CallPhase ==
    {"idle", "start", "list", "select", "put", "submit", "wait", "drain", "cool", "cooling",
     "ok", "error"}

SbTypeOK ==
    /\ StoreTypeOK
    /\ registry \subseteq Backends
    /\ {file, running, lastHash} \subseteq ConfigType \cup {EmptyFile}
    /\ running # EmptyFile => DOMAIN chosen = DOMAIN running.selectors
    /\ submit \in Seq(RequestType) /\ Len(submit) <= MaxSubmit
    /\ flush.pc \in {"idle", "render", "write", "reload", "persist", "failed"}
    /\ flush.batch \in Seq(RequestType) /\ Len(flush.batch) <= MaxBatch
    /\ flush.overlays \subseteq Commands
    /\ flush.cfg \in ConfigType \cup {EmptyFile}
    /\ call \in [Placements -> [pc: CallPhase, cmd: Commands \cup {NoPlacement}, flip: BOOLEAN]]
    /\ rebuild \in {"idle", "wait"}
    /\ scenario \in Scenarios
    /\ abandoned \subseteq Placements

SbInit ==
    /\ StoreInit
    /\ registry \in SUBSET Backends
    /\ file \in BaseFiles
    /\ running = IF Loads(file) THEN file ELSE EmptyFile
    /\ chosen = <<>>
    /\ lastHash = EmptyFile
    /\ submit = <<>>
    /\ flush = NoFlush
    /\ call = [p \in Placements |-> NoCall]
    /\ rebuild = "idle"
    /\ scenario \in Scenarios
    /\ abandoned = {}

-----------------------------------------------------------------------------
(* A handler call: Applier.Handle around FlipExecutor.Apply.               *)

At(p, pc) == call[p].pc = pc

Goto(p, pc) == call' = [call EXCEPT ![p].pc = pc]

(* Where a call goes once its row is stored.                               *)
Swapped(p) == IF call[p].flip THEN "drain" ELSE "ok"

Dispatch(p, c) ==
    /\ At(p, "idle") /\ c.pid = p /\ c \in scenario.commands
    /\ ~IsStale(store[p], c) /\ ~IsIdempotent(store[p], c)
    /\ call' = [call EXCEPT ![p] = [pc |-> "start", cmd |-> c,
                                       flip |-> IsBackendFlip(store[p], c)]]
    /\ UNCHANGED <<store, registry, singboxVars, coalescerVars, rebuild, auxVars>>

(* What SimpleApply, or ValidateBackend and SwapRoute, decide from the     *)
(* registry and the placement's own row.                                   *)
AfterChecks(p) ==
    LET c == call[p].cmd IN
        IF c.desired = "active" /\ c.backend \notin registry THEN "error"
        ELSE IF AlreadyStored(c) THEN Swapped(p)
        ELSE IF /\ c.desired = "active"
                /\ call[p].flip \/ (Found(store[p]) /\ store[p].client = c.client)
             THEN "list"
             ELSE "submit"

Checks(p) ==
    /\ At(p, "start")
    /\ Goto(p, AfterChecks(p))
    /\ UNCHANGED <<store, registry, singboxVars, coalescerVars, rebuild, auxVars>>

(* trySelectorFlip lists the placements: is the user known?                *)
UserKnown(c) ==
    \E q \in ListPlacements : store[q].client = c.client /\ store[q].desired = "active"

ListsUsers(p) ==
    /\ At(p, "list")
    /\ Goto(p, IF UserKnown(call[p].cmd) /\ call[p].cmd.backend \in registry
               THEN "select" ELSE "submit")
    /\ UNCHANGED <<store, registry, singboxVars, coalescerVars, rebuild, auxVars>>

(* SelectOutbound: sing-box has the user's selector, with that option.     *)
Selectable(c) ==
    /\ running # EmptyFile
    /\ c.client \in DOMAIN running.selectors
    /\ c.backend \in running.selectors[c.client].options

SelectEffect(c) ==
    Selectable(c) /\ chosen' = [chosen EXCEPT ![c.client] = c.backend]

SelectOutbound(p) ==
    /\ At(p, "select")
    /\ SelectEffect(call[p].cmd)
    /\ Goto(p, "put")
    /\ UNCHANGED <<store, registry, file, running, coalescerVars, rebuild, auxVars>>

(* An error means a rebuild, and so does an answer that is lost.           *)
SelectRefused(p) ==
    /\ At(p, "select") /\ ~Selectable(call[p].cmd)
    /\ Goto(p, "submit")
    /\ UNCHANGED <<store, registry, singboxVars, coalescerVars, rebuild, auxVars>>

SelectFails(p) ==
    /\ "execute" \in scenario.faults
    /\ At(p, "select")
    /\ UNCHANGED chosen \/ SelectEffect(call[p].cmd)
    /\ Goto(p, "submit")
    /\ UNCHANGED <<store, registry, file, running, coalescerVars, rebuild, auxVars>>

StoresSelected(p) ==
    /\ At(p, "put")
    /\ PutPlacement(call[p].cmd, "applied")
    /\ Goto(p, Swapped(p))
    /\ UNCHANGED <<registry, singboxVars, coalescerVars, rebuild, auxVars>>

(* RenderCoalescer.Apply sends the request and waits.                      *)
Submits(p) ==
    /\ At(p, "submit") \/ At(p, "cool")
    /\ Len(submit) < MaxSubmit
    /\ submit' = Append(submit, Request(p, IF At(p, "submit") THEN call[p].cmd ELSE NoPlacement))
    /\ Goto(p, IF At(p, "submit") THEN "wait" ELSE "cooling")
    /\ UNCHANGED <<store, registry, singboxVars, lastHash, flush, rebuild, auxVars>>

(* The drain ends because nothing is left on the old backend or it cannot  *)
(* be reached, and CoolOldBackend follows; or because it times out, which  *)
(* FlipExecutor takes for success.                                         *)
Drained(p) ==
    /\ At(p, "drain")
    /\ Goto(p, "cool") \/ Goto(p, "ok")
    /\ UNCHANGED <<store, registry, singboxVars, coalescerVars, rebuild, auxVars>>

DrainFails(p) ==
    /\ "execute" \in scenario.faults
    /\ At(p, "drain")
    /\ Goto(p, "error")
    /\ UNCHANGED <<store, registry, singboxVars, coalescerVars, rebuild, auxVars>>

(* The handler stores the row with the outcome, and the call is over.      *)
HandlerStores(p) ==
    /\ At(p, "ok") \/ At(p, "error")
    /\ PutPlacement(call[p].cmd, IF At(p, "ok") THEN "applied" ELSE "error")
    /\ call' = [call EXCEPT ![p] = NoCall]
    /\ UNCHANGED <<registry, singboxVars, coalescerVars, rebuild, auxVars>>

(* A store error fails the executor, except in trySelectorFlip; in the     *)
(* handler it means that nothing is stored.                                *)
StoreFails(p) ==
    /\ "store" \in scenario.faults
    /\ \/ (At(p, "start") \/ At(p, "put")) /\ Goto(p, "error")
       \/ At(p, "list") /\ Goto(p, "submit")
       \/ (At(p, "ok") \/ At(p, "error")) /\ call' = [call EXCEPT ![p] = NoCall]
    /\ UNCHANGED <<store, registry, singboxVars, coalescerVars, rebuild, auxVars>>

(* The requests of placement p in rs have nobody waiting for them.         *)
Abandon(rs, p) ==
    [i \in DOMAIN rs |-> IF rs[i].by = p THEN [rs[i] EXCEPT !.live = FALSE] ELSE rs[i]]

(* The handler's context expires.                                          *)
GivesUp(p) ==
    /\ "timeout" \in scenario.faults
    /\ ~At(p, "idle") /\ Cardinality(abandoned \cup {p}) <= MaxAbandoned
    /\ call' = [call EXCEPT ![p] = NoCall]
    /\ submit' = Abandon(submit, p)
    /\ flush' = [flush EXCEPT !.batch = Abandon(@, p)]
    /\ abandoned' = abandoned \cup (IF At(p, "wait") \/ At(p, "cooling") THEN {p} ELSE {})
    /\ UNCHANGED <<store, registry, singboxVars, lastHash, rebuild, scenario>>

CallWorks(p) ==
    \/ \E c \in Commands : Dispatch(p, c)
    \/ Checks(p) \/ ListsUsers(p) \/ SelectOutbound(p) \/ SelectRefused(p)
    \/ StoresSelected(p) \/ Submits(p) \/ Drained(p) \/ HandlerStores(p)

CallFails(p) == SelectFails(p) \/ DrainFails(p) \/ StoreFails(p) \/ GivesUp(p)

-----------------------------------------------------------------------------
(* RenderCoalescer.Run and flushBatch.                                     *)

(* The reconcile loop asks for a rebuild and waits for it.                 *)
RebuildFromStore ==
    /\ rebuild = "idle"
    /\ Len(submit) < MaxSubmit
    /\ submit' = Append(submit, Request(NoCaller, NoPlacement))
    /\ rebuild' = "wait"
    /\ UNCHANGED <<store, registry, singboxVars, lastHash, flush, call, auxVars>>

(* Faulty variant: per placement the first one wins.                       *)
FirstOverlays(batch) ==
    {batch[i].overlay : i \in {i \in DOMAIN batch :
        /\ batch[i].overlay # NoPlacement
        /\ \A j \in DOMAIN batch :
               j < i /\ batch[j].overlay # NoPlacement => batch[j].overlay.pid # batch[i].overlay.pid}}

(* The overlays of a batch: per placement the last one wins.               *)
Overlays(batch) ==
    {batch[i].overlay : i \in {i \in DOMAIN batch :
        /\ batch[i].overlay # NoPlacement
        /\ \A j \in DOMAIN batch :
               j > i /\ batch[j].overlay # NoPlacement => batch[j].overlay.pid # batch[i].overlay.pid}}

(* The timer fires, or the batch is full: the requests received so far are *)
(* a prefix of the channel.  The flush lists the placements and lays the   *)
(* overlays over them.                                                     *)
FlushLists(n) ==
    /\ flush.pc = "idle"
    /\ n \in 1..Len(submit) /\ n <= MaxBatch
    /\ LET batch == SubSeq(submit, 1, n) IN
         flush' = [NoFlush EXCEPT !.pc = "render", !.batch = batch,
                                  !.overlays = Overlays(batch),
                                  !.list = ApplyPlacementOverlay(Listing, Overlays(batch))]
    /\ submit' = SubSeq(submit, n + 1, Len(submit))
    /\ UNCHANGED <<store, registry, singboxVars, lastHash, call, rebuild, auxVars>>

(* A configuration like the last one loaded is neither written nor loaded. *)
FlushRenders ==
    /\ flush.pc = "render"
    /\ Validate(flush.list, registry)
    /\ \E cfg \in RenderFromState(file, flush.list, registry) :
         flush' = [flush EXCEPT !.pc = IF cfg = lastHash THEN "persist" ELSE "write",
                                !.list = <<>>, !.cfg = IF cfg = lastHash THEN EmptyFile ELSE cfg]
    /\ UNCHANGED <<store, registry, singboxVars, lastHash, submit, call, rebuild, auxVars>>

RenderFails ==
    /\ flush.pc = "render"
    /\ ~Validate(flush.list, registry)
    /\ flush' = [NoFlush EXCEPT !.pc = "failed", !.batch = flush.batch]
    /\ UNCHANGED <<store, registry, singboxVars, lastHash, submit, call, rebuild, auxVars>>

(* WriteConfig replaces the file by a rename.                              *)
FlushWrites ==
    /\ flush.pc = "write"
    /\ file' = flush.cfg
    /\ flush' = [flush EXCEPT !.pc = "reload"]
    /\ UNCHANGED <<store, registry, running, chosen, lastHash, submit, call, rebuild, auxVars>>

(* Faulty variant: what was chosen before a reload is kept.                *)
LoadKeepingChoices == running' = file /\ UNCHANGED chosen

(* Reload makes sing-box load the file.                                    *)
LoadFile == running' = file /\ chosen' = Defaults(file)

FlushReloads ==
    /\ flush.pc = "reload" /\ Loads(file)
    /\ LoadFile
    /\ lastHash' = flush.cfg
    /\ flush' = [flush EXCEPT !.pc = "persist", !.cfg = EmptyFile]
    /\ UNCHANGED <<store, registry, file, submit, call, rebuild, auxVars>>

ReloadRefused ==
    /\ flush.pc = "reload" /\ ~Loads(file)
    /\ flush' = [NoFlush EXCEPT !.pc = "failed", !.batch = flush.batch]
    /\ UNCHANGED <<store, registry, singboxVars, lastHash, submit, call, rebuild, auxVars>>

FlushPersists(c) ==
    /\ flush.pc = "persist" /\ c \in flush.overlays
    /\ PutPlacement(c, "applied")
    /\ flush' = [flush EXCEPT !.overlays = @ \ {c}]
    /\ UNCHANGED <<registry, singboxVars, lastHash, submit, call, rebuild, auxVars>>

(* Listing or storing a row fails.                                         *)
FlushStoreFails ==
    /\ "store" \in scenario.faults
    /\ flush.pc = "render" \/ (flush.pc = "persist" /\ flush.overlays # {})
    /\ flush' = [NoFlush EXCEPT !.pc = "failed", !.batch = flush.batch]
    /\ UNCHANGED <<store, registry, singboxVars, lastHash, submit, call, rebuild, auxVars>>

(* Faulty variant: an error of Reload is not looked at.                    *)
ReloadErrorIgnored ==
    /\ "execute" \in scenario.faults
    /\ flush.pc = "reload"
    /\ lastHash' = flush.cfg
    /\ flush' = [flush EXCEPT !.pc = "persist", !.cfg = EmptyFile]
    /\ UNCHANGED <<store, registry, singboxVars, submit, call, rebuild, auxVars>>

(* Writing the file fails, or Reload does, perhaps after sing-box has      *)
(* loaded it.                                                              *)
FlushFails ==
    /\ "execute" \in scenario.faults
    /\ flush.pc \in {"write", "reload"}
    /\ \/ UNCHANGED <<running, chosen>>
       \/ flush.pc = "reload" /\ Loads(file) /\ LoadFile
    /\ flush' = [NoFlush EXCEPT !.pc = "failed", !.batch = flush.batch]
    /\ UNCHANGED <<store, registry, file, lastHash, submit, call, rebuild, auxVars>>

(* Every request of the batch gets the one result.                         *)
Answered(p) == \E i \in DOMAIN flush.batch : flush.batch[i].by = p /\ flush.batch[i].live

AfterAnswer(p) ==
    IF flush.pc = "failed" THEN "error" ELSE IF At(p, "wait") THEN Swapped(p) ELSE "ok"

FlushAnswers ==
    /\ flush.pc = "failed" \/ (flush.pc = "persist" /\ flush.overlays = {})
    /\ call' = [p \in Placements |->
                  IF Answered(p) THEN [call[p] EXCEPT !.pc = AfterAnswer(p)] ELSE call[p]]
    /\ rebuild' = IF Answered(NoCaller) THEN "idle" ELSE rebuild
    /\ flush' = NoFlush
    /\ UNCHANGED <<store, registry, singboxVars, lastHash, submit, auxVars>>

FlushWorks ==
    \/ \E n \in 1..MaxBatch : FlushLists(n)
    \/ FlushRenders \/ RenderFails \/ FlushWrites \/ FlushReloads \/ ReloadRefused
    \/ \E c \in Commands : FlushPersists(c)
    \/ FlushAnswers

-----------------------------------------------------------------------------
(* The listener, and restarts.                                             *)

UpstreamChanged(e) ==
    /\ registry' = IF e.removed THEN registry \ {e.backend} ELSE registry \cup {e.backend}
    /\ UNCHANGED <<store, singboxVars, coalescerVars, call, rebuild, auxVars>>

(* The agent dies; the table, the file and sing-box stay.                  *)
AgentCrash ==
    /\ "crash" \in scenario.faults
    /\ registry' = {}
    /\ lastHash' = EmptyFile
    /\ submit' = <<>>
    /\ flush' = NoFlush
    /\ call' = [p \in Placements |-> NoCall]
    /\ rebuild' = "idle"
    /\ abandoned' = {}
    /\ UNCHANGED <<store, singboxVars, scenario>>

(* sing-box dies and comes back with the file, if it can load it.          *)
SingboxRestarts ==
    /\ "proxy" \in scenario.faults
    /\ IF Loads(file) THEN LoadFile ELSE running' = EmptyFile /\ chosen' = <<>>
    /\ UNCHANGED <<store, registry, file, coalescerVars, call, rebuild, auxVars>>

-----------------------------------------------------------------------------

(* A step the node takes when nothing fails.                               *)
SbWorks ==
    \/ \E p \in Placements : CallWorks(p)
    \/ RebuildFromStore \/ FlushWorks

SbNext ==
    \/ SbWorks
    \/ \E p \in Placements : CallFails(p)
    \/ FlushStoreFails \/ FlushFails
    \/ \E e \in Upstreams : UpstreamChanged(e)
    \/ AgentCrash \/ SingboxRestarts

SbSpec == SbInit /\ [][SbNext]_sbVars

Announced(e) == ~e.removed /\ UpstreamChanged(e)

(* The goroutines keep running and the ticker ticking, the control plane   *)
(* announces every backend again after a restart, and failures come to an  *)
(* end.                                                                    *)
SbFairness ==
    /\ \A p \in Placements : WF_sbVars(~At(p, "idle") /\ CallWorks(p))
    /\ WF_sbVars(RebuildFromStore) /\ WF_sbVars(FlushWorks)
    /\ \A e \in Upstreams : WF_sbVars(Announced(e))
    /\ <>[][SbWorks \/ \E e \in Upstreams : Announced(e)]_sbVars

-----------------------------------------------------------------------------
(* Properties.                                                             *)

(* The stored version of a placement never goes back as long as none of    *)
(* its requests was given up: batches, selector flips, error rows and      *)
(* repeated commands keep the order of the versions.                       *)
VersionsKeptWhileAwaited ==
    [][\A p \in Placements \ abandoned :
         Found(store[p]) => Found(store'[p]) /\ store'[p].op >= store[p].op]_sbVars

(* A handler that the coalescer answers with success finds its own row in  *)
(* the table, whatever else was in the batch, requests it had given up     *)
(* earlier included.                                                       *)
AnsweredMeansStored ==
    [][\A p \in Placements :
         At(p, "wait") /\ call'[p].pc \in {"ok", "drain"} =>
             store[p] = Row(call[p].cmd, "applied")]_sbVars

ActiveBackends(u) ==
    {store[p].backend : p \in {p \in ListPlacements :
                                 store[p].client = u /\ store[p].desired = "active"}}

(* sing-box lets exactly one backend of its active placements carry user u.*)
Carried(u) ==
    /\ running # EmptyFile
    /\ Egress(running, chosen, u) # {}
    /\ Egress(running, chosen, u) \subseteq ActiveBackends(u)

(* The last file written has been loaded by this process.                  *)
ReloadKnown == lastHash # EmptyFile /\ lastHash = file

AppliedActive(p) ==
    Found(store[p]) /\ store[p].applied = "applied" /\ store[p].desired = "active"

CarriedFor(p) == Carried(store[p].client)

(* Version op of placement p has failed and is stored so: SimpleApply then *)
(* takes the command for done.                                             *)
FailedBefore(p, op) == Found(store[p]) /\ store[p].applied = "error" /\ store[p].op = op

(* The choices made in selectors outlive nothing: a sing-box that restarts *)
(* goes back to the defaults.                                              *)
ChoicesLast == file.selectors = <<>> \/ "proxy" \notin scenario.faults

(* An active placement is stored as applied only when sing-box carries its *)
(* user, provided that the last reload did not fail, this version of the   *)
(* placement has not failed before, none of its requests was given up, and *)
(* no restart of sing-box can forget a choice before it is stored.         *)
AppliedMeansCarried ==
    [][\A p \in Placements \ abandoned :
         /\ ReloadKnown /\ ChoicesLast
         /\ store'[p] # store[p] /\ AppliedActive(p)'
         /\ ~FailedBefore(p, store'[p].op)
         => CarriedFor(p)']_sbVars

(* However batches, flips, failures and restarts overlapped, sing-box ends *)
(* up carrying every user that has an active placement and no other,       *)
(* except that the last user to go is kept.                                *)
SingboxConverges ==
    <>[](ReloadKnown /\ file.selectors = <<>> =>
           /\ \A u \in Clients : ActiveBackends(u) # {} => Carried(u)
           /\ (\E u \in Clients : ActiveBackends(u) # {}) =>
                  \A u \in running.users : ActiveBackends(u) # {})
=============================================================================
