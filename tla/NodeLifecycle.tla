---------------------------- MODULE NodeLifecycle ---------------------------
(***************************************************************************)
(* How a node agent comes up and gets its state: bootstrap.Run under       *)
(* runBootstrapWithRetry, and the goroutine that asks the control plane    *)
(* for a snapshot (awaitCompleteSnapshot on a backend, runEntrySelfHeal on *)
(* an entry).  Durable are the identity and the placements.  Whether a     *)
(* full resync is required is said once, in the answer to the              *)
(* registration, and kept in memory.                                       *)
(*                                                                         *)
(* An agent instance is the number of the NewID call that made its ID; the *)
(* control plane answers with the one it was sent.  It has placements for  *)
(* the node and answers a request with a snapshot of them, which arrives   *)
(* here in one step (SnapshotConsumer has the chunks), and by announcing   *)
(* the backends.                                                           *)
(***************************************************************************)
EXTENDS Naturals

CONSTANTS
    NodeFaults,     \* the failures that may happen
    MaxInstances    \* bound on the instance IDs

ASSUME NodeFaultsAssumption ==
    NodeFaults \subseteq {"initial", "answer", "refused", "persist", "connect",
                          "crash", "request", "deadline", "snapshot"}
ASSUME MaxInstancesAssumption == MaxInstances \in Nat

VARIABLES
    role,           \* NODE_ROLE
    identity,       \* durable: the stored instance, 0 if there is none
    registered,     \* control plane: the instance it knows for the node
    instances,      \* how many instance IDs were made
    boot,           \* the process: how far it came up
    healer,         \* the goroutine that asks for snapshots
    completed,      \* consumer: a snapshot was completed by this process
    asked,          \* what the control plane has still to send
    rows,           \* durable: placements are stored
    loaded,         \* entry: what the last rebuild made of the users
    backendsKnown   \* entry: the registry has backends

lifeVars == <<role, identity, registered, instances, boot, healer, completed, asked,
              rows, loaded, backendsKnown>>
serviceVars == <<completed, asked, rows, loaded, backendsKnown>>

Answers == {"snapshot", "backends"}
Down == [pc |-> "down", inst |-> 0, resync |-> FALSE]

LifeTypeOK ==
    /\ role \in {"entry", "backend"}
    /\ {identity, registered, instances} \subseteq 0..MaxInstances
    /\ boot \in [pc: {"down", "loading", "calling", "answered", "connecting", "up"},
                 inst: 0..MaxInstances, resync: BOOLEAN]
    /\ healer \in {"off", "ask", "await", "watch"}
    /\ asked \subseteq Answers
    /\ loaded \in {"nobody", "pending", "routed"}
    /\ {completed, rows, backendsKnown} \subseteq BOOLEAN

LifeInit ==
    /\ role \in {"entry", "backend"}
    /\ identity = 0 /\ registered = 0 /\ instances = 0
    /\ boot = Down /\ healer = "off"
    /\ completed = FALSE /\ asked = {} /\ rows = FALSE
    /\ loaded = "nobody" /\ backendsKnown = FALSE

-----------------------------------------------------------------------------

(* Coming up.                                                              *)

(* The supervisor starts the process; its store opens.                     *)
ProcessStarts ==
    /\ boot.pc = "down"
    /\ boot' = [Down EXCEPT !.pc = "loading"]
    /\ UNCHANGED <<role, identity, registered, instances, healer, serviceVars>>

(* Faulty variant: the new instance is stored before it is registered.     *)
StoresBeforeCalling ==
    /\ boot.pc = "loading"
    /\ \/ /\ identity # 0
          /\ boot' = [pc |-> "connecting", inst |-> identity, resync |-> FALSE]
          /\ UNCHANGED <<identity, instances>>
       \/ /\ identity = 0 /\ instances < MaxInstances
          /\ instances' = instances + 1
          /\ identity' = instances'
          /\ boot' = [boot EXCEPT !.pc = "calling", !.inst = instances']
    /\ UNCHANGED <<role, registered, healer, serviceVars>>

(* A stored identity is used as it is; else a new instance is made up.     *)
LoadIdentity ==
    /\ boot.pc = "loading"
    /\ \/ /\ identity # 0
          /\ boot' = [pc |-> "connecting", inst |-> identity, resync |-> FALSE]
          /\ UNCHANGED instances
       \/ /\ identity = 0 /\ instances < MaxInstances
          /\ instances' = instances + 1
          /\ boot' = [boot EXCEPT !.pc = "calling", !.inst = instances']
    /\ UNCHANGED <<role, identity, registered, healer, serviceVars>>

(* The control plane registers the instance and says whether to resync.    *)
Initial ==
    /\ boot.pc = "calling"
    /\ registered' = boot.inst
    /\ \E r \in BOOLEAN : boot' = [boot EXCEPT !.pc = "answered", !.resync = r]
    /\ UNCHANGED <<role, identity, instances, healer, serviceVars>>

(* The last instance within the bound is not given up.                     *)
InBound == identity # 0 \/ boot.inst < MaxInstances

Retries == InBound /\ boot' = [Down EXCEPT !.pc = "loading"]

(* A retryable error; with "answer" the instance was registered all the    *)
(* same.  An answer for another node than the expected one ends here too.  *)
InitialFails ==
    /\ boot.pc = "calling"
    /\ \/ "initial" \in NodeFaults /\ UNCHANGED registered
       \/ "answer" \in NodeFaults /\ registered' = boot.inst
    /\ Retries
    /\ UNCHANGED <<role, identity, instances, healer, serviceVars>>

(* A NonRetryableError ends the process; a malformed answer is one too.  A *)
(* call that times out ends it as well, as errors.Is takes it for an       *)
(* expired context.                                                        *)
InitialRefused ==
    /\ "refused" \in NodeFaults /\ InBound
    /\ boot.pc = "calling"
    /\ boot' = Down
    /\ registered' \in {registered, boot.inst}
    /\ UNCHANGED <<role, identity, instances, healer, serviceVars>>

PutIdentity ==
    /\ boot.pc = "answered"
    /\ identity' = boot.inst
    /\ boot' = [boot EXCEPT !.pc = "connecting"]
    /\ UNCHANGED <<role, registered, instances, healer, serviceVars>>

PutIdentityFails ==
    /\ "persist" \in NodeFaults
    /\ boot.pc = "answered"
    /\ Retries
    /\ UNCHANGED <<role, identity, registered, instances, healer, serviceVars>>

(* The services start with empty memory.  A backend asks for a snapshot    *)
(* only if this process was told to; an entry always does.                 *)
Connects ==
    /\ boot.pc = "connecting"
    /\ boot' = [boot EXCEPT !.pc = "up"]
    /\ healer' = IF role = "entry" \/ boot.resync THEN "ask" ELSE "off"
    /\ UNCHANGED <<role, identity, registered, instances, serviceVars>>

ProcessEnds ==
    /\ boot' = Down
    /\ healer' = "off"
    /\ completed' = FALSE /\ loaded' = "nobody" /\ backendsKnown' = FALSE
    /\ UNCHANGED <<role, identity, registered, instances, asked, rows>>

ConnectFails == "connect" \in NodeFaults /\ boot.pc = "connecting" /\ ProcessEnds
Crash == "crash" \in NodeFaults /\ boot.pc # "down" /\ InBound /\ ProcessEnds

-----------------------------------------------------------------------------

(* Asking for a snapshot.                                                  *)

UnchangedButHealer ==
    UNCHANGED <<role, identity, registered, instances, boot, completed, rows, loaded,
                backendsKnown>>

Request ==
    \/ asked' = Answers
    \/ "request" \in NodeFaults /\ UNCHANGED asked

(* The first request; an entry has waited for its proxy, for a minute at   *)
(* the most.                                                               *)
FirstRequest ==
    /\ healer = "ask"
    /\ healer' = "await"
    /\ Request
    /\ UnchangedButHealer

(* Every 20 seconds until the consumer has completed a snapshot.           *)
AsksAgain ==
    /\ healer = "await" /\ ~completed
    /\ Request
    /\ UNCHANGED healer
    /\ UnchangedButHealer

AwaitEnds ==
    /\ healer = "await"
    /\ completed \/ "deadline" \in NodeFaults
    /\ healer' = IF role = "entry" THEN "watch" ELSE "off"
    /\ UNCHANGED asked
    /\ UnchangedButHealer

(* Faulty variant: users without a backend are not counted, nor is an      *)
(* empty registry.                                                         *)
NobodyLoaded == loaded = "nobody"

(* entryDegraded                                                           *)
Degraded == loaded # "routed" \/ ~backendsKnown

(* The tick of runEntrySelfHeal, and its refresh every ten minutes.        *)
HealTick == healer = "watch" /\ Degraded /\ Request /\ UNCHANGED healer /\ UnchangedButHealer
SafetyRefresh ==
    healer = "watch" /\ ~Degraded /\ Request /\ UNCHANGED healer /\ UnchangedButHealer

(* RebuildFromStore: users whose backend is not known have no route yet.   *)
Rebuilt == IF backendsKnown THEN "routed" ELSE "pending"

(* The placements are stored and the node rebuilt from them.               *)
SnapshotArrives ==
    /\ boot.pc = "up" /\ "snapshot" \in asked
    /\ asked' = asked \ {"snapshot"}
    /\ rows' = TRUE /\ completed' = TRUE
    /\ loaded' = Rebuilt
    /\ UNCHANGED <<role, identity, registered, instances, boot, healer, backendsKnown>>

(* The listener enters the backends into the registry.                     *)
BackendsAnnounced ==
    /\ boot.pc = "up" /\ "backends" \in asked
    /\ asked' = asked \ {"backends"}
    /\ backendsKnown' = TRUE
    /\ UNCHANGED <<role, identity, registered, instances, boot, healer, completed, rows, loaded>>

(* An answer is lost, or given up after its last delivery.                 *)
AnswerLost ==
    /\ "snapshot" \in NodeFaults
    /\ \E a \in asked : asked' = asked \ {a}
    /\ UNCHANGED <<role, identity, registered, instances, boot, healer, completed, rows,
                   loaded, backendsKnown>>

(* The tick of runEntryProxyResync: the first one of a process rebuilds    *)
(* from what is stored, the later ones only while a route is pending.      *)
Resync ==
    /\ boot.pc = "up" /\ role = "entry"
    /\ rows /\ loaded # "routed"
    /\ loaded' = Rebuilt
    /\ UNCHANGED <<role, identity, registered, instances, boot, healer, completed, asked,
                   rows, backendsKnown>>

-----------------------------------------------------------------------------

BootWorks == ProcessStarts \/ LoadIdentity \/ Initial \/ PutIdentity \/ Connects

Asking == FirstRequest \/ AsksAgain \/ HealTick

LifeNext ==
    \/ BootWorks \/ InitialFails \/ InitialRefused \/ PutIdentityFails
    \/ ConnectFails \/ Crash
    \/ Asking \/ AwaitEnds \/ SafetyRefresh
    \/ SnapshotArrives \/ BackendsAnnounced \/ AnswerLost \/ Resync

LifeSpec == LifeInit /\ [][LifeNext]_lifeVars

(* A step in which nothing fails.                                          *)
LifeWorks ==
    \/ BootWorks \/ AwaitEnds \/ SnapshotArrives \/ BackendsAnnounced \/ Resync
    \/ (Asking \/ SafetyRefresh) /\ asked' = Answers

(* The stored identity is the one the control plane knows: a lost answer,  *)
(* a failed write or a crash makes up a new instance, and never leaves one *)
(* stored that another has replaced (bootstrap.Run, bootstrap.go:41).      *)
StoredIsRegistered == identity # 0 => identity = registered

(* An entry whose requests and answers stop being lost is up with all its  *)
(* users routed for good, though the wait for its first snapshot may have  *)
(* timed out (runEntrySelfHeal, main.go:700).                              *)
EntryHeals ==
    <>[][LifeWorks]_lifeVars =>
        <>[](role = "entry" => boot.pc = "up" /\ loaded = "routed" /\ backendsKnown)
=============================================================================
