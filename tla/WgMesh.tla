------------------------------- MODULE WgMesh -------------------------------
(***************************************************************************)
(* The WireGuard mesh: internal/app/wgmesh over internal/adapters/wg.  The *)
(* node publishes its public key; the control plane puts the node's peers  *)
(* under one key of a KV bucket; a watch applies every revision to the     *)
(* interface.  A second goroutine reapplies the last state that was        *)
(* applied when a peer has gone stale.  Both call Manager.Apply, which     *)
(* takes no lock, so the steps of two applications interleave.  The key    *)
(* file and the interface outlive the process.                             *)
(*                                                                         *)
(* A key stands for the key pair.  A failed publication of it changes      *)
(* nothing and is repeated every five minutes; it has no action.  Nor has  *)
(* a value without peers that decode or an address that parses: it is      *)
(* logged and leaves everything as it was.                                 *)
(***************************************************************************)
EXTENDS Naturals, Sequences

CONSTANTS
    WgPeers,        \* peers
    ValidPeers,     \* those whose key, endpoint and address parse
    Meshes,         \* revision -> what the control plane puts there
    MeshFaults,     \* the failures that may happen
    MaxKeys         \* bound on the generated keys

Revisions == DOMAIN Meshes

ASSUME MeshesAssumption ==
    /\ ValidPeers \subseteq WgPeers
    /\ MeshFaults \subseteq {"key", "apply", "resolve", "watch", "restart"}
    /\ Meshes \in Seq([addr: Nat, port: Nat \ {0}, peers: SUBSET WgPeers])
    /\ MaxKeys \in Nat

VARIABLES
    keyFile,        \* durable: the stored key, 0 if there is none
    keys,           \* how many keys were generated
    wgProcess,      \* [pc, key]: the process and the key in its memory
    published,      \* bucket: the key the other nodes see
    revision,       \* bucket: the revision of the node's peers, 0 at first
    watch,          \* the watch: [on, queue]
    applying,       \* goroutine -> where its Apply is
    lastState,      \* memory: the last revision the watch applied
    device          \* the kernel's interface

meshVars == <<keyFile, keys, wgProcess, published, revision, watch, applying, lastState,
              device>>
keyVars == <<keyFile, keys, wgProcess, published>>

Appliers == {"watch", "heal"}
NotApplying == [pc |-> "idle", rev |-> 0, peers |-> {}]
WatchOff == [on |-> FALSE, queue |-> <<>>]
NoDevice == [link |-> FALSE, addr |-> 0, port |-> 0, peers |-> {}, routes |-> {}]

MeshTypeOK ==
    /\ {keyFile, keys, published} \subseteq 0..MaxKeys
    /\ wgProcess \in [pc: {"down", "write", "up"}, key: 0..MaxKeys]
    /\ {revision, lastState} \subseteq {0} \union Revisions
    /\ watch.on \in BOOLEAN /\ watch.queue \in Seq(Revisions)
    /\ applying \in [Appliers -> [pc: {"idle", "ensure", "configure", "routes"},
                                  rev: {0} \union Revisions, peers: SUBSET WgPeers]]
    /\ device.link \in BOOLEAN /\ device.addr \in Nat /\ device.port \in Nat
    /\ device.peers \subseteq WgPeers /\ device.routes \subseteq WgPeers

MeshInit ==
    /\ keyFile = 0 /\ keys = 0 /\ published = 0
    /\ wgProcess = [pc |-> "down", key |-> 0]
    /\ revision = 0 /\ lastState = 0
    /\ watch = WatchOff
    /\ applying = [a \in Appliers |-> NotApplying]
    /\ device = NoDevice

-----------------------------------------------------------------------------

(* The key.                                                                *)

(* Faulty variant: a generated key is used without being stored.           *)
KeyNotStored ==
    /\ wgProcess.pc = "down"
    /\ \/ keyFile # 0 /\ wgProcess' = [pc |-> "up", key |-> keyFile] /\ UNCHANGED keys
       \/ /\ keyFile = 0 /\ keys < MaxKeys
          /\ keys' = keys + 1
          /\ wgProcess' = [pc |-> "up", key |-> keys']
    /\ UNCHANGED <<keyFile, published, revision, watch, applying, lastState, device>>

(* loadOrGenerateKey up to the temporary file.                             *)
LoadOrGenerateKey ==
    /\ wgProcess.pc = "down"
    /\ \/ keyFile # 0 /\ wgProcess' = [pc |-> "up", key |-> keyFile] /\ UNCHANGED keys
       \/ /\ keyFile = 0 /\ keys < MaxKeys
          /\ keys' = keys + 1
          /\ wgProcess' = [pc |-> "write", key |-> keys']
    /\ UNCHANGED <<keyFile, published, revision, watch, applying, lastState, device>>

(* The rename makes it the node's key.                                     *)
RenameKey ==
    /\ wgProcess.pc = "write"
    /\ keyFile' = wgProcess.key
    /\ wgProcess' = [wgProcess EXCEPT !.pc = "up"]
    /\ UNCHANGED <<keys, published, revision, watch, applying, lastState, device>>

(* The file cannot be written or renamed: the agent exits.                 *)
KeyFails ==
    /\ "key" \in MeshFaults /\ keys < MaxKeys
    /\ wgProcess.pc = "write"
    /\ wgProcess' = [pc |-> "down", key |-> 0]
    /\ UNCHANGED <<keyFile, keys, published, revision, watch, applying, lastState, device>>

(* At the start and every five minutes.                                    *)
PublishPubkey ==
    /\ wgProcess.pc = "up"
    /\ published' = wgProcess.key
    /\ UNCHANGED <<keyFile, keys, wgProcess, revision, watch, applying, lastState, device>>

-----------------------------------------------------------------------------

(* The watch.                                                              *)

(* External: the control plane puts the next revision.                     *)
PutsPeers ==
    /\ revision + 1 \in Revisions
    /\ revision' = revision + 1
    /\ watch' = IF watch.on THEN [watch EXCEPT !.queue = Append(@, revision')] ELSE watch
    /\ UNCHANGED <<keyVars, applying, lastState, device>>


(* A watch begins with the current value of the key.                       *)
WatchStarts ==
    /\ wgProcess.pc = "up" /\ ~watch.on
    /\ watch' = [on |-> TRUE, queue |-> IF revision = 0 THEN <<>> ELSE <<revision>>]
    /\ UNCHANGED <<keyVars, revision, applying, lastState, device>>

(* The update channel is closed between two updates; those left in it are  *)
(* lost.  Run waits two seconds and watches again.                         *)
WatchEnds ==
    /\ "watch" \in MeshFaults
    /\ watch.on /\ applying["watch"].pc = "idle"
    /\ watch' = WatchOff
    /\ UNCHANGED <<keyVars, revision, applying, lastState, device>>

Begins(a, r) == applying' = [applying EXCEPT ![a] = [NotApplying EXCEPT !.pc = "ensure", !.rev = r]]

(* handlePeerUpdate                                                        *)
HandlePeerUpdate ==
    /\ watch.on /\ watch.queue # <<>> /\ applying["watch"].pc = "idle"
    /\ Begins("watch", Head(watch.queue))
    /\ watch' = [watch EXCEPT !.queue = Tail(@)]
    /\ UNCHANGED <<keyVars, revision, lastState, device>>

(* maybeSelfHeal: some peer of the interface has gone stale.  Nothing is   *)
(* done without a state, without peers in it, or without peers on the      *)
(* interface to be stale.                                                  *)
MaybeSelfHeal ==
    /\ wgProcess.pc = "up" /\ applying["heal"].pc = "idle"
    /\ lastState # 0 /\ Meshes[lastState].peers # {}
    /\ device.link /\ device.peers # {}
    /\ Begins("heal", lastState)
    /\ UNCHANGED <<keyVars, revision, watch, lastState, device>>

-----------------------------------------------------------------------------

(* Manager.Apply, by the watch and by the self-healing.                    *)

Ends(a) == applying' = [applying EXCEPT ![a] = NotApplying]

(* The interface, new if the port changes, gets the node's address.        *)
EnsureInterface(a) ==
    LET mesh == Meshes[applying[a].rev]
        keep == device.link /\ device.port \in {0, mesh.port}
    IN
    /\ applying[a].pc = "ensure"
    /\ device' = [(IF keep THEN device ELSE NoDevice) EXCEPT !.link = TRUE, !.addr = mesh.addr]
    /\ applying' = [applying EXCEPT ![a].pc = "configure"]
    /\ UNCHANGED <<keyVars, revision, watch, lastState>>

(* A peer that does not parse is skipped.                                  *)
BuildPeers(r) == Meshes[r].peers \intersect ValidPeers

(* With "resolve" a peer whose name is not resolved this time is skipped   *)
(* too, and Apply succeeds without it.                                     *)
ConfigureDevice(a) ==
    /\ applying[a].pc = "configure" /\ device.link
    /\ LET rev == applying[a].rev
       IN \E built \in SUBSET BuildPeers(rev) :
            /\ built = BuildPeers(rev) \/ "resolve" \in MeshFaults
            /\ device' = [device EXCEPT !.port = Meshes[rev].port, !.peers = built]
            /\ applying' = [applying EXCEPT ![a].pc = "routes", ![a].peers = built]
    /\ UNCHANGED <<keyVars, revision, watch, lastState>>

(* The watch remembers what it applied; the self-healing has nothing to.   *)
SyncRoutes(a) ==
    /\ applying[a].pc = "routes" /\ device.link
    /\ device' = [device EXCEPT !.routes = applying[a].peers]
    /\ lastState' = IF a = "watch" THEN applying[a].rev ELSE lastState
    /\ Ends(a)
    /\ UNCHANGED <<keyVars, revision, watch>>

(* The other application has deleted the interface: an error, logged.      *)
InterfaceGone(a) ==
    /\ applying[a].pc \in {"configure", "routes"} /\ ~device.link
    /\ Ends(a)
    /\ UNCHANGED <<keyVars, revision, watch, lastState, device>>

(* A netlink call fails.  The interface may be deleted and not be made     *)
(* again, and only some of the routes be there.                            *)
ApplyFails(a) ==
    /\ "apply" \in MeshFaults
    /\ \/ applying[a].pc = "ensure" /\ device' \in {device, NoDevice}
       \/ applying[a].pc = "configure" /\ UNCHANGED device
       \/ /\ applying[a].pc = "routes" /\ device.link
          /\ \E some \in SUBSET applying[a].peers :
               device' = [device EXCEPT !.routes = (@ \intersect applying[a].peers) \union some]
    /\ Ends(a)
    /\ UNCHANGED <<keyVars, revision, watch, lastState>>

ApplyStep(a) == EnsureInterface(a) \/ ConfigureDevice(a) \/ SyncRoutes(a) \/ InterfaceGone(a)

(* The agent restarts; the interface and the key file stay.                *)
AgentRestarts ==
    /\ "restart" \in MeshFaults /\ (keyFile # 0 \/ keys < MaxKeys)
    /\ wgProcess.pc # "down"
    /\ wgProcess' = [pc |-> "down", key |-> 0]
    /\ watch' = WatchOff /\ lastState' = 0
    /\ applying' = [a \in Appliers |-> NotApplying]
    /\ UNCHANGED <<keyFile, keys, published, revision, device>>

WatchStep == WatchStarts \/ HandlePeerUpdate

MeshNext ==
    \/ LoadOrGenerateKey \/ RenameKey \/ KeyFails \/ PublishPubkey
    \/ PutsPeers \/ WatchStep \/ WatchEnds \/ MaybeSelfHeal
    \/ \E a \in Appliers : ApplyStep(a) \/ ApplyFails(a)
    \/ AgentRestarts

MeshSpec == MeshInit /\ [][MeshNext]_meshVars

-----------------------------------------------------------------------------

InterfaceHas(r) ==
    device = [link |-> TRUE, addr |-> Meshes[r].addr, port |-> Meshes[r].port,
              peers |-> BuildPeers(r), routes |-> BuildPeers(r)]

(* A step in which nothing fails: every valid peer is built, and the       *)
(* control plane has nothing new.                                          *)
MeshWorks ==
    \/ PublishPubkey \/ WatchStep \/ WatchEnds \/ MaybeSelfHeal
    \/ \E a \in Appliers :
         \/ EnsureInterface(a) \/ SyncRoutes(a) \/ InterfaceGone(a)
         \/ ConfigureDevice(a) /\ applying'[a].peers = BuildPeers(applying[a].rev)

(* The other nodes only ever see a key the node still has after a restart: *)
(* it is renamed into place before the service runs (loadOrGenerateKey,    *)
(* manager.go:149).                                                        *)
PublishedKeyIsDurable == published # 0 => published = keyFile

=============================================================================
