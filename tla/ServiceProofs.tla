--------------------------- MODULE ServiceProofs ----------------------------
(***************************************************************************)
(* Four services of a node that share no state: registration, the          *)
(* WireGuard mesh, the mux session of the entry proxy and the xray client. *)
(*                                                                         *)
(* Registration leaves the node with an identity the control plane knows,  *)
(* for any failures and any number of instances.  The mesh never learns a  *)
(* key that the node would not have after a restart, for any peers,        *)
(* revisions and failures.                                                 *)
(*                                                                         *)
(* In a mux session a frame written in turn is flushed, for any streams.   *)
(* A writer that has drawn a number is in numbers until it has written and *)
(* looked at the counter, and the late ones are the first of them, because *)
(* a write makes everybody before it late.  So as long as a frame written  *)
(* in turn is in the buffer, the last of the numbers is not late, and its  *)
(* writer will flush.                                                      *)
(*                                                                         *)
(* AddUser and RemoveUser of the xray client, for any number of callers,   *)
(* users, transports and inbounds: a user whose calls neither overlapped   *)
(* nor failed is followed through its call.  AloneInv says that nobody     *)
(* else changes its inbounds, LeftInv that the inbounds a removal has      *)
(* passed are clean, and AddInv what AddUser has achieved so far.          *)
(* PairedInv is what AddUser relies on: a user is in its transport's       *)
(* inbound and in the mirror inbound, or in neither.                       *)
(***************************************************************************)
EXTENDS NodeLifecycle, WgMesh, MuxSession, XrayInbounds, SequenceTheorems, TLAPS

-----------------------------------------------------------------------------
(* Registration.                                                           *)

(* Whoever calls has nothing stored, and an answer is about the instance   *)
(* that is about to be stored.                                             *)
LifeInv ==
    /\ boot \in [pc: {"down", "loading", "calling", "answered", "connecting", "up"},
                 inst: Nat, resync: BOOLEAN]
    /\ instances \in Nat /\ identity \in Nat
    /\ boot.pc \in {"calling", "answered"} => identity = 0
    /\ boot.pc = "answered" => registered = boot.inst
    /\ StoredIsRegistered

LEMMA LifeInitInv == LifeInit => LifeInv
BY DEF LifeInit, LifeInv, StoredIsRegistered, Down

(* The steps that neither come up nor go down leave the identity alone.    *)
LEMMA ServiceStepInv ==
    ASSUME LifeInv,
           \/ Asking \/ AwaitEnds \/ SafetyRefresh
           \/ SnapshotArrives \/ BackendsAnnounced \/ AnswerLost \/ Resync
    PROVE  LifeInv'
<1> USE DEF LifeInv, StoredIsRegistered
<1>1. CASE Asking \/ SafetyRefresh
  BY <1>1 DEF Asking, FirstRequest, AsksAgain, HealTick, SafetyRefresh, Request,
              UnchangedButHealer
<1>2. CASE AwaitEnds
  BY <1>2 DEF AwaitEnds, UnchangedButHealer
<1>3. CASE SnapshotArrives \/ Resync
  BY <1>3 DEF SnapshotArrives, Resync, Rebuilt
<1>4. CASE BackendsAnnounced \/ AnswerLost
  BY <1>4 DEF BackendsAnnounced, AnswerLost
<1>5. QED
  BY <1>1, <1>2, <1>3, <1>4

LEMMA LifeStepInv ==
    ASSUME LifeInv, [LifeNext]_lifeVars
    PROVE  LifeInv'
<1> USE DEF LifeInv, StoredIsRegistered
<1>1. CASE UNCHANGED lifeVars
  BY <1>1 DEF lifeVars
<1>2. CASE ProcessStarts
  BY <1>2, Zenon DEF ProcessStarts, Down
<1>3. CASE LoadIdentity
  <2>1. CASE identity # 0
    <3>1. /\ boot' = [pc |-> "connecting", inst |-> identity, resync |-> FALSE]
          /\ UNCHANGED <<identity, registered, instances>>
      BY <1>3, <2>1, Zenon DEF LoadIdentity
    <3>2. QED
      BY <3>1
  <2>2. CASE identity = 0
    <3>1. /\ instances' = instances + 1
          /\ boot' = [boot EXCEPT !.pc = "calling", !.inst = instances']
          /\ UNCHANGED <<identity, registered>>
      BY <1>3, <2>2, Zenon DEF LoadIdentity
    <3>2. instances' \in Nat
      BY <3>1
    <3>3. /\ boot' \in [pc: {"calling"}, inst: Nat, resync: BOOLEAN]
          /\ boot'.pc = "calling"
      BY <3>1, <3>2, Zenon
    <3>4. QED
      BY <2>2, <3>1, <3>2, <3>3
  <2>3. QED
    BY <2>1, <2>2
<1>4. CASE Initial
  BY <1>4, Zenon DEF Initial
<1>5. CASE InitialFails
  BY <1>5, Zenon DEF InitialFails, Retries, Down
<1>6. CASE InitialRefused
  BY <1>6 DEF InitialRefused, Down
<1>7. CASE PutIdentity
  BY <1>7 DEF PutIdentity
<1>8. CASE PutIdentityFails
  BY <1>8, Zenon DEF PutIdentityFails, Retries, Down
<1>9. CASE Connects
  BY <1>9 DEF Connects
<1>10. CASE ConnectFails \/ Crash
  <2>1. boot' = Down /\ UNCHANGED <<identity, registered, instances>>
    BY <1>10, Zenon DEF ConnectFails, Crash, ProcessEnds
  <2>2. QED
    BY <2>1 DEF Down
<1>11. CASE \/ Asking \/ AwaitEnds \/ SafetyRefresh
            \/ SnapshotArrives \/ BackendsAnnounced \/ AnswerLost \/ Resync
  BY <1>11, ServiceStepInv
<1>12. QED
  BY <1>1, <1>2, <1>3, <1>4, <1>5, <1>6, <1>7, <1>8, <1>9, <1>10, <1>11
     DEF LifeNext, BootWorks

(* Whatever is lost, fails or crashes around the registration, the stored  *)
(* identity is the one the control plane registered last (bootstrap.Run).  *)
THEOREM StoredStaysRegistered == LifeSpec => []StoredIsRegistered
<1>1. LifeInv => StoredIsRegistered
  BY DEF LifeInv
<1>2. QED
  BY <1>1, LifeInitInv, LifeStepInv, PTL DEF LifeSpec

(* The fields of a process that comes up, and what the services keep.      *)
BootType ==
    [pc: {"down", "loading", "calling", "answered", "connecting", "up"},
     inst: 0..MaxInstances, resync: BOOLEAN]

ServiceType ==
    /\ role \in {"entry", "backend"}
    /\ healer \in {"off", "ask", "await", "watch"}
    /\ asked \subseteq Answers
    /\ loaded \in {"nobody", "pending", "routed"}

LEMMA ServiceTypeStep ==
    ASSUME ServiceType, [LifeNext]_lifeVars
    PROVE  ServiceType'
<1>. USE DEF ServiceType, serviceVars, UnchangedButHealer, Answers
<1>1. CASE BootWorks \/ InitialFails \/ InitialRefused \/ PutIdentityFails
  <2>1. UNCHANGED <<role, asked, loaded>> /\ healer' \in {healer, "ask", "off"}
    BY <1>1, Zenon DEF BootWorks, ProcessStarts, LoadIdentity, Initial, PutIdentity, Connects,
                InitialFails, InitialRefused, PutIdentityFails
  <2>. QED  BY <2>1
<1>2. CASE ConnectFails \/ Crash
  BY <1>2, Zenon DEF ConnectFails, Crash, ProcessEnds
<1>3. CASE Asking \/ AwaitEnds \/ SafetyRefresh
  BY <1>3, Zenon DEF Asking, FirstRequest, AsksAgain, HealTick, AwaitEnds, SafetyRefresh, Request
<1>4. CASE SnapshotArrives \/ BackendsAnnounced \/ AnswerLost \/ Resync
  BY <1>4, Zenon DEF SnapshotArrives, BackendsAnnounced, AnswerLost, Resync, Rebuilt
<1>5. CASE UNCHANGED lifeVars
  BY <1>5 DEF lifeVars
<1>. QED  BY <1>1, <1>2, <1>3, <1>4, <1>5 DEF LifeNext

FlagType == completed \in BOOLEAN /\ rows \in BOOLEAN /\ backendsKnown \in BOOLEAN

LEMMA FlagTypeStep ==
    ASSUME FlagType, [LifeNext]_lifeVars
    PROVE  FlagType'
<1>1. /\ completed' \in {completed, TRUE, FALSE}
      /\ rows' \in {rows, TRUE}
      /\ backendsKnown' \in {backendsKnown, TRUE, FALSE}
  <2>1. CASE BootWorks \/ InitialFails \/ InitialRefused \/ PutIdentityFails
    BY <2>1, Zenon DEF BootWorks, ProcessStarts, LoadIdentity, Initial, PutIdentity, Connects,
                InitialFails, InitialRefused, PutIdentityFails, serviceVars
  <2>2. CASE ConnectFails \/ Crash
    BY <2>2, Zenon DEF ConnectFails, Crash, ProcessEnds
  <2>3. CASE Asking \/ AwaitEnds \/ SafetyRefresh
    BY <2>3, Zenon DEF Asking, FirstRequest, AsksAgain, HealTick, AwaitEnds, SafetyRefresh,
                       UnchangedButHealer
  <2>4. CASE SnapshotArrives \/ BackendsAnnounced \/ AnswerLost \/ Resync
    BY <2>4, Zenon DEF SnapshotArrives, BackendsAnnounced, AnswerLost, Resync
  <2>5. CASE UNCHANGED lifeVars
    BY <2>5, Zenon DEF lifeVars
  <2>. QED  BY <2>1, <2>2, <2>3, <2>4, <2>5, Zenon DEF LifeNext
<1>. QED  BY <1>1, Zenon DEF FlagType

InstanceType ==
    /\ identity \in 0..MaxInstances /\ registered \in 0..MaxInstances
    /\ instances \in 0..MaxInstances
    /\ boot \in BootType

LEMMA DownIs == Down \in BootType /\ [Down EXCEPT !.pc = "loading"] \in BootType
<1>1. PICK d \in BootType : d = Down
  <2>1. PICK no \in BOOLEAN : no = FALSE
    BY Zenon
  <2>2. [pc |-> "down", inst |-> 0, resync |-> no] \in BootType
    BY MaxInstancesAssumption DEF BootType
  <2>. QED  BY <2>1, <2>2, Zenon DEF Down
<1>2. [d EXCEPT !.pc = "loading"] \in BootType
  BY DEF BootType
<1>. QED  BY <1>1, <1>2, Zenon

LEMMA InstanceTypeStep ==
    ASSUME InstanceType, [LifeNext]_lifeVars
    PROVE  InstanceType'
<1>. USE DEF InstanceType
<1>1. CASE LoadIdentity
  <2>1. UNCHANGED <<identity, registered>>
    BY <1>1 DEF LoadIdentity
  <2>2. CASE identity # 0
    <3>1. PICK no \in BOOLEAN : no = FALSE
      BY Zenon
    <3>2. boot' = [pc |-> "connecting", inst |-> identity, resync |-> no] /\ instances' = instances
      BY <1>1, <2>2, <3>1, Zenon DEF LoadIdentity
    <3>. QED  BY <2>1, <3>2 DEF BootType
  <2>3. CASE identity = 0
    <3>1. /\ instances < MaxInstances /\ instances' = instances + 1
          /\ boot' = [boot EXCEPT !.pc = "calling", !.inst = instances']
      BY <1>1, <2>3, Zenon DEF LoadIdentity
    <3>2. instances' \in 0..MaxInstances
      BY <3>1, MaxInstancesAssumption
    <3>. QED  BY <2>1, <3>1, <3>2, Zenon DEF BootType
  <2>. QED  BY <2>2, <2>3
<1>2. CASE ProcessStarts \/ InitialFails \/ InitialRefused \/ PutIdentityFails
           \/ ConnectFails \/ Crash
  <2>1. boot.inst \in 0..MaxInstances
    BY DEF BootType
  <2>2. boot' \in {Down, [Down EXCEPT !.pc = "loading"]}
    BY <1>2, Zenon DEF ProcessStarts, InitialFails, InitialRefused, PutIdentityFails, Retries,
                ConnectFails, Crash, ProcessEnds
  <2>3. UNCHANGED <<identity, instances>> /\ registered' \in {registered, boot.inst}
    BY <1>2, Zenon DEF ProcessStarts, InitialFails, InitialRefused, PutIdentityFails, ConnectFails,
                Crash, ProcessEnds
  <2>. QED  BY <2>1, <2>2, <2>3, DownIs
<1>3. CASE Initial
  BY <1>3, Zenon DEF Initial, BootType
<1>4. CASE PutIdentity \/ Connects
  BY <1>4 DEF PutIdentity, Connects, BootType
<1>5. CASE \/ Asking \/ AwaitEnds \/ SafetyRefresh
           \/ SnapshotArrives \/ BackendsAnnounced \/ AnswerLost \/ Resync
           \/ UNCHANGED lifeVars
  <2>1. UNCHANGED <<identity, registered, instances, boot>>
    BY <1>5, Zenon DEF Asking, FirstRequest, AsksAgain, HealTick, AwaitEnds, SafetyRefresh,
                UnchangedButHealer, SnapshotArrives, BackendsAnnounced, AnswerLost, Resync, lifeVars
  <2>. QED  BY <2>1
<1>. QED  BY <1>1, <1>2, <1>3, <1>4, <1>5 DEF LifeNext, BootWorks

(* The agent's life cycle keeps its types; instances stay within their     *)
(* bound.                                                                  *)
THEOREM LifeTypes == LifeSpec => []LifeTypeOK
<1>. DEFINE TInv == ServiceType /\ FlagType /\ InstanceType
<1>1. LifeInit => TInv
  <2>1. LifeInit => FlagType
    BY Zenon DEF LifeInit, FlagType
  <2>2. LifeInit => ServiceType
    BY DEF LifeInit, ServiceType
  <2>3. LifeInit => InstanceType
    BY DownIs, MaxInstancesAssumption DEF LifeInit, InstanceType
  <2>. QED  BY <2>1, <2>2, <2>3
<1>2. TInv /\ [LifeNext]_lifeVars => TInv'
  BY ServiceTypeStep, FlagTypeStep, InstanceTypeStep
<1>3. TInv => LifeTypeOK
  <2>1. FlagType => {completed, rows, backendsKnown} \subseteq BOOLEAN
    BY Zenon DEF FlagType
  <2>2. InstanceType => /\ {identity, registered, instances} \subseteq 0..MaxInstances
                        /\ boot \in BootType
    BY DEF InstanceType
  <2>. QED  BY <2>1, <2>2, Zenon DEF ServiceType, BootType, LifeTypeOK
<1>. QED  BY <1>1, <1>2, <1>3, PTL DEF LifeSpec

-----------------------------------------------------------------------------
(* The mesh.                                                               *)

(* A running process has the key of the file; one that is still writing    *)
(* its key found no file.                                                  *)
KeyInv ==
    /\ wgProcess \in [pc: {"down", "write", "up"}, key: Nat]
    /\ keys \in Nat /\ keyFile \in Nat
    /\ wgProcess.pc = "up" => wgProcess.key = keyFile
    /\ wgProcess.pc = "write" => keyFile = 0
    /\ PublishedKeyIsDurable

LEMMA KeyInitInv == MeshInit => KeyInv
BY DEF MeshInit, KeyInv, PublishedKeyIsDurable

LEMMA KeyStepInv ==
    ASSUME KeyInv, [MeshNext]_meshVars
    PROVE  KeyInv'
<1> USE DEF KeyInv, PublishedKeyIsDurable, keyVars
<1>1. CASE UNCHANGED meshVars
  BY <1>1 DEF meshVars
<1>2. CASE LoadOrGenerateKey
  BY <1>2 DEF LoadOrGenerateKey
<1>3. CASE RenameKey
  BY <1>3 DEF RenameKey
<1>4. CASE KeyFails \/ AgentRestarts
  BY <1>4 DEF KeyFails, AgentRestarts
<1>5. CASE PublishPubkey
  BY <1>5 DEF PublishPubkey
<1>6. CASE PutsPeers \/ WatchStep \/ WatchEnds \/ MaybeSelfHeal
  BY <1>6 DEF PutsPeers, WatchStep, WatchStarts, HandlePeerUpdate, WatchEnds, MaybeSelfHeal
<1>7. CASE \E a \in Appliers : ApplyStep(a) \/ ApplyFails(a)
  BY <1>7, Zenon
     DEF ApplyStep, EnsureInterface, ConfigureDevice, SyncRoutes, InterfaceGone, ApplyFails
<1>8. QED
  BY <1>1, <1>2, <1>3, <1>4, <1>5, <1>6, <1>7 DEF MeshNext

(* The key that the other nodes see is the one in the key file, over       *)
(* crashes between its generation and its rename (loadOrGenerateKey).      *)
THEOREM PublishedKeysAreDurable == MeshSpec => []PublishedKeyIsDurable
<1>1. KeyInv => PublishedKeyIsDurable
  BY DEF KeyInv
<1>2. QED
  BY <1>1, KeyInitInv, KeyStepInv, PTL DEF MeshSpec

(* Types.  An application that is under way has a revision to apply.       *)
KeyType ==
    /\ keyFile \in 0..MaxKeys /\ keys \in 0..MaxKeys /\ published \in 0..MaxKeys
    /\ wgProcess \in [pc: {"down", "write", "up"}, key: 0..MaxKeys]

ApplyingType ==
    /\ applying \in [Appliers -> [pc: {"idle", "ensure", "configure", "routes"},
                                  rev: {0} \union Revisions, peers: SUBSET WgPeers]]
    /\ \A a \in Appliers : applying[a].pc # "idle" => applying[a].rev \in Revisions

WatchType ==
    /\ revision \in {0} \union Revisions /\ lastState \in {0} \union Revisions
    /\ watch \in [on: BOOLEAN, queue: Seq(Revisions)]

DeviceRecord == [link: BOOLEAN, addr: Nat, port: Nat, peers: SUBSET WgPeers, routes: SUBSET WgPeers]

LEMMA KeyTypeStep ==
    ASSUME KeyType, [MeshNext]_meshVars
    PROVE  KeyType'
<1>. USE MeshesAssumption DEF KeyType, keyVars
<1>1. CASE UNCHANGED meshVars
  BY <1>1 DEF meshVars
<1>2. CASE LoadOrGenerateKey
  BY <1>2 DEF LoadOrGenerateKey
<1>3. CASE RenameKey
  BY <1>3 DEF RenameKey
<1>4. CASE KeyFails \/ AgentRestarts
  BY <1>4 DEF KeyFails, AgentRestarts
<1>5. CASE PublishPubkey
  BY <1>5 DEF PublishPubkey
<1>6. CASE PutsPeers \/ WatchStep \/ WatchEnds \/ MaybeSelfHeal
  BY <1>6 DEF PutsPeers, WatchStep, WatchStarts, HandlePeerUpdate, WatchEnds, MaybeSelfHeal
<1>7. CASE \E a \in Appliers : ApplyStep(a) \/ ApplyFails(a)
  BY <1>7, Zenon
     DEF ApplyStep, EnsureInterface, ConfigureDevice, SyncRoutes, InterfaceGone, ApplyFails
<1>. QED  BY <1>1, <1>2, <1>3, <1>4, <1>5, <1>6, <1>7 DEF MeshNext

LEMMA HeadOfWatch ==
    ASSUME WatchType, watch.queue # <<>>
    PROVE  Head(watch.queue) \in Revisions /\ Tail(watch.queue) \in Seq(Revisions)
BY HeadTailProperties DEF WatchType

LEMMA ApplyingTypeStep ==
    ASSUME ApplyingType, WatchType, [MeshNext]_meshVars
    PROVE  ApplyingType'
<1>. USE DEF ApplyingType, keyVars
<1>1. CASE UNCHANGED applying
  BY <1>1
<1>2. CASE AgentRestarts
  BY <1>2 DEF AgentRestarts, NotApplying
<1>3. ASSUME NEW a \in Appliers, NEW r \in Revisions, Begins(a, r)
      PROVE  ApplyingType'
  BY <1>3, Zenon DEF Begins, NotApplying
<1>4. CASE HandlePeerUpdate
  <2>1. "watch" \in Appliers /\ Head(watch.queue) \in Revisions
    BY <1>4, HeadOfWatch DEF HandlePeerUpdate, Appliers
  <2>. QED  BY <1>3, <1>4, <2>1 DEF HandlePeerUpdate
<1>5. CASE MaybeSelfHeal
  <2>1. "heal" \in Appliers /\ lastState \in Revisions
    BY <1>5 DEF MaybeSelfHeal, Appliers, WatchType
  <2>. QED  BY <1>3, <1>5, <2>1 DEF MaybeSelfHeal
<1>6. ASSUME NEW a \in Appliers, ApplyStep(a) \/ ApplyFails(a)
      PROVE  ApplyingType'
  <2>1. CASE EnsureInterface(a)
    BY <2>1 DEF EnsureInterface
  <2>2. CASE ConfigureDevice(a)
    <3>1. PICK built \in SUBSET BuildPeers(applying[a].rev) :
            applying' = [applying EXCEPT ![a].pc = "routes", ![a].peers = built]
      BY <2>2, Zenon DEF ConfigureDevice
    <3>2. built \subseteq WgPeers
      BY <3>1, MeshesAssumption DEF BuildPeers
    <3>3. applying[a].rev \in Revisions
      BY <2>2 DEF ConfigureDevice
    <3>. QED  BY <3>1, <3>2, <3>3, Zenon
  <2>3. CASE Ends(a)
    BY <2>3 DEF Ends, NotApplying
  <2>. QED  BY <1>6, <2>1, <2>2, <2>3 DEF ApplyStep, SyncRoutes, InterfaceGone, ApplyFails
<1>7. CASE \/ LoadOrGenerateKey \/ RenameKey \/ KeyFails \/ PublishPubkey
           \/ PutsPeers \/ WatchStarts \/ WatchEnds \/ UNCHANGED meshVars
  BY <1>1, <1>7 DEF LoadOrGenerateKey, RenameKey, KeyFails, PublishPubkey, PutsPeers,
                    WatchStarts, WatchEnds, meshVars
<1>. QED  BY <1>2, <1>4, <1>5, <1>6, <1>7 DEF MeshNext, WatchStep

LEMMA WatchTypeStep ==
    ASSUME ApplyingType, WatchType, [MeshNext]_meshVars
    PROVE  WatchType'
<1>1. CASE UNCHANGED <<revision, watch, lastState>>
  BY <1>1 DEF WatchType
<1>2. CASE PutsPeers
  <2>1. CASE watch.on
    BY <1>2, <2>1 DEF PutsPeers, WatchType
  <2>2. CASE ~watch.on
    BY <1>2, <2>2 DEF PutsPeers, WatchType
  <2>. QED  BY <2>1, <2>2
<1>3. CASE WatchStarts
  <2>1. PICK yes \in BOOLEAN : yes = TRUE
    BY Zenon
  <2>2. watch' = [on |-> yes, queue |-> IF revision = 0 THEN <<>> ELSE <<revision>>]
    BY <1>3, <2>1, Zenon DEF WatchStarts
  <2>3. (IF revision = 0 THEN <<>> ELSE <<revision>>) \in Seq(Revisions)
    BY DEF WatchType
  <2>. QED  BY <1>3, <2>2, <2>3 DEF WatchStarts, WatchType
<1>4. CASE WatchEnds \/ AgentRestarts
  <2>1. PICK no \in BOOLEAN : no = FALSE
    BY Zenon
  <2>2. watch' = [on |-> no, queue |-> <<>>]
    BY <1>4, <2>1, Zenon DEF WatchEnds, AgentRestarts, WatchOff
  <2>3. revision' = revision /\ lastState' \in {0, lastState}
    BY <1>4 DEF WatchEnds, AgentRestarts
  <2>. QED  BY <2>2, <2>3 DEF WatchType
<1>5. CASE HandlePeerUpdate
  BY <1>5, HeadOfWatch DEF HandlePeerUpdate, WatchType
<1>6. ASSUME NEW a \in Appliers, SyncRoutes(a)
      PROVE  WatchType'
  BY <1>6 DEF SyncRoutes, WatchType, ApplyingType
<1>7. ASSUME NEW a \in Appliers,
             EnsureInterface(a) \/ ConfigureDevice(a) \/ InterfaceGone(a) \/ ApplyFails(a)
      PROVE  WatchType'
  BY <1>1, <1>7, Zenon DEF EnsureInterface, ConfigureDevice, InterfaceGone, ApplyFails
<1>8. CASE \/ LoadOrGenerateKey \/ RenameKey \/ KeyFails \/ PublishPubkey \/ MaybeSelfHeal
           \/ UNCHANGED meshVars
  BY <1>1, <1>8 DEF LoadOrGenerateKey, RenameKey, KeyFails, PublishPubkey, MaybeSelfHeal, meshVars
<1>. QED  BY <1>2, <1>3, <1>4, <1>5, <1>6, <1>7, <1>8 DEF MeshNext, WatchStep, ApplyStep

LEMMA DeviceStep ==
    ASSUME ApplyingType, device \in DeviceRecord, [MeshNext]_meshVars
    PROVE  device' \in DeviceRecord
<1>0. NoDevice \in DeviceRecord
  <2>1. PICK no \in BOOLEAN : no = FALSE
    BY Zenon
  <2>2. [link |-> no, addr |-> 0, port |-> 0, peers |-> {}, routes |-> {}] \in DeviceRecord
    BY DEF DeviceRecord
  <2>. QED  BY <2>1, <2>2, Zenon DEF NoDevice
<1>1. ASSUME NEW a \in Appliers, ApplyStep(a) \/ ApplyFails(a)
      PROVE  device' \in DeviceRecord
  <2>1. applying[a].peers \subseteq WgPeers
    BY DEF ApplyingType
  <2>2. ASSUME applying[a].pc # "idle"
        PROVE  Meshes[applying[a].rev] \in [addr: Nat, port: Nat \ {0}, peers: SUBSET WgPeers]
    <3>1. applying[a].rev \in DOMAIN Meshes
      BY <2>2 DEF ApplyingType, Revisions
    <3>2. ASSUME NEW S, Meshes \in Seq(S)
          PROVE  Meshes[applying[a].rev] \in S
      BY <3>1, <3>2, ElementOfSeq
    <3>. QED  BY <3>2, MeshesAssumption, Zenon
  <2>3. CASE EnsureInterface(a)
    <3>1. PICK yes \in BOOLEAN : yes = TRUE
      BY Zenon
    <3>2. PICK d \in DeviceRecord :
            device' = [d EXCEPT !.link = yes, !.addr = Meshes[applying[a].rev].addr]
      <4>1. device' = [(IF device.link /\ device.port \in {0, Meshes[applying[a].rev].port}
                        THEN device ELSE NoDevice)
                       EXCEPT !.link = yes, !.addr = Meshes[applying[a].rev].addr]
        BY <2>3, <3>1, Zenon DEF EnsureInterface
      <4>. DEFINE d == IF device.link /\ device.port \in {0, Meshes[applying[a].rev].port}
                       THEN device ELSE NoDevice
      <4>2. d \in DeviceRecord
        BY <1>0, Zenon
      <4>. HIDE DEF d
      <4>3. device' = [d EXCEPT !.link = yes, !.addr = Meshes[applying[a].rev].addr]
        BY <4>1, Zenon DEF d
      <4>. QED  BY <4>2, <4>3, Zenon
    <3>3. Meshes[applying[a].rev].addr \in Nat
      BY <2>2, <2>3 DEF EnsureInterface
    <3>. QED  BY <3>2, <3>3, Zenon DEF DeviceRecord
  <2>4. CASE ConfigureDevice(a)
    <3>1. PICK built \in SUBSET BuildPeers(applying[a].rev) :
            device' = [device EXCEPT !.port = Meshes[applying[a].rev].port, !.peers = built]
      BY <2>4, Zenon DEF ConfigureDevice
    <3>2. built \subseteq WgPeers
      BY <3>1, MeshesAssumption DEF BuildPeers
    <3>3. Meshes[applying[a].rev].port \in Nat
      BY <2>2, <2>4 DEF ConfigureDevice
    <3>. QED  BY <3>1, <3>2, <3>3, Zenon DEF DeviceRecord
  <2>5. CASE SyncRoutes(a)
    BY <2>1, <2>5 DEF SyncRoutes, DeviceRecord
  <2>6. CASE InterfaceGone(a)
    BY <2>6 DEF InterfaceGone
  <2>7. CASE ApplyFails(a)
    <3>1. CASE device' \in {device, NoDevice}
      BY <1>0, <3>1
    <3>2. ASSUME NEW some \in SUBSET applying[a].peers,
                 device' = [device EXCEPT !.routes = (@ \intersect applying[a].peers) \union some]
          PROVE  device' \in DeviceRecord
      BY <2>1, <3>2 DEF DeviceRecord
    <3>. QED  BY <2>7, <3>1, <3>2 DEF ApplyFails
  <2>. QED  BY <1>1, <2>3, <2>4, <2>5, <2>6, <2>7 DEF ApplyStep
<1>2. CASE \/ LoadOrGenerateKey \/ RenameKey \/ KeyFails \/ PublishPubkey \/ PutsPeers \/ WatchStep
           \/ WatchEnds \/ MaybeSelfHeal \/ AgentRestarts \/ UNCHANGED meshVars
  BY <1>2 DEF LoadOrGenerateKey, RenameKey, KeyFails, PublishPubkey, PutsPeers, WatchStep,
              WatchStarts, HandlePeerUpdate, WatchEnds, MaybeSelfHeal, AgentRestarts, meshVars
<1>. QED  BY <1>1, <1>2 DEF MeshNext

(* The mesh keeps its types: Manager.Apply always has a revision of the    *)
(* bucket to apply, also when it is called to heal.                        *)
THEOREM MeshTypes == MeshSpec => []MeshTypeOK
<1>. DEFINE TInv == KeyType /\ ApplyingType /\ WatchType /\ device \in DeviceRecord
<1>1. MeshInit => TInv
  <2>. SUFFICES ASSUME MeshInit PROVE TInv
    OBVIOUS
  <2>1. PICK no \in BOOLEAN : no = FALSE
    BY Zenon
  <2>2. watch = [on |-> no, queue |-> <<>>]
    BY <2>1, Zenon DEF MeshInit, WatchOff
  <2>3. device = [link |-> no, addr |-> 0, port |-> 0, peers |-> {}, routes |-> {}]
    BY <2>1, Zenon DEF MeshInit, NoDevice
  <2>4. KeyType
    BY MeshesAssumption DEF MeshInit, KeyType
  <2>5. ApplyingType
    BY DEF MeshInit, ApplyingType, NotApplying
  <2>6. WatchType
    BY <2>2 DEF MeshInit, WatchType
  <2>7. device \in DeviceRecord
    BY <2>3 DEF DeviceRecord
  <2>. QED  BY <2>4, <2>5, <2>6, <2>7
<1>2. TInv /\ [MeshNext]_meshVars => TInv'
  BY KeyTypeStep, ApplyingTypeStep, WatchTypeStep, DeviceStep
<1>3. TInv => MeshTypeOK
  <2>1. KeyType => {keyFile, keys, published} \subseteq 0..MaxKeys
    BY DEF KeyType
  <2>2. WatchType => /\ {revision, lastState} \subseteq {0} \union Revisions
                     /\ watch.on \in BOOLEAN /\ watch.queue \in Seq(Revisions)
    BY DEF WatchType
  <2>3. device \in DeviceRecord =>
          /\ device.link \in BOOLEAN /\ device.addr \in Nat /\ device.port \in Nat
          /\ device.peers \subseteq WgPeers /\ device.routes \subseteq WgPeers
    BY DEF DeviceRecord
  <2>. QED  BY <2>1, <2>2, <2>3, Zenon DEF KeyType, ApplyingType, MeshTypeOK
<1>. QED  BY <1>1, <1>2, <1>3, PTL DEF MeshSpec

-----------------------------------------------------------------------------
(* The mux session.                                                        *)

(* Who draws a number is in numbers, once, until it leaves.                *)
NumberInv ==
    /\ \A i, j \in DOMAIN numbers : numbers[i] = numbers[j] => i = j
    /\ \A w \in Writers : writing[w] \in {"queued", "wrote"} <=> w \in Range(numbers)

(* The late writers come first.                                            *)
LateInv ==
    \A i, j \in DOMAIN numbers : i < j /\ numbers[j] \in late => numbers[i] \in late

(* A frame that was written in turn will be flushed.                       *)
FlushInv == "prompt" \in buffered => broken \/ (numbers # <<>> /\ Last(numbers) \notin late)

(* Nobody starts to write before it is done with its last frame.           *)
WriterInv ==
    /\ recv.pc \in {"pipe", "close"} => recv.on \in Streams
    /\ \A i \in Streams :
          /\ peer[i] = "unopened" => handler[i] = "none"
          /\ handler[i] \in {"none", "dialing", "relaying"} => writing[<<i, "close">>] = "idle"
          /\ writing[<<i, "recv">>] # "idle" => recv.pc = "close" /\ recv.on = i

-----------------------------------------------------------------------------
(* Sequences.                                                              *)

LEMMA RemoveAtIs ==
    ASSUME NEW S, NEW s \in Seq(S), NEW k \in 1..Len(s)
    PROVE  /\ RemoveAt(s, k) \in Seq(S)
           /\ Len(RemoveAt(s, k)) = Len(s) - 1
           /\ \A i \in 1..Len(s) - 1 : RemoveAt(s, k)[i] = IF i < k THEN s[i] ELSE s[i + 1]
<1>. DEFINE a == SubSeq(s, 1, k - 1)
            b == SubSeq(s, k + 1, Len(s))
<1>1. /\ a \in Seq(S) /\ Len(a) = k - 1
      /\ \A i \in 1..k - 1 : a[i] = s[i]
  BY SubSeqProperties
<1>2. /\ b \in Seq(S) /\ Len(b) = Len(s) - k
      /\ \A i \in 1..Len(s) - k : b[i] = s[i + k]
  BY SubSeqProperties
<1>. HIDE DEF a, b
<1>3. /\ a \o b \in Seq(S) /\ Len(a \o b) = Len(a) + Len(b)
      /\ \A i \in 1..Len(a) + Len(b) : (a \o b)[i] = IF i <= Len(a) THEN a[i] ELSE b[i - Len(a)]
  BY <1>1, <1>2, ConcatProperties, Zenon
<1>4. RemoveAt(s, k) = a \o b
  BY DEF RemoveAt, a, b
<1>5. ASSUME NEW i \in 1..Len(s) - 1
      PROVE  (a \o b)[i] = IF i < k THEN s[i] ELSE s[i + 1]
  <2>1. CASE i < k
    BY <1>1, <1>2, <1>3, <2>1
  <2>2. CASE ~(i < k)
    <3>1. (a \o b)[i] = b[i - (k - 1)]
      BY <1>1, <1>2, <1>3, <2>2, SMTT(30)
    <3>2. i - (k - 1) \in 1..Len(s) - k /\ i - (k - 1) + k = i + 1
      BY <2>2
    <3>. QED  BY <1>2, <2>2, <3>1, <3>2, Zenon
  <2>. QED  BY <2>1, <2>2, Zenon
<1>6. Len(a \o b) = Len(s) - 1
  BY <1>1, <1>2, <1>3
<1>. QED  BY <1>3, <1>4, <1>5, <1>6

(* The writers without one of them.                                        *)
LEMMA WithoutIs ==
    ASSUME NEW S, NEW s \in Seq(S), NEW k \in 1..Len(s),
           \A i, j \in DOMAIN s : s[i] = s[j] => i = j
    PROVE  Range(RemoveAt(s, k)) = Range(s) \ {s[k]}
<1>. DEFINE r == RemoveAt(s, k)
<1>0. /\ r \in Seq(S) /\ Len(r) = Len(s) - 1
      /\ \A i \in 1..Len(s) - 1 : r[i] = IF i < k THEN s[i] ELSE s[i + 1]
  BY RemoveAtIs, Zenon
<1>. HIDE DEF r
<1>1. /\ r \in Seq(S) /\ Len(r) = Len(s) - 1 /\ DOMAIN r = 1..Len(s) - 1
      /\ \A i \in 1..Len(s) - 1 : r[i] = IF i < k THEN s[i] ELSE s[i + 1]
  BY <1>0
<1>2. ASSUME NEW x \in Range(r)
      PROVE  x \in Range(s) \ {s[k]}
  <2>1. PICK i \in 1..Len(s) - 1 : x = r[i]
    BY <1>1 DEF Range
  <2>2. CASE i < k
    BY <1>1, <2>1, <2>2 DEF Range
  <2>3. CASE ~(i < k)
    <3>1. x = s[i + 1] /\ i + 1 \in DOMAIN s /\ i + 1 # k
      BY <1>1, <2>1, <2>3
    <3>. QED  BY <3>1 DEF Range
  <2>. QED  BY <2>2, <2>3
<1>3. ASSUME NEW x \in Range(s) \ {s[k]}
      PROVE  x \in Range(r)
  <2>1. PICK i \in 1..Len(s) : x = s[i] /\ i # k
    BY DEF Range
  <2>2. CASE i < k
    <3>1. i \in 1..Len(s) - 1 /\ r[i] = x
      BY <1>1, <2>1, <2>2
    <3>. QED  BY <1>1, <3>1 DEF Range
  <2>3. CASE ~(i < k)
    <3>1. i - 1 \in 1..Len(s) - 1 /\ ~(i - 1 < k) /\ i - 1 + 1 = i
      BY <2>1, <2>3
    <3>2. r[i - 1] = x
      BY <1>1, <2>1, <3>1
    <3>. QED  BY <1>1, <3>1, <3>2 DEF Range
  <2>. QED  BY <2>2, <2>3
<1>. QED  BY <1>2, <1>3 DEF r

(* The place of a writer with a number.                                    *)
LEMMA PlaceIs ==
    ASSUME NumberInv, numbers \in Seq(Writers), NEW w \in Writers,
           writing[w] \in {"queued", "wrote"}
    PROVE  Place(w) \in 1..Len(numbers) /\ numbers[Place(w)] = w
<1>1. \E k \in DOMAIN numbers : numbers[k] = w
  BY DEF NumberInv, Range
<1>2. Place(w) \in DOMAIN numbers /\ numbers[Place(w)] = w
  BY <1>1, Zenon DEF Place
<1>. QED  BY <1>2

-----------------------------------------------------------------------------
(* The steps of recv and of the handlers.  They neither take numbers nor   *)
(* give them back.                                                         *)

MuxData ==
    /\ peer \in [Streams -> {"unopened", "open", "ended"}]
    /\ recv \in [pc: {"frame", "pipe", "close", "done"}, on: Streams \cup {NoStream}]
    /\ streams \subseteq Streams
    /\ pipe \in [Streams -> {"none", "open", "closed"}]
    /\ handler \in [Streams -> {"none", "dialing", "relaying", "shut", "done"}]
    /\ writing \in [Writers -> {"idle", "called", "queued", "wrote"}]
    /\ cancelled \in {"no", "yes", "cleaned"}

StreamStep ==
    \/ \E i \in Streams :
           \/ NewFrame(i) \/ KeepFrame(i) \/ StrayFrame(i) \/ EndFrame(i)
           \/ SendsDown(i) \/ FarEnds(i) \/ StreamProceeds(i)
    \/ RecvProceeds \/ RecvEnds \/ Cleanup \/ Breaks

WriterStep == \E w \in Writers : WriterProceeds(w)

(* A writer that was idle may have been called.                            *)
MayCall ==
    \/ writing' = writing
    \/ \E w \in Writers : writing[w] = "idle" /\ writing' = [writing EXCEPT ![w] = "called"]

LEMMA WritersAre ==
    ASSUME NEW i \in Streams
    PROVE  /\ <<i, "down">> \in Writers /\ <<i, "close">> \in Writers
           /\ <<i, "stray">> \in Writers /\ <<i, "recv">> \in Writers
BY DEF Writers

(* A stream is closed by a writer that is idle.                            *)
LEMMA CloseEffect ==
    ASSUME MuxData, NEW i \in Streams, NEW w \in Writers, closeStream(i, w), writing[w] = "idle"
    PROVE  /\ streams' \subseteq Streams /\ pipe' \in [Streams -> {"none", "open", "closed"}]
           /\ writing' \in [Writers -> {"idle", "called", "queued", "wrote"}] /\ MayCall
           /\ \A v \in Writers \ {w} : writing'[v] = writing[v]
<1>1. streams' \subseteq Streams /\ pipe' \in [Streams -> {"none", "open", "closed"}]
  BY DEF closeStream, localClose, MuxData
<1>2. CASE i \in streams
  <2>1. writing' = [writing EXCEPT ![w] = "called"]
    BY <1>2 DEF closeStream, Calls
  <2>. QED  BY <1>1, <2>1, ZenonT(40) DEF MuxData, MayCall
<1>3. CASE i \notin streams
  <2>1. writing' = writing
    BY <1>3 DEF closeStream
  <2>. QED  BY <1>1, <2>1 DEF MuxData, MayCall
<1>. QED  BY <1>2, <1>3

LEMMA FrameStep ==
    ASSUME MuxData, WriterInv, NEW i \in Streams,
           \/ NewFrame(i) \/ KeepFrame(i) \/ StrayFrame(i) \/ EndFrame(i) \/ SendsDown(i)
    PROVE  MuxData' /\ WriterInv' /\ MayCall
<1>. USE WritersAre DEF MuxData, MayCall
<1>1. CASE NewFrame(i)
  <2>1. MuxData' /\ MayCall
    BY <1>1 DEF NewFrame, HandsOver, Reading
  <2>. QED  BY <1>1, <2>1 DEF NewFrame, HandsOver, Reading, WriterInv
<1>2. CASE KeepFrame(i)
  <2>1. MuxData' /\ MayCall
    BY <1>2 DEF KeepFrame, HandsOver, Reading
  <2>. QED  BY <1>2, <2>1 DEF KeepFrame, HandsOver, Reading, WriterInv
<1>3. CASE StrayFrame(i)
  <2>1. MuxData' /\ MayCall
    BY <1>3, Zenon DEF StrayFrame, Calls
  <2>2. \A j \in Streams : /\ writing'[<<j, "close">>] = writing[<<j, "close">>]
                           /\ writing'[<<j, "recv">>] = writing[<<j, "recv">>]
    BY <1>3 DEF StrayFrame, Calls
  <2>. QED  BY <1>3, <2>1, <2>2 DEF StrayFrame, WriterInv
<1>4. CASE EndFrame(i)
  <2>1. MuxData' /\ MayCall
    BY <1>4 DEF EndFrame, localClose
  <2>. QED  BY <1>4, <2>1 DEF EndFrame, WriterInv
<1>5. CASE SendsDown(i)
  <2>1. MuxData' /\ MayCall
    BY <1>5, ZenonT(40) DEF SendsDown, Calls
  <2>2. \A j \in Streams : /\ writing'[<<j, "close">>] = writing[<<j, "close">>]
                           /\ writing'[<<j, "recv">>] = writing[<<j, "recv">>]
    BY <1>5 DEF SendsDown, Calls
  <2>. QED  BY <1>5, <2>1, <2>2 DEF SendsDown, WriterInv
<1>. QED  BY <1>1, <1>2, <1>3, <1>4, <1>5

LEMMA StreamHandlerStep ==
    ASSUME MuxData, WriterInv, NEW i \in Streams, Dials(i) \/ RelayEnds(i) \/ HandlerReturns(i)
    PROVE  MuxData' /\ WriterInv' /\ MayCall
<1>. USE WritersAre
<1>1. ASSUME handler[i] \in {"dialing", "relaying"}, closeStream(i, <<i, "close">>),
             HandlerMoves(i, "shut"), UNCHANGED <<peer, recv, cancelled>>
      PROVE  MuxData' /\ WriterInv' /\ MayCall
  <2>1. writing[<<i, "close">>] = "idle"
    BY <1>1, Zenon DEF WriterInv
  <2>2. /\ streams' \subseteq Streams /\ pipe' \in [Streams -> {"none", "open", "closed"}]
        /\ writing' \in [Writers -> {"idle", "called", "queued", "wrote"}] /\ MayCall
        /\ \A v \in Writers \ {<<i, "close">>} : writing'[v] = writing[v]
    BY <1>1, <2>1, CloseEffect, Zenon
  <2>3. MuxData'
    BY <1>1, <2>2, Zenon DEF MuxData, HandlerMoves
  <2>4. \A j \in Streams : /\ j # i => writing'[<<j, "close">>] = writing[<<j, "close">>]
                           /\ writing'[<<j, "recv">>] = writing[<<j, "recv">>]
    BY <2>2, Zenon
  <2>. QED  BY <1>1, <2>2, <2>3, <2>4, SMTT(30) DEF WriterInv, HandlerMoves, MuxData
<1>2. CASE Dials(i)
  <2>1. CASE /\ HandlerMoves(i, "relaying")
             /\ UNCHANGED <<streams, pipe, writing>>
    BY <1>2, <2>1 DEF Dials, HandlerMoves, MuxData, WriterInv, MayCall
  <2>. QED  BY <1>1, <1>2, <2>1 DEF Dials
<1>3. CASE RelayEnds(i)
  BY <1>1, <1>3 DEF RelayEnds
<1>4. CASE HandlerReturns(i)
  BY <1>4 DEF HandlerReturns, HandlerMoves, MuxData, WriterInv, MayCall
<1>. QED  BY <1>2, <1>3, <1>4

LEMMA RecvStep ==
    ASSUME MuxData, WriterInv, RecvProceeds \/ RecvEnds \/ Cleanup \/ Breaks
    PROVE  MuxData' /\ WriterInv' /\ MayCall
<1>. USE WritersAre
<1>1. CASE PipeRead
  BY <1>1 DEF PipeRead, Reading, MuxData, WriterInv, MayCall
<1>2. CASE PipeClosed
  <2>. DEFINE i == recv.on
  <2>1. /\ recv.pc = "pipe" /\ closeStream(i, <<i, "recv">>) /\ recv' = [recv EXCEPT !.pc = "close"]
        /\ UNCHANGED <<peer, handler, cancelled>> /\ i \in Streams
    BY <1>2 DEF PipeClosed, WriterInv
  <2>2. writing[<<i, "recv">>] = "idle"
    BY <2>1, Zenon DEF WriterInv
  <2>3. /\ streams' \subseteq Streams /\ pipe' \in [Streams -> {"none", "open", "closed"}]
        /\ writing' \in [Writers -> {"idle", "called", "queued", "wrote"}] /\ MayCall
        /\ \A v \in Writers \ {<<i, "recv">>} : writing'[v] = writing[v]
    BY <2>1, <2>2, CloseEffect, Zenon
  <2>4. MuxData' /\ recv'.pc = "close" /\ recv'.on = i
    BY <2>1, <2>3 DEF MuxData
  <2>5. \A j \in Streams : /\ writing'[<<j, "close">>] = writing[<<j, "close">>]
                           /\ j # i => writing'[<<j, "recv">>] = writing[<<j, "recv">>]
    BY <2>3, Zenon
  <2>. QED  BY <2>1, <2>3, <2>4, <2>5 DEF WriterInv
<1>3. CASE RecvClosed
  BY <1>3 DEF RecvClosed, Reading, MuxData, WriterInv, MayCall
<1>4. CASE RecvEnds
  BY <1>4 DEF RecvEnds, Reading, MuxData, WriterInv, MayCall
<1>5. CASE Cleanup
  BY <1>5 DEF Cleanup, MuxData, WriterInv, MayCall
<1>6. CASE Breaks
  BY <1>6 DEF Breaks, MuxData, WriterInv, MayCall
<1>. QED  BY <1>1, <1>2, <1>3, <1>4, <1>5, <1>6 DEF RecvProceeds

(* The buffer and the numbers, as the streams leave them.                  *)
LEMMA BufferKept ==
    ASSUME StreamStep
    PROVE  writeVars' = writeVars /\ (broken => broken') /\ (broken' \in BOOLEAN \/ broken' = broken)
<1>1. ASSUME NEW i \in Streams,
             \/ NewFrame(i) \/ KeepFrame(i) \/ StrayFrame(i) \/ EndFrame(i)
             \/ SendsDown(i) \/ FarEnds(i) \/ StreamProceeds(i)
      PROVE  writeVars' = writeVars /\ broken' = broken
  BY <1>1 DEF NewFrame, KeepFrame, StrayFrame, EndFrame, SendsDown, FarEnds, RelayEnds,
              StreamProceeds, Dials, UploadEnds, HandlerReturns
<1>2. ASSUME RecvProceeds \/ RecvEnds \/ Cleanup
      PROVE  writeVars' = writeVars /\ broken' = broken
  BY <1>2 DEF RecvProceeds, PipeRead, PipeClosed, RecvClosed, RecvEnds, Cleanup
<1>3. ASSUME Breaks
      PROVE  writeVars' = writeVars /\ broken' = TRUE
  BY <1>3 DEF Breaks
<1>4. CASE Breaks
  BY <1>3, <1>4, Zenon
<1>5. CASE writeVars' = writeVars /\ broken' = broken
  BY <1>5, Zenon
<1>. QED  BY <1>1, <1>2, <1>4, <1>5, Zenon DEF StreamStep

NumbersOK ==
    numbers \in Seq(Writers) /\ late \subseteq Range(numbers) /\ buffered \subseteq {"late", "prompt"}

MuxInv == MuxData /\ WriterInv /\ NumbersOK /\ NumberInv /\ LateInv /\ FlushInv

LEMMA StreamStepInv ==
    ASSUME MuxInv, StreamStep
    PROVE  MuxInv'
<1>1. MuxData' /\ WriterInv' /\ MayCall
  BY FrameStep, StreamHandlerStep, RecvStep
     DEF MuxInv, StreamStep, StreamProceeds, FarEnds, UploadEnds
<1>2. /\ numbers' = numbers /\ late' = late /\ buffered' = buffered
  BY BufferKept DEF writeVars
<1>3. NumberInv'
  <2>1. \A w \in Writers : writing'[w] \in {"queued", "wrote"} <=> writing[w] \in {"queued", "wrote"}
    BY <1>1 DEF MayCall, MuxInv, MuxData
  <2>. QED  BY <1>2, <2>1 DEF NumberInv, MuxInv
<1>4. NumbersOK' /\ LateInv'
  BY <1>2 DEF MuxInv, NumbersOK, LateInv
<1>5. FlushInv'
  <2>1. broken => broken'
    BY BufferKept
  <2>2. "prompt" \in buffered => broken \/ (numbers # <<>> /\ Last(numbers) \notin late)
    BY DEF MuxInv, FlushInv
  <2>3. "prompt" \in buffered' => broken' \/ (numbers' # <<>> /\ Last(numbers') \notin late')
    BY <1>2, <2>1, <2>2, Zenon
  <2>. QED  BY <2>3 DEF FlushInv
<1>. QED  BY <1>1, <1>3, <1>4, <1>5 DEF MuxInv

-----------------------------------------------------------------------------
(* The steps of the writers.                                               *)

(* All of them leave the streams alone, and their own progress is never    *)
(* what keeps another writer from starting.                                *)
LEMMA WriterKeeps ==
    ASSUME MuxData, WriterInv, NEW w \in Writers, NEW to \in {"idle", "queued", "wrote"},
           writing[w] # "idle", writing' = [writing EXCEPT ![w] = to],
           UNCHANGED <<peer, recv, streams, pipe, handler, cancelled>>
    PROVE  MuxData' /\ WriterInv'
<1>1. MuxData'
  BY DEF MuxData
<1>2. \A v \in Writers : writing[v] = "idle" => writing'[v] = "idle"
  BY DEF MuxData
<1>. QED  BY <1>1, <1>2, WritersAre DEF WriterInv

LEMMA DrawsInv ==
    ASSUME MuxData, WriterInv, NumbersOK, NumberInv, LateInv, FlushInv,
           NEW w \in Writers, Draws(w)
    PROVE  MuxInv'
<1>0. /\ numbers \in Seq(Writers) /\ Len(numbers) \in Nat /\ DOMAIN numbers = 1..Len(numbers)
      /\ late \subseteq Range(numbers) /\ buffered \subseteq {"late", "prompt"}
  BY DEF NumbersOK
<1>1. /\ writing[w] = "called" /\ writing' = [writing EXCEPT ![w] = "queued"]
      /\ numbers' = Append(numbers, w) /\ late' = late /\ buffered' = buffered /\ broken' = broken
      /\ UNCHANGED <<peer, recv, streams, pipe, handler, cancelled>>
  BY DEF Draws
<1>2. MuxData' /\ WriterInv'
  BY <1>1, WriterKeeps, Zenon
<1>3. w \notin Range(numbers)
  BY <1>1 DEF NumberInv
<1>4. /\ numbers' \in Seq(Writers) /\ Len(numbers') = Len(numbers) + 1
      /\ numbers'[Len(numbers) + 1] = w /\ \A i \in 1..Len(numbers) : numbers'[i] = numbers[i]
  BY <1>0, <1>1, AppendProperties
<1>5. Range(numbers') = Range(numbers) \cup {w}
  BY <1>0, <1>4 DEF Range
<1>6. NumbersOK'
  BY <1>0, <1>1, <1>4, <1>5 DEF NumbersOK
<1>7. NumberInv'
  <2>1. ASSUME NEW i \in DOMAIN numbers', NEW j \in DOMAIN numbers', numbers'[i] = numbers'[j]
        PROVE  i = j
    BY <1>0, <1>3, <1>4, <2>1 DEF NumberInv, Range
  <2>2. \A v \in Writers : writing'[v] \in {"queued", "wrote"} <=> v \in Range(numbers')
    BY <1>1, <1>5 DEF NumberInv, MuxData
  <2>. QED  BY <2>1, <2>2, Zenon DEF NumberInv
<1>8. LateInv'
  BY <1>0, <1>1, <1>3, <1>4 DEF LateInv, Range
<1>9. Last(numbers') = w /\ numbers' # <<>> /\ w \notin late'
  BY <1>0, <1>1, <1>3, <1>4 DEF Last
<1>10. FlushInv'
  BY <1>9, Zenon DEF FlushInv
<1>. QED  BY <1>2, <1>6, <1>7, <1>8, <1>10 DEF MuxInv

LEMMA WritesInv ==
    ASSUME MuxData, WriterInv, NumbersOK, NumberInv, LateInv, FlushInv,
           NEW w \in Writers, Writes(w)
    PROVE  MuxInv'
<1>0. /\ numbers \in Seq(Writers) /\ Len(numbers) \in Nat /\ DOMAIN numbers = 1..Len(numbers)
      /\ late \subseteq Range(numbers) /\ buffered \subseteq {"late", "prompt"}
  BY DEF NumbersOK
<1>1. /\ writing[w] = "queued" /\ writing' = [writing EXCEPT ![w] = "wrote"]
      /\ numbers' = numbers /\ late' = late \cup Before(w)
      /\ buffered' = buffered \cup {IF w \in late THEN "late" ELSE "prompt"}
      /\ UNCHANGED <<peer, recv, streams, pipe, handler, cancelled>>
  BY DEF Writes
<1>2. MuxData' /\ WriterInv'
  BY <1>1, WriterKeeps, ZenonT(40)
<1>3. Place(w) \in 1..Len(numbers) /\ numbers[Place(w)] = w
  BY <1>0, <1>1, PlaceIs
<1>4. \A i \in 1..Len(numbers) : numbers[i] \in Before(w) <=> i < Place(w)
  BY <1>0, <1>3 DEF Before, NumberInv
<1>5. NumbersOK'
  <2>1. Before(w) \subseteq Range(numbers)
    BY <1>0, <1>3 DEF Before, Range
  <2>. QED  BY <1>0, <1>1, <2>1 DEF NumbersOK
<1>6. NumberInv'
  BY <1>1 DEF NumberInv, MuxData
<1>7. LateInv'
  <2>. SUFFICES ASSUME NEW i \in 1..Len(numbers), NEW j \in 1..Len(numbers), i < j,
                       numbers[j] \in late'
                PROVE  numbers[i] \in late'
    BY <1>0, <1>1 DEF LateInv
  <2>1. CASE numbers[j] \in late
    BY <1>0, <1>1, <2>1 DEF LateInv
  <2>2. CASE numbers[j] \in Before(w)
    BY <1>1, <1>3, <1>4, <2>2
  <2>. QED  BY <1>1, <2>1, <2>2
<1>8. ASSUME "prompt" \in buffered', ~broken
      PROVE  numbers' # <<>> /\ Last(numbers') \notin late'
  <2>1. Len(numbers) \in 1..Len(numbers) /\ numbers # <<>>
    BY <1>0, <1>3
  <2>2. Last(numbers) \notin Before(w)
    BY <1>3, <1>4, <2>1 DEF Last
  <2>3. Last(numbers) \notin late
    <3>1. CASE "prompt" \in buffered
      BY <1>8, <3>1, Zenon DEF FlushInv
    <3>2. CASE w \notin late
      BY <1>0, <1>3, <2>1, <3>2 DEF Last, LateInv
    <3>. QED  BY <1>1, <1>8, <3>1, <3>2
  <2>. QED  BY <1>1, <2>1, <2>2, <2>3
<1>9. FlushInv'
  <2>1. broken' = broken
    BY Zenon DEF Writes
  <2>. QED  BY <1>8, <2>1, Zenon DEF FlushInv
<1>. QED  BY <1>2, <1>5, <1>6, <1>7, <1>9 DEF MuxInv

LEMMA LeavesInv ==
    ASSUME MuxData, WriterInv, NumbersOK, NumberInv, LateInv, FlushInv,
           NEW w \in Writers, writing[w] \in {"queued", "wrote"}, Leaves(w)
    PROVE  /\ MuxData' /\ WriterInv' /\ NumberInv' /\ LateInv'
           /\ numbers' \in Seq(Writers) /\ late' \subseteq Range(numbers') /\ late' = late \ {w}
           /\ w # Last(numbers) => numbers' # <<>> /\ Last(numbers') = Last(numbers)
<1>0. /\ numbers \in Seq(Writers) /\ Len(numbers) \in Nat /\ DOMAIN numbers = 1..Len(numbers)
      /\ late \subseteq Range(numbers) /\ buffered \subseteq {"late", "prompt"}
  BY DEF NumbersOK
<1>1. /\ writing' = [writing EXCEPT ![w] = "idle"]
      /\ numbers' = RemoveAt(numbers, Place(w)) /\ late' = late \ {w}
      /\ UNCHANGED <<peer, recv, streams, pipe, handler, cancelled>>
  BY DEF Leaves
<1>2. MuxData' /\ WriterInv'
  BY <1>1, WriterKeeps, Zenon
<1>3. Place(w) \in 1..Len(numbers) /\ numbers[Place(w)] = w
  BY <1>0, <1>1, PlaceIs, Zenon
<1>4. /\ numbers' \in Seq(Writers) /\ Len(numbers') = Len(numbers) - 1
      /\ \A i \in 1..Len(numbers) - 1 :
             numbers'[i] = IF i < Place(w) THEN numbers[i] ELSE numbers[i + 1]
  BY <1>0, <1>1, <1>3, RemoveAtIs, ZenonT(40)
<1>5. Range(numbers') = Range(numbers) \ {w}
  BY <1>0, <1>1, <1>3, WithoutIs, SMTT(30) DEF NumberInv
<1>6. NumberInv'
  <2>1. ASSUME NEW i \in DOMAIN numbers', NEW j \in DOMAIN numbers', numbers'[i] = numbers'[j]
        PROVE  i = j
    <3>1. i \in 1..Len(numbers) - 1 /\ j \in 1..Len(numbers) - 1
      BY <1>4
    <3>2. PICK k \in 1..Len(numbers) : /\ numbers'[i] = numbers[k]
                                       /\ k = IF i < Place(w) THEN i ELSE i + 1
      BY <1>0, <1>3, <1>4, <3>1
    <3>3. PICK l \in 1..Len(numbers) : /\ numbers'[j] = numbers[l]
                                       /\ l = IF j < Place(w) THEN j ELSE j + 1
      BY <1>0, <1>3, <1>4, <3>1
    <3>4. k = l
      BY <1>0, <2>1, <3>2, <3>3, Zenon DEF NumberInv
    <3>. QED  BY <1>3, <3>1, <3>2, <3>3, <3>4
  <2>2. \A v \in Writers : writing'[v] \in {"queued", "wrote"} <=> v \in Range(numbers')
    BY <1>1, <1>5 DEF NumberInv, MuxData
  <2>. QED  BY <2>1, <2>2 DEF NumberInv
<1>7. LateInv'
  <2>. SUFFICES ASSUME NEW i \in DOMAIN numbers', NEW j \in DOMAIN numbers', i < j,
                       numbers'[j] \in late'
                PROVE  numbers'[i] \in late'
    BY DEF LateInv
  <2>1. PICK k \in 1..Len(numbers), l \in 1..Len(numbers) :
          k < l /\ numbers'[i] = numbers[k] /\ numbers'[j] = numbers[l] /\ k # Place(w)
    <3>1. CASE j < Place(w)
      BY <1>0, <1>3, <1>4, <3>1
    <3>2. CASE ~(j < Place(w)) /\ i < Place(w)
      <4>1. /\ numbers'[i] = numbers[i] /\ numbers'[j] = numbers[j + 1] /\ i < j + 1
            /\ i \in 1..Len(numbers) /\ j + 1 \in 1..Len(numbers) /\ i # Place(w)
        BY <1>0, <1>3, <1>4, <3>2, SMTT(30)
      <4>. QED  BY <4>1, Zenon
    <3>3. CASE ~(i < Place(w))
      <4>1. /\ numbers'[i] = numbers[i + 1] /\ numbers'[j] = numbers[j + 1] /\ i + 1 < j + 1
            /\ i + 1 \in 1..Len(numbers) /\ j + 1 \in 1..Len(numbers) /\ i + 1 # Place(w)
        BY <1>0, <1>3, <1>4, <3>3, SMTT(30)
      <4>. QED  BY <4>1
    <3>. QED  BY <3>1, <3>2, <3>3
  <2>2. numbers[k] \in late
    BY <1>0, <1>1, <2>1, Zenon DEF LateInv
  <2>3. numbers[k] # w
    BY <1>0, <1>3, <2>1 DEF NumberInv
  <2>. QED  BY <1>1, <2>1, <2>2, <2>3
<1>8. ASSUME w # Last(numbers)
      PROVE  numbers' # <<>> /\ Last(numbers') = Last(numbers)
  <2>1. Place(w) # Len(numbers) /\ Len(numbers) - 1 \in 1..Len(numbers) - 1
    BY <1>0, <1>3, <1>8 DEF Last
  <2>2. numbers'[Len(numbers) - 1] = numbers[Len(numbers) - 1 + 1]
    BY <1>3, <1>4, <2>1
  <2>3. Len(numbers) - 1 + 1 = Len(numbers)
    BY DEF NumbersOK
  <2>. QED  BY <1>4, <2>1, <2>2, <2>3 DEF Last
<1>9. late' \subseteq Range(numbers')
  BY <1>0, <1>1, <1>5
<1>. QED  BY <1>1, <1>2, <1>4, <1>6, <1>7, <1>8, <1>9

LEMMA FlushesInv ==
    ASSUME MuxData, WriterInv, NumbersOK, NumberInv, LateInv, FlushInv,
           NEW w \in Writers, WriteFails(w) \/ Flushes(w)
    PROVE  MuxInv'
<1>0. /\ numbers \in Seq(Writers) /\ Len(numbers) \in Nat /\ DOMAIN numbers = 1..Len(numbers)
      /\ late \subseteq Range(numbers) /\ buffered \subseteq {"late", "prompt"}
  BY DEF NumbersOK
<1>1. writing[w] \in {"queued", "wrote"} /\ Leaves(w)
  BY DEF WriteFails, Flushes
<1>2. /\ MuxData' /\ WriterInv' /\ NumberInv' /\ LateInv'
      /\ numbers' \in Seq(Writers) /\ late' \subseteq Range(numbers') /\ late' = late \ {w}
      /\ w # Last(numbers) => numbers' # <<>> /\ Last(numbers') = Last(numbers)
  BY <1>1, LeavesInv
<1>3. broken' = broken
  BY <1>1, Zenon DEF Leaves
<1>4. CASE WriteFails(w)
  <2>1. broken /\ buffered' = buffered
    BY <1>4, Zenon DEF WriteFails
  <2>2. FlushInv'
    BY <1>3, <2>1, Zenon DEF FlushInv
  <2>3. NumbersOK'
    BY <1>0, <1>2, <2>1 DEF NumbersOK
  <2>. QED  BY <1>2, <2>2, <2>3 DEF MuxInv
<1>5. CASE Flushes(w)
  <2>1. buffered' = IF w = Last(numbers) /\ w \notin late THEN {} ELSE buffered
    BY <1>5 DEF Flushes, IsLatest
  <2>2. ASSUME "prompt" \in buffered', ~broken
        PROVE  numbers' # <<>> /\ Last(numbers') \notin late'
    <3>1. "prompt" \in buffered /\ ~(w = Last(numbers) /\ w \notin late)
      BY <2>1, <2>2
    <3>2. Last(numbers) \notin late
      BY <2>2, <3>1, Zenon DEF FlushInv
    <3>. QED  BY <1>2, <3>1, <3>2
  <2>3. FlushInv'
    BY <1>3, <2>2, Zenon DEF FlushInv
  <2>4. NumbersOK'
    BY <1>0, <1>2, <2>1, Zenon DEF NumbersOK
  <2>. QED  BY <1>2, <2>3, <2>4 DEF MuxInv
<1>. QED  BY <1>4, <1>5

LEMMA MuxStepInv ==
    ASSUME MuxInv, [MuxNext]_muxVars
    PROVE  MuxInv'
<1>1. CASE UNCHANGED muxVars
  BY <1>1, Zenon
     DEF muxVars, writeVars, MuxInv, MuxData, WriterInv, NumbersOK, NumberInv, LateInv, FlushInv
<1>2. CASE StreamStep
  BY <1>2, StreamStepInv
<1>3. ASSUME NEW w \in Writers, WriterProceeds(w)
      PROVE  MuxInv'
  BY <1>3, DrawsInv, WritesInv, FlushesInv DEF WriterProceeds, MuxInv
<1>. QED  BY <1>1, <1>2, <1>3 DEF MuxNext, StreamStep

LEMMA MuxInitInv ==
    ASSUME MuxInit
    PROVE  MuxInv
<1>1. MuxData /\ WriterInv
  BY WritersAre, Zenon DEF MuxInit, MuxData, WriterInv, Reading
<1>2. NumbersOK /\ NumberInv /\ LateInv
  BY DEF MuxInit, NumbersOK, NumberInv, LateInv, Range
<1>3. FlushInv
  BY DEF MuxInit, FlushInv
<1>. QED  BY <1>1, <1>2, <1>3 DEF MuxInv

LEMMA BrokenStep ==
    ASSUME broken \in BOOLEAN, [MuxNext]_muxVars
    PROVE  broken' \in BOOLEAN
<1>1. CASE StreamStep
  BY <1>1, BufferKept, Zenon
<1>2. ASSUME NEW w \in Writers, WriterProceeds(w)
      PROVE  broken' = broken
  BY <1>2 DEF WriterProceeds, Draws, Writes, WriteFails, Flushes, Leaves
<1>3. CASE UNCHANGED muxVars
  BY <1>3, Zenon DEF muxVars
<1>. QED  BY <1>1, <1>2, <1>3, Zenon DEF MuxNext, StreamStep

(* The mux session keeps its types, and only writers with a number are     *)
(* ever late.                                                              *)
THEOREM MuxTypes == MuxSpec => []MuxTypeOK
<1>. DEFINE TInv == MuxInv /\ broken \in BOOLEAN
<1>1. MuxInit => TInv
  <2>1. MuxInit => broken \in BOOLEAN
    BY Zenon DEF MuxInit
  <2>. QED  BY <2>1, MuxInitInv, Zenon
<1>2. TInv /\ [MuxNext]_muxVars => TInv'
  BY MuxStepInv, BrokenStep, Zenon
<1>3. TInv => MuxTypeOK
  BY Zenon DEF MuxInv, MuxData, NumbersOK, MuxTypeOK
<1>. QED  BY <1>1, <1>2, <1>3, PTL DEF MuxSpec

(* When no number is out, every frame that was written in its turn has     *)
(* been flushed, whatever the streams do and in whatever order the writers *)
(* get the mutex (syncWrite, syncClose).                                   *)
THEOREM FramesInTurnAreFlushed == MuxSpec => []OnlyLateFramesLeft
<1>1. MuxInv => OnlyLateFramesLeft
  <2>. SUFFICES ASSUME MuxInv, numbers = <<>>, ~broken
                PROVE  buffered \subseteq {"late"}
    BY DEF OnlyLateFramesLeft
  <2>1. "prompt" \notin buffered
    BY Zenon DEF MuxInv, FlushInv
  <2>. QED  BY <2>1 DEF MuxInv, NumbersOK
<1>2. MuxInit => MuxInv
  BY MuxInitInv
<1>3. MuxInv /\ [MuxNext]_muxVars => MuxInv'
  BY MuxStepInv
<1>. QED  BY <1>1, <1>2, <1>3, PTL DEF MuxSpec

-----------------------------------------------------------------------------
(* The xray client: AddUser and RemoveUser.                                *)

(* AddUser cannot meet the user in the mirror inbound for another          *)
(* transport: there is one inbound for all transports, or no mirror.       *)
OneInbound ==
    \/ \A x, y \in Transports : TagFor[x] = TagFor[y]
    \/ MirrorTag = NoTag

(* AddUser has reached none of its inbounds, or has only the mirror left.  *)
Fresh(c) == \E x \in Transports : c.todo = AddTags(x) /\ c.want = TagSet(AddTags(x))

Second(c) ==
    /\ MirrorTag \in Tags /\ c.todo = <<MirrorTag>>
    /\ \E x \in Transports : TagFor[x] # MirrorTag /\ c.want = {TagFor[x], MirrorTag}

TodoInv ==
    \A k \in Callers :
        call[k].pc \in {"add", "clean", "readd"} => Fresh(call[k]) \/ Second(call[k])

(* The calls of a user that is not in trouble do not overlap.              *)
AloneInv ==
    \A j, k \in Callers :
        /\ call[j].pc # "idle" /\ call[k].pc # "idle"
        /\ call[j].user = call[k].user /\ call[k].user \notin trouble
        => j = k

(* The inbounds that a removal has passed do not have the user.            *)
LeftAt(c, ib) ==
    c.pc \in {"clean", "remove"} => \A t \in Tags : c.user \in ib[t] => t \in c.left

LeftInv == \A k \in Callers : call[k].user \notin trouble => LeftAt(call[k], inbound)

(* User u is in its transport's inbound and in the mirror, or in neither.  *)
Paired(u, ib) ==
    MirrorTag = NoTag \/ \A x \in Transports : u \in ib[TagFor[x]] <=> u \in ib[MirrorTag]

PairedInv == \A u \in Users \ trouble : Busy(u) \/ Paired(u, inbound)

(* What a call c of AddUser has achieved for its user.                     *)
AddAt(c, ib) ==
    /\ c.pc = "add" =>
          \/ Fresh(c) /\ Paired(c.user, ib)
          \/ /\ Second(c) /\ c.user \notin ib[MirrorTag]
             /\ \A t \in c.want \ {MirrorTag} : c.user \in ib[t]
    /\ c.pc = "clean" => Fresh(c) /\ (c.removed \/ c.user \in ib[Head(c.todo)])
    /\ c.pc = "readd" => Fresh(c) /\ \A t \in Tags : c.user \notin ib[t]

AddInv == \A k \in Callers : call[k].user \notin trouble => AddAt(call[k], inbound)

ClaimInv ==
    \A u \in Users : claimed[u] # {} =>
        /\ u \notin trouble
        /\ ~Busy(u)
        /\ \A t \in claimed[u] : u \in inbound[t]

-----------------------------------------------------------------------------
(* Calls and their inbounds.                                               *)

(* What AddUser goes through: its transport's inbound, then the mirror.    *)
LEMMA AddTagsIs ==
    ASSUME NEW x \in Transports
    PROVE  \/ /\ AddTags(x) = <<TagFor[x]>> /\ TagSet(AddTags(x)) = {TagFor[x]}
              /\ MirrorTag = NoTag \/ MirrorTag = TagFor[x]
           \/ /\ AddTags(x) = <<TagFor[x], MirrorTag>>
              /\ TagSet(AddTags(x)) = {TagFor[x], MirrorTag}
              /\ MirrorTag \in Tags /\ MirrorTag # TagFor[x]
<1>1. CASE MirrorTag = NoTag \/ MirrorTag = TagFor[x]
  <2>1. AddTags(x) = <<TagFor[x]>>
    BY <1>1 DEF AddTags
  <2>2. DOMAIN <<TagFor[x]>> = {1}
    OBVIOUS
  <2>. QED  BY <1>1, <2>1, <2>2 DEF TagSet
<1>2. CASE ~(MirrorTag = NoTag \/ MirrorTag = TagFor[x])
  <2>1. AddTags(x) = <<TagFor[x], MirrorTag>>
    BY <1>2 DEF AddTags
  <2>2. DOMAIN <<TagFor[x], MirrorTag>> = {1, 2}
    OBVIOUS
  <2>. QED  BY <1>2, <2>1, <2>2, MirrorAssumption DEF TagSet
<1>. QED  BY <1>1, <1>2

(* The inbound a call of AddUser is at, and the ones after it.             *)
LEMMA FreshIs ==
    ASSUME NEW c, Fresh(c)
    PROVE  /\ c.todo \in Seq(Tags) /\ c.todo # <<>> /\ c.want \subseteq Tags
           /\ \E x \in Transports :
                /\ Head(c.todo) = TagFor[x] /\ TagFor[x] \in Tags
                /\ \/ /\ Len(c.todo) = 1 /\ c.want = {TagFor[x]}
                      /\ MirrorTag = NoTag \/ MirrorTag = TagFor[x]
                   \/ /\ Len(c.todo) # 1 /\ Tail(c.todo) = <<MirrorTag>>
                      /\ c.want = {TagFor[x], MirrorTag}
                      /\ MirrorTag \in Tags /\ MirrorTag # TagFor[x]
<1>1. PICK x \in Transports : c.todo = AddTags(x) /\ c.want = TagSet(AddTags(x))
  BY DEF Fresh
<1>2. TagFor[x] \in Tags
  BY TagForAssumption
<1>3. CASE c.todo = <<TagFor[x]>>
  <2>1. Head(c.todo) = TagFor[x] /\ Len(c.todo) = 1 /\ c.todo \in Seq(Tags) /\ c.todo # <<>>
    BY <1>2, <1>3
  <2>2. c.todo # <<TagFor[x], MirrorTag>>
    BY <1>3
  <2>3. c.want = {TagFor[x]} /\ (MirrorTag = NoTag \/ MirrorTag = TagFor[x])
    BY <1>1, <2>2, AddTagsIs
  <2>. QED  BY <1>2, <2>1, <2>3
<1>4. CASE c.todo = <<TagFor[x], MirrorTag>> /\ MirrorTag \in Tags
  <2>1. Head(c.todo) = TagFor[x] /\ Tail(c.todo) = <<MirrorTag>> /\ Len(c.todo) = 2
    BY <1>4
  <2>2. c.todo \in Seq(Tags) /\ c.todo # <<>>
    BY <1>2, <1>4
  <2>3. c.want = {TagFor[x], MirrorTag} /\ MirrorTag # TagFor[x]
    BY <1>1, <2>1, AddTagsIs
  <2>. QED  BY <1>2, <1>4, <2>1, <2>2, <2>3
<1>. QED  BY <1>1, <1>3, <1>4, AddTagsIs

LEMMA SecondIs ==
    ASSUME NEW c, Second(c)
    PROVE  /\ c.todo \in Seq(Tags) /\ c.todo # <<>> /\ c.want \subseteq Tags
           /\ Head(c.todo) = MirrorTag /\ Len(c.todo) = 1
BY TagForAssumption DEF Second

(* The next inbound of a call of AddUser.                                  *)
LEMMA TodoIs ==
    ASSUME TodoInv, NEW k \in Callers, call[k].pc \in {"add", "clean", "readd"}
    PROVE  /\ call[k].todo \in Seq(Tags) /\ call[k].todo # <<>> /\ call[k].want \subseteq Tags
           /\ Head(call[k].todo) \in Tags /\ Tail(call[k].todo) \in Seq(Tags)
BY FreshIs, SecondIs DEF TodoInv

-----------------------------------------------------------------------------
(* Types.                                                                  *)

CallType ==
    [pc: {"idle", "add", "clean", "readd", "remove"}, user: Users, todo: Seq(Tags),
     left: SUBSET Tags, removed: BOOLEAN, want: SUBSET Tags]

LEMMA NoCallTyping == \A u \in Users : NoCall(u) \in CallType
BY DEF NoCall, CallType

LEMMA AddTagsTyping ==
    ASSUME NEW x \in Transports
    PROVE  AddTags(x) \in Seq(Tags) /\ TagSet(AddTags(x)) \subseteq Tags
<1>1. TagFor[x] \in Tags
  BY TagForAssumption
<1>2. <<TagFor[x]>> \in Seq(Tags)
  BY <1>1
<1>3. MirrorTag \in Tags => <<TagFor[x], MirrorTag>> \in Seq(Tags)
  BY <1>1
<1>. QED  BY <1>1, <1>2, <1>3, AddTagsIs, Zenon

(* The calls that BeginRemove and BeginAdd put in place.                   *)
LEMMA BegunTyping ==
    ASSUME NEW u \in Users
    PROVE  /\ [NoCall(u) EXCEPT !.pc = "remove", !.left = Tags] \in CallType
           /\ \A s \in Seq(Tags), w \in SUBSET Tags :
                [NoCall(u) EXCEPT !.pc = "add", !.todo = s, !.want = w] \in CallType
<1>1. PICK c \in CallType : c = NoCall(u)
  BY NoCallTyping
<1>2. [c EXCEPT !.pc = "remove", !.left = Tags] \in CallType
  BY Zenon DEF CallType
<1>3. \A s \in Seq(Tags), w \in SUBSET Tags :
        [c EXCEPT !.pc = "add", !.todo = s, !.want = w] \in CallType
  BY Zenon DEF CallType
<1>. QED  BY <1>1, <1>2, <1>3, Zenon

(* The end of a call of AddUser.                                           *)
LEMMA ReturnTyping ==
    ASSUME XrayTypeOK, NEW k \in Callers, NEW ok, AddReturns(k, ok)
    PROVE  call' \in [Callers -> CallType] /\ claimed' \in [Users -> SUBSET Tags]
<1>1. call[k].user \in Users /\ call[k].want \in SUBSET Tags
  BY DEF XrayTypeOK
<1>2. NoCall(call[k].user) \in CallType
  BY <1>1, NoCallTyping
<1>. QED  BY <1>1, <1>2 DEF AddReturns, XrayTypeOK, CallType

LEMMA XrayStepTypes ==
    ASSUME XrayTypeOK, TodoInv, [XrayNext]_xrayVars
    PROVE  XrayTypeOK'
<1>0. call \in [Callers -> CallType]
  BY DEF XrayTypeOK, CallType
<1>. SUFFICES /\ inbound' \in [Tags -> SUBSET Users] /\ call' \in [Callers -> CallType]
              /\ claimed' \in [Users -> SUBSET Tags] /\ trouble' \subseteq Users
  BY DEF XrayTypeOK, CallType
<1>. USE DEF XrayTypeOK
<1>1. CASE UNCHANGED xrayVars
  BY <1>0, <1>1 DEF xrayVars
<1>2. ASSUME NEW k \in Callers, NEW u \in Users, NEW c \in CallType, Begin(k, u, c)
      PROVE  /\ inbound' \in [Tags -> SUBSET Users] /\ call' \in [Callers -> CallType]
             /\ claimed' \in [Users -> SUBSET Tags] /\ trouble' \subseteq Users
  BY <1>0, <1>2 DEF Begin
<1>3. ASSUME NEW k \in Callers, NEW u \in Users, BeginRemove(k, u)
      PROVE  /\ inbound' \in [Tags -> SUBSET Users] /\ call' \in [Callers -> CallType]
             /\ claimed' \in [Users -> SUBSET Tags] /\ trouble' \subseteq Users
  <2>1. [NoCall(u) EXCEPT !.pc = "remove", !.left = Tags] \in CallType
    BY BegunTyping, Zenon
  <2>. QED  BY <1>2, <1>3, <2>1 DEF BeginRemove
<1>4. ASSUME NEW k \in Callers, NEW u \in Users, NEW x \in Transports, BeginAdd(k, u, x)
      PROVE  /\ inbound' \in [Tags -> SUBSET Users] /\ call' \in [Callers -> CallType]
             /\ claimed' \in [Users -> SUBSET Tags] /\ trouble' \subseteq Users
  <2>1. AddTags(x) \in Seq(Tags) /\ TagSet(AddTags(x)) \subseteq Tags
    BY AddTagsTyping
  <2>2. [NoCall(u) EXCEPT !.pc = "add", !.todo = AddTags(x), !.want = TagSet(AddTags(x))]
            \in CallType
    BY <2>1, BegunTyping, Zenon
  <2>. QED  BY <1>2, <1>4, <2>2 DEF BeginAdd
<1>5. ASSUME NEW k \in Callers, AddToTag(k)
      PROVE  /\ inbound' \in [Tags -> SUBSET Users] /\ call' \in [Callers -> CallType]
             /\ claimed' \in [Users -> SUBSET Tags] /\ trouble' \subseteq Users
  <2>1. Head(call[k].todo) \in Tags /\ Tail(call[k].todo) \in Seq(Tags)
    BY <1>5, TodoIs DEF AddToTag
  <2>2. inbound' \in [Tags -> SUBSET Users] /\ trouble' \subseteq Users
    BY <1>5, <2>1 DEF AddToTag
  <2>3. CASE AddReturns(k, TRUE)
    BY <2>2, <2>3, ReturnTyping, Zenon
  <2>4. CASE /\ call' = [call EXCEPT ![k].pc = "add", ![k].todo = Tail(@)]
             /\ UNCHANGED claimed
    BY <1>0, <2>1, <2>2, <2>4, ZenonT(40) DEF CallType
  <2>. QED  BY <1>5, <2>3, <2>4, Zenon DEF AddToTag, NextTag
<1>6. ASSUME NEW k \in Callers, AlreadyExists(k)
      PROVE  /\ inbound' \in [Tags -> SUBSET Users] /\ call' \in [Callers -> CallType]
             /\ claimed' \in [Users -> SUBSET Tags] /\ trouble' \subseteq Users
  <2>1. PICK b \in BOOLEAN : b = FALSE
    BY Zenon
  <2>2. call' = [call EXCEPT ![k] = [call[k] EXCEPT !.pc = "clean", !.left = Tags, !.removed = b]]
    BY <1>0, <1>6, <2>1, Zenon DEF AlreadyExists, CallType
  <2>3. call' \in [Callers -> CallType]
    BY <1>0, <2>1, <2>2, ZenonT(40) DEF CallType
  <2>. QED  BY <1>6, <2>3 DEF AlreadyExists
<1>7. ASSUME NEW k \in Callers, StillExists(k) \/ AddFails(k)
      PROVE  /\ inbound' \in [Tags -> SUBSET Users] /\ call' \in [Callers -> CallType]
             /\ claimed' \in [Users -> SUBSET Tags] /\ trouble' \subseteq Users
  <2>1. Head(call[k].todo) \in Tags
    BY <1>7, TodoIs, Zenon DEF StillExists, AddFails
  <2>2. AddReturns(k, FALSE)
    BY <1>7, Zenon DEF StillExists, AddFails
  <2>3. call' \in [Callers -> CallType] /\ claimed' \in [Users -> SUBSET Tags]
    BY <2>2, ReturnTyping, Zenon
  <2>4. inbound' \in [Tags -> SUBSET Users] /\ trouble' \subseteq Users
    <3>1. CASE UNCHANGED <<inbound, trouble>>
      BY <3>1, Zenon
    <3>2. CASE /\ inbound' \in {inbound, [inbound EXCEPT ![Head(call[k].todo)] = @ \cup {call[k].user}]}
               /\ trouble' = trouble \cup {call[k].user}
      BY <2>1, <3>2
    <3>. QED  BY <1>7, <3>1, <3>2, Zenon DEF StillExists, AddFails
  <2>. QED  BY <2>3, <2>4
<1>8. ASSUME NEW k \in Callers, NEW t \in Tags, RemoveFromTag(k, t)
      PROVE  /\ inbound' \in [Tags -> SUBSET Users] /\ call' \in [Callers -> CallType]
             /\ claimed' \in [Users -> SUBSET Tags] /\ trouble' \subseteq Users
  <2>1. PICK b \in BOOLEAN : b = (call[k].removed \/ call[k].user \in inbound[t])
    BY Zenon
  <2>2. call' = [call EXCEPT ![k] = [call[k] EXCEPT !.left = @ \ {t}, !.removed = b]]
    BY <1>0, <1>8, <2>1, Zenon DEF RemoveFromTag, CallType
  <2>3. call' \in [Callers -> CallType]
    BY <1>0, <2>1, <2>2, ZenonT(40) DEF CallType
  <2>4. inbound' \in [Tags -> SUBSET Users]
    BY <1>8 DEF RemoveFromTag
  <2>. QED  BY <1>8, <2>3, <2>4, Zenon DEF RemoveFromTag
<1>9. ASSUME NEW k \in Callers, NEW t \in Tags, RemoveTagFails(k, t)
      PROVE  /\ inbound' \in [Tags -> SUBSET Users] /\ call' \in [Callers -> CallType]
             /\ claimed' \in [Users -> SUBSET Tags] /\ trouble' \subseteq Users
  <2>1. call' \in [Callers -> CallType]
    <3>1. call' = [call EXCEPT ![k].left = @ \ {t}]
      BY <1>9, Zenon DEF RemoveTagFails
    <3>. QED  BY <1>0, <3>1, ZenonT(40) DEF CallType
  <2>2. inbound' \in [Tags -> SUBSET Users] /\ trouble' \subseteq Users
    BY <1>9 DEF RemoveTagFails
  <2>. QED  BY <1>9, <2>1, <2>2 DEF RemoveTagFails
<1>10. ASSUME NEW k \in Callers, CleanReturns(k)
       PROVE  /\ inbound' \in [Tags -> SUBSET Users] /\ call' \in [Callers -> CallType]
              /\ claimed' \in [Users -> SUBSET Tags] /\ trouble' \subseteq Users
  <2>1. CASE call' = [call EXCEPT ![k].pc = "readd"] /\ UNCHANGED claimed
    BY <1>0, <1>10, <2>1, Zenon DEF CleanReturns, CallType
  <2>. QED  BY <1>10, <2>1, ReturnTyping, Zenon DEF CleanReturns
<1>11. ASSUME NEW k \in Callers, RemoveReturns(k)
       PROVE  /\ inbound' \in [Tags -> SUBSET Users] /\ call' \in [Callers -> CallType]
              /\ claimed' \in [Users -> SUBSET Tags] /\ trouble' \subseteq Users
  BY <1>0, <1>11, NoCallTyping, Zenon DEF RemoveReturns, CallType
<1>. QED
  BY <1>1, <1>3, <1>4, <1>5, <1>6, <1>7, <1>8, <1>9, <1>10, <1>11, SMTT(30) DEF XrayNext

-----------------------------------------------------------------------------
(* A step of one caller, and what it leaves alone.                         *)

CallerStep(k) ==
    \/ \E u \in Users : BeginRemove(k, u) \/ \E x \in Transports : BeginAdd(k, u, x)
    \/ AddToTag(k) \/ AlreadyExists(k) \/ StillExists(k) \/ AddFails(k)
    \/ \E t \in Tags : RemoveFromTag(k, t) \/ RemoveTagFails(k, t)
    \/ CleanReturns(k) \/ RemoveReturns(k)

(* AddUser and RemoveUser keep to the user they were called for.           *)
LEMMA CallKept ==
    ASSUME XrayTypeOK, TodoInv, NEW k \in Callers, CallerStep(k),
           ~\E u \in Users : BeginRemove(k, u) \/ \E x \in Transports : BeginAdd(k, u, x)
    PROVE  /\ call[k].pc # "idle" /\ call'[k].user = call[k].user
           /\ \A j \in Callers \ {k} : call'[j] = call[j]
           /\ \A u \in Users \ {call[k].user} :
                 /\ u \in trouble' <=> u \in trouble
                 /\ claimed'[u] = claimed[u]
                 /\ \A t \in Tags : u \in inbound'[t] <=> u \in inbound[t]
           /\ trouble \subseteq trouble'
<1>0. call \in [Callers -> CallType] /\ inbound \in [Tags -> SUBSET Users]
      /\ claimed \in [Users -> SUBSET Tags]
  BY DEF XrayTypeOK, CallType
<1>. DEFINE Kept ==
           /\ call[k].pc # "idle" /\ call'[k].user = call[k].user
           /\ \A j \in Callers \ {k} : call'[j] = call[j]
           /\ \A u \in Users \ {call[k].user} :
                 /\ u \in trouble' <=> u \in trouble
                 /\ claimed'[u] = claimed[u]
                 /\ \A t \in Tags : u \in inbound'[t] <=> u \in inbound[t]
           /\ trouble \subseteq trouble'
<1>1. ASSUME NEW ok, AddReturns(k, ok)
      PROVE  /\ call'[k].user = call[k].user
             /\ \A j \in Callers \ {k} : call'[j] = call[j]
             /\ \A u \in Users \ {call[k].user} : claimed'[u] = claimed[u]
  BY <1>0, <1>1, Zenon DEF AddReturns, NoCall
<1>2. CASE AddToTag(k)
  <2>1. Head(call[k].todo) \in Tags
    BY <1>2, TodoIs DEF AddToTag
  <2>2. /\ call'[k].user = call[k].user
        /\ \A j \in Callers \ {k} : call'[j] = call[j]
        /\ \A u \in Users \ {call[k].user} : claimed'[u] = claimed[u]
    <3>1. CASE call' = [call EXCEPT ![k].pc = "add", ![k].todo = Tail(@)] /\ UNCHANGED claimed
      BY <1>0, <3>1 DEF CallType
    <3>. QED  BY <1>1, <1>2, <3>1, Zenon DEF AddToTag, NextTag
  <2>. QED  BY <1>0, <1>2, <2>1, <2>2, ZenonT(40) DEF AddToTag
<1>3. CASE AlreadyExists(k)
  <2>1. call'[k].user = call[k].user /\ \A j \in Callers \ {k} : call'[j] = call[j]
    BY <1>0, <1>3 DEF AlreadyExists, CallType
  <2>. QED  BY <1>3, <2>1, Zenon DEF AlreadyExists
<1>4. CASE StillExists(k)
  BY <1>1, <1>4, Zenon DEF StillExists
<1>5. CASE AddFails(k)
  <2>1. Head(call[k].todo) \in Tags
    BY <1>5, TodoIs, Zenon DEF AddFails
  <2>2. /\ call[k].pc # "idle" /\ trouble' = trouble \cup {call[k].user}
        /\ inbound' \in {inbound, [inbound EXCEPT ![Head(call[k].todo)] = @ \cup {call[k].user}]}
        /\ AddReturns(k, FALSE)
    BY <1>5, Zenon DEF AddFails
  <2>. QED  BY <1>0, <1>1, <2>1, <2>2, ZenonT(40)
<1>6. ASSUME NEW t \in Tags, RemoveFromTag(k, t)
      PROVE  Kept
  <2>1. call'[k].user = call[k].user /\ \A j \in Callers \ {k} : call'[j] = call[j]
    BY <1>0, <1>6 DEF RemoveFromTag, CallType
  <2>. QED  BY <1>0, <1>6, <2>1 DEF RemoveFromTag
<1>7. ASSUME NEW t \in Tags, RemoveTagFails(k, t)
      PROVE  Kept
  <2>1. /\ call[k].pc # "idle" /\ trouble' = trouble \cup {call[k].user}
        /\ inbound' \in {inbound, [inbound EXCEPT ![t] = @ \ {call[k].user}]}
        /\ call' = [call EXCEPT ![k].left = @ \ {t}] /\ claimed' = claimed
    BY <1>7 DEF RemoveTagFails
  <2>2. call'[k].user = call[k].user /\ \A j \in Callers \ {k} : call'[j] = call[j]
    BY <1>0, <2>1 DEF CallType
  <2>. QED  BY <1>0, <2>1, <2>2
<1>8. CASE CleanReturns(k)
  <2>1. CASE call' = [call EXCEPT ![k].pc = "readd"] /\ UNCHANGED claimed
    BY <1>0, <1>8, <2>1 DEF CleanReturns, CallType
  <2>2. CASE AddReturns(k, FALSE)
    BY <1>1, <1>8, <2>2, Zenon DEF CleanReturns
  <2>. QED  BY <1>8, <2>1, <2>2, Zenon DEF CleanReturns
<1>9. CASE RemoveReturns(k)
  BY <1>0, <1>9, Zenon DEF RemoveReturns, NoCall, CallType
<1>. QED  BY <1>2, <1>3, <1>4, <1>5, <1>6, <1>7, <1>8, <1>9, ZenonT(40) DEF CallerStep

(* A call begins.                                                          *)
LEMMA CallBegins ==
    ASSUME XrayTypeOK, NEW k \in Callers, NEW u \in Users,
           BeginRemove(k, u) \/ \E x \in Transports : BeginAdd(k, u, x)
    PROVE  /\ call[k].pc = "idle" /\ call'[k].user = u
           /\ \A j \in Callers \ {k} : call'[j] = call[j]
           /\ \A v \in Users \ {u} : (v \in trouble' <=> v \in trouble) /\ claimed'[v] = claimed[v]
           /\ claimed'[u] = {} /\ inbound' = inbound
           /\ Busy(u) => u \in trouble'
           /\ u \notin trouble' => u \notin trouble \/ \A t \in Tags : u \notin inbound[t]
           /\ \/ call'[k].pc = "remove" /\ call'[k].left = Tags
              \/ call'[k].pc = "add" /\ Fresh(call'[k])
<1>0. call \in [Callers -> CallType] /\ claimed \in [Users -> SUBSET Tags]
  BY DEF XrayTypeOK, CallType
<1>. DEFINE r == [NoCall(u) EXCEPT !.pc = "remove", !.left = Tags]
            a(x) == [NoCall(u) EXCEPT !.pc = "add", !.todo = AddTags(x), !.want = TagSet(AddTags(x))]
<1>1. PICK c : Begin(k, u, c) /\ (c = r \/ \E x \in Transports : c = a(x))
  BY Zenon DEF BeginRemove, BeginAdd
<1>2. c.user = u /\ ((c.pc = "remove" /\ c.left = Tags) \/ (c.pc = "add" /\ Fresh(c)))
  <2>1. CASE c = r
    <3>1. c.user = u /\ c.pc = "remove" /\ c.left = Tags
      BY <2>1 DEF NoCall
    <3>. QED  BY <3>1
  <2>2. ASSUME NEW x \in Transports, c = a(x)
        PROVE  c.user = u /\ c.pc = "add" /\ c.todo = AddTags(x) /\ c.want = TagSet(AddTags(x))
    BY <2>2 DEF NoCall
  <2>. QED  BY <1>1, <2>1, <2>2, ZenonT(40) DEF Fresh
<1>3. call'[k] = c
  BY <1>0, <1>1, Zenon DEF Begin
<1>4. Busy(u) => u \in trouble'
  BY <1>1, Zenon DEF Begin
<1>. QED  BY <1>0, <1>1, <1>2, <1>3, <1>4, ZenonT(40) DEF Begin

(* Everything but the user of the caller's call is left alone, and that    *)
(* user is in trouble if somebody else is in a call for it.                *)
LEMMA Frame ==
    ASSUME XrayTypeOK, TodoInv, AloneInv, NEW k \in Callers, CallerStep(k)
    PROVE  /\ \A j \in Callers \ {k} : call'[j] = call[j]
           /\ \A u \in Users \ {call'[k].user} :
                 /\ u \in trouble' <=> u \in trouble
                 /\ claimed'[u] = claimed[u]
                 /\ \A t \in Tags : u \in inbound'[t] <=> u \in inbound[t]
                 /\ Busy(u)' <=> Busy(u)
           /\ \A j \in Callers \ {k} :
                 call[j].pc # "idle" /\ call[j].user = call'[k].user => call[j].user \in trouble'
<1>1. ASSUME NEW u \in Users, BeginRemove(k, u) \/ \E x \in Transports : BeginAdd(k, u, x)
      PROVE  /\ \A j \in Callers \ {k} : call'[j] = call[j]
             /\ \A v \in Users \ {call'[k].user} :
                 /\ v \in trouble' <=> v \in trouble
                 /\ claimed'[v] = claimed[v]
                 /\ \A t \in Tags : v \in inbound'[t] <=> v \in inbound[t]
                 /\ Busy(v)' <=> Busy(v)
             /\ \A j \in Callers \ {k} :
                 call[j].pc # "idle" /\ call[j].user = call'[k].user => call[j].user \in trouble'
  <2>1. /\ call[k].pc = "idle" /\ call'[k].user = u
        /\ \A j \in Callers \ {k} : call'[j] = call[j]
        /\ \A v \in Users \ {u} : (v \in trouble' <=> v \in trouble) /\ claimed'[v] = claimed[v]
        /\ inbound' = inbound
        /\ Busy(u) => u \in trouble'
    BY <1>1, CallBegins, ZenonT(40)
  <2>2. \A v \in Users \ {u} : Busy(v)' <=> Busy(v)
    BY <2>1, Zenon DEF Busy
  <2>3. \A j \in Callers \ {k} :
           call[j].pc # "idle" /\ call[j].user = call'[k].user => call[j].user \in trouble'
    BY <2>1 DEF Busy
  <2>. QED  BY <2>1, <2>2, <2>3, Zenon
<1>2. CASE ~\E u \in Users : BeginRemove(k, u) \/ \E x \in Transports : BeginAdd(k, u, x)
  <2>1. /\ call[k].pc # "idle" /\ call'[k].user = call[k].user
        /\ \A j \in Callers \ {k} : call'[j] = call[j]
        /\ \A u \in Users \ {call[k].user} :
              /\ u \in trouble' <=> u \in trouble
              /\ claimed'[u] = claimed[u]
              /\ \A t \in Tags : u \in inbound'[t] <=> u \in inbound[t]
        /\ trouble \subseteq trouble'
    BY <1>2, CallKept, Zenon
  <2>2. \A u \in Users \ {call'[k].user} : Busy(u)' <=> Busy(u)
    BY <2>1, Zenon DEF Busy
  <2>3. \A j \in Callers \ {k} :
           call[j].pc # "idle" /\ call[j].user = call'[k].user => call[j].user \in trouble'
    BY <2>1, Zenon DEF AloneInv
  <2>. QED  BY <2>1, <2>2, <2>3, ZenonT(40)
<1>. QED  BY <1>1, <1>2, Zenon

-----------------------------------------------------------------------------
(* RemoveUser: what it has passed is clean.                                *)

LEMMA SameTodo ==
    ASSUME NEW c, NEW d, d.todo = c.todo, d.want = c.want
    PROVE  (Fresh(c) => Fresh(d)) /\ (Second(c) => Second(d))
BY Zenon DEF Fresh, Second

(* The call of AddUser after its first inbound.                            *)
LEMMA TailIsSecond ==
    ASSUME NEW c, NEW d, Fresh(c) \/ Second(c), Len(c.todo) # 1,
           d.todo = Tail(c.todo), d.want = c.want
    PROVE  Second(d)
<1>1. Fresh(c)
  BY SecondIs, Zenon
<1>2. PICK x \in Transports :
        /\ Tail(c.todo) = <<MirrorTag>> /\ c.want = {TagFor[x], MirrorTag}
        /\ MirrorTag \in Tags /\ MirrorTag # TagFor[x]
  BY <1>1, FreshIs, Zenon
<1>. QED  BY <1>2 DEF Second

LEMMA OwnTodo ==
    ASSUME XrayTypeOK, TodoInv, NEW k \in Callers, CallerStep(k),
           call'[k].pc \in {"add", "clean", "readd"}
    PROVE  Fresh(call'[k]) \/ Second(call'[k])
<1>0. call \in [Callers -> CallType]
  BY Zenon DEF XrayTypeOK, CallType
<1>1. ASSUME NEW ok, AddReturns(k, ok)
      PROVE  FALSE
  BY <1>0, <1>1, ZenonT(40) DEF AddReturns, NoCall
<1>2. ASSUME NEW u \in Users, BeginRemove(k, u) \/ \E x \in Transports : BeginAdd(k, u, x)
      PROVE  Fresh(call'[k])
  BY <1>2, CallBegins
<1>3. CASE AddToTag(k)
  <2>1. /\ call[k].pc \in {"add", "readd"} /\ Len(call[k].todo) # 1
        /\ call' = [call EXCEPT ![k].pc = "add", ![k].todo = Tail(@)]
    BY <1>1, <1>3, Zenon DEF AddToTag, NextTag
  <2>2. call'[k].todo = Tail(call[k].todo) /\ call'[k].want = call[k].want
    BY <1>0, <2>1 DEF CallType
  <2>. QED  BY <2>1, <2>2, TailIsSecond, Zenon DEF TodoInv
<1>4. CASE AlreadyExists(k)
  <2>1. call'[k].todo = call[k].todo /\ call'[k].want = call[k].want /\ call[k].pc = "add"
    BY <1>0, <1>4, Zenon DEF AlreadyExists, CallType
  <2>. QED  BY <2>1, SameTodo DEF TodoInv
<1>5. CASE StillExists(k) \/ AddFails(k)
  BY <1>1, <1>5, Zenon DEF StillExists, AddFails
<1>6. ASSUME NEW t \in Tags, RemoveFromTag(k, t) \/ RemoveTagFails(k, t)
      PROVE  Fresh(call'[k]) \/ Second(call'[k])
  <2>1. call'[k].todo = call[k].todo /\ call'[k].want = call[k].want /\ call'[k].pc = call[k].pc
    <3>1. CASE RemoveFromTag(k, t)
      BY <1>0, <3>1 DEF RemoveFromTag, CallType
    <3>2. CASE RemoveTagFails(k, t)
      <4>1. call' = [call EXCEPT ![k].left = @ \ {t}]
        BY <3>2 DEF RemoveTagFails
      <4>. QED  BY <1>0, <4>1 DEF CallType
    <3>. QED  BY <1>6, <3>1, <3>2
  <2>. QED  BY <2>1, SameTodo, Zenon DEF TodoInv
<1>7. CASE CleanReturns(k)
  <2>1. call[k].pc = "clean" /\ call' = [call EXCEPT ![k].pc = "readd"]
    BY <1>1, <1>7, ZenonT(40) DEF CleanReturns
  <2>2. call'[k].todo = call[k].todo /\ call'[k].want = call[k].want
    BY <1>0, <2>1 DEF CallType
  <2>. QED  BY <2>1, <2>2, SameTodo, Zenon DEF TodoInv
<1>8. CASE RemoveReturns(k)
  BY <1>0, <1>8, Zenon DEF RemoveReturns, NoCall
<1>. QED  BY <1>2, <1>3, <1>4, <1>5, <1>6, <1>7, <1>8, Zenon DEF CallerStep

LEMMA OwnLeft ==
    ASSUME XrayTypeOK, TodoInv, LeftInv, NEW k \in Callers, CallerStep(k),
           call'[k].user \notin trouble'
    PROVE  LeftAt(call'[k], inbound')
<1>0. call \in [Callers -> CallType] /\ inbound \in [Tags -> SUBSET Users]
  BY Zenon DEF XrayTypeOK, CallType
<1>. SUFFICES ASSUME call'[k].pc \in {"clean", "remove"}, NEW t \in Tags,
                     call'[k].user \in inbound'[t]
              PROVE  t \in call'[k].left
  BY Zenon DEF LeftAt
<1>1. ASSUME NEW ok, AddReturns(k, ok)
      PROVE  FALSE
  BY <1>0, <1>1, ZenonT(40) DEF AddReturns, NoCall
<1>2. ASSUME NEW u \in Users, BeginRemove(k, u) \/ \E x \in Transports : BeginAdd(k, u, x)
      PROVE  t \in call'[k].left
  BY <1>2, CallBegins
<1>3. CASE AddToTag(k)
  <2>1. CASE call' = [call EXCEPT ![k].pc = "add", ![k].todo = Tail(@)]
    BY <1>0, <2>1 DEF CallType
  <2>. QED  BY <1>1, <1>3, <2>1, Zenon DEF AddToTag, NextTag
<1>4. CASE AlreadyExists(k)
  BY <1>0, <1>4 DEF AlreadyExists, CallType
<1>5. CASE StillExists(k) \/ AddFails(k)
  BY <1>1, <1>5, Zenon DEF StillExists, AddFails
<1>6. ASSUME NEW e \in Tags, RemoveFromTag(k, e)
      PROVE  t \in call'[k].left
  <2>1. /\ call'[k].user = call[k].user /\ call'[k].pc = call[k].pc
        /\ call'[k].left = call[k].left \ {e}
    BY <1>0, <1>6 DEF RemoveFromTag, CallType
  <2>2. trouble' = trouble /\ inbound' = [inbound EXCEPT ![e] = @ \ {call[k].user}]
    BY <1>6, Zenon DEF RemoveFromTag
  <2>3. LeftAt(call[k], inbound)
    BY <2>1, <2>2 DEF LeftInv
  <2>. QED  BY <1>0, <2>1, <2>2, <2>3 DEF LeftAt
<1>7. ASSUME NEW e \in Tags, RemoveTagFails(k, e)
      PROVE  FALSE
  <2>1. trouble' = trouble \cup {call[k].user} /\ call' = [call EXCEPT ![k].left = @ \ {e}]
    BY <1>7 DEF RemoveTagFails
  <2>2. call'[k].user = call[k].user
    BY <1>0, <2>1 DEF CallType
  <2>. QED  BY <2>1, <2>2
<1>8. CASE CleanReturns(k)
  <2>1. call' = [call EXCEPT ![k].pc = "readd"]
    BY <1>1, <1>8, Zenon DEF CleanReturns
  <2>. QED  BY <1>0, <2>1 DEF CallType
<1>9. CASE RemoveReturns(k)
  BY <1>0, <1>9, Zenon DEF RemoveReturns, NoCall
<1>. QED  BY <1>2, <1>3, <1>4, <1>5, <1>6, <1>7, <1>8, <1>9, Zenon DEF CallerStep

XInv == XrayTypeOK /\ TodoInv /\ AloneInv /\ LeftInv

LEMMA InitX ==
    ASSUME XrayInit
    PROVE  XInv
<1>1. \A k \in Callers : \E u \in Users : call[k] = NoCall(u)
  BY DEF XrayInit
<1>2. \A k \in Callers : call[k].pc = "idle"
  <2>1. \A u : NoCall(u).pc = "idle"
    BY DEF NoCall
  <2>. QED  BY <1>1, <2>1, ZenonT(40)
<1>3. call \in [Callers -> CallType]
  BY NoCallTyping, Zenon DEF XrayInit
<1>4. XrayTypeOK
  BY <1>3, Zenon DEF XrayInit, XrayTypeOK, CallType
<1>. QED  BY <1>2, <1>4 DEF XInv, TodoInv, AloneInv, LeftInv, LeftAt

(* Nothing happens to a user behind the back of its call.                  *)
LEMMA StepX ==
    ASSUME XInv, [XrayNext]_xrayVars
    PROVE  XInv'
<1>. USE DEF XInv
<1>1. XrayTypeOK'
  BY XrayStepTypes, ZenonT(40)
<1>2. CASE UNCHANGED xrayVars
  BY <1>1, <1>2 DEF xrayVars, TodoInv, AloneInv, LeftInv
<1>3. ASSUME NEW k \in Callers, CallerStep(k)
      PROVE  XInv'
  <2>0. \A j \in Callers : call[j].user \in Users /\ call'[j].user \in Users
    BY <1>1, Zenon DEF XrayTypeOK
  <2>1. /\ \A j \in Callers \ {k} : call'[j] = call[j]
        /\ \A u \in Users \ {call'[k].user} :
              /\ u \in trouble' <=> u \in trouble
              /\ \A t \in Tags : u \in inbound'[t] <=> u \in inbound[t]
        /\ \A j \in Callers \ {k} :
              call[j].pc # "idle" /\ call[j].user = call'[k].user => call[j].user \in trouble'
    BY <1>3, Frame, Zenon
  <2>2. TodoInv'
    <3>. SUFFICES ASSUME NEW j \in Callers, call'[j].pc \in {"add", "clean", "readd"}
                  PROVE  Fresh(call'[j]) \/ Second(call'[j])
      BY Zenon DEF TodoInv
    <3>. QED  BY <1>3, <2>1, OwnTodo, Zenon DEF TodoInv
  <2>3. AloneInv'
    <3>. SUFFICES ASSUME NEW i \in Callers, NEW j \in Callers,
                         call'[i].pc # "idle", call'[j].pc # "idle",
                         call'[i].user = call'[j].user, call'[j].user \notin trouble', i # j
                  PROVE  FALSE
      BY Zenon DEF AloneInv
    <3>1. CASE i = k \/ j = k
      BY <2>1, <3>1, Zenon
    <3>2. CASE i # k /\ j # k
      BY <2>0, <2>1, <3>2 DEF AloneInv
    <3>. QED  BY <3>1, <3>2, Zenon
  <2>4. LeftInv'
    <3>. SUFFICES ASSUME NEW j \in Callers, call'[j].user \notin trouble'
                  PROVE  LeftAt(call'[j], inbound')
      BY DEF LeftInv
    <3>1. CASE j = k
      BY <1>3, <3>1, OwnLeft, Zenon
    <3>2. CASE j # k
      BY <2>0, <2>1, <3>2 DEF LeftInv, LeftAt
    <3>. QED  BY <3>1, <3>2, Zenon
  <2>. QED  BY <1>1, <2>2, <2>3, <2>4, Zenon
<1>. QED  BY <1>2, <1>3 DEF XrayNext, CallerStep

(* The state of the xray client and of the inbounds keeps its types,       *)
(* whatever calls overlap or fail.                                         *)
THEOREM XrayTypes == XraySpec => []XrayTypeOK
<1>1. XrayInit => XInv
  BY InitX
<1>2. XInv /\ [XrayNext]_xrayVars => XInv'
  BY StepX
<1>3. XInv => XrayTypeOK
  BY DEF XInv
<1>. QED  BY <1>1, <1>2, <1>3, PTL DEF XraySpec

(* RemoveUser leaves the user in no inbound when it returns nil, provided  *)
(* no call for the same user overlapped with it and no AlterInbound of it  *)
(* failed, with any inbounds and any mirror.                               *)
THEOREM RemovedUsersAreGone == XraySpec => RemovedMeansGone
<1>. DEFINE A == \A k \in Callers :
                   /\ call[k].pc = "remove" /\ call[k].removed /\ call'[k].pc = "idle"
                   /\ call[k].user \notin trouble
                   => \A t \in Tags : call[k].user \notin inbound[t]
<1>1. XrayInit => XInv
  BY InitX
<1>2. XInv /\ [XrayNext]_xrayVars => XInv'
  BY StepX
<1>3. XInv /\ [XrayNext]_xrayVars => [A]_xrayVars
  <2>. SUFFICES ASSUME XInv, XrayNext, NEW k \in Callers, call[k].pc = "remove",
                       call'[k].pc = "idle", call[k].user \notin trouble
                PROVE  \A t \in Tags : call[k].user \notin inbound[t]
    BY Zenon
  <2>1. PICK j \in Callers : CallerStep(j)
    BY Zenon DEF XrayNext, CallerStep
  <2>2. j = k
    BY <2>1, Frame, Zenon DEF XInv
  <2>3. call[k].left = {}
    <3>0. call \in [Callers -> CallType]
      BY ZenonT(40) DEF XInv, XrayTypeOK, CallType
    <3>1. ASSUME NEW u \in Users, BeginRemove(k, u) \/ \E x \in Transports : BeginAdd(k, u, x)
          PROVE  FALSE
      BY <3>1, CallBegins DEF XInv
    <3>2. ASSUME AddToTag(k) \/ AlreadyExists(k) \/ StillExists(k) \/ AddFails(k)
          PROVE  FALSE
      BY <3>2 DEF AddToTag, AlreadyExists, StillExists, AddFails
    <3>3. ASSUME NEW t \in Tags, RemoveFromTag(k, t)
          PROVE  FALSE
      BY <3>0, <3>3 DEF RemoveFromTag, CallType
    <3>4. ASSUME NEW t \in Tags, RemoveTagFails(k, t)
          PROVE  FALSE
      <4>1. call' = [call EXCEPT ![k].left = @ \ {t}]
        BY <3>4 DEF RemoveTagFails
      <4>. QED  BY <3>0, <4>1 DEF CallType
    <3>5. CASE CleanReturns(k) \/ RemoveReturns(k)
      BY <3>5 DEF CleanReturns, RemoveReturns
    <3>. QED  BY <2>1, <2>2, <3>1, <3>2, <3>3, <3>4, <3>5, Zenon DEF CallerStep
  <2>. QED  BY <2>3, Zenon DEF XInv, LeftInv, LeftAt
<1>. QED  BY <1>1, <1>2, <1>3, PTL DEF XraySpec, RemovedMeansGone

-----------------------------------------------------------------------------
(* AddUser: both inbounds or none.                                         *)

(* A user in no inbound, or in all of those that matter, is paired.        *)
LEMMA NowherePaired ==
    ASSUME NEW u, NEW ib, \A t \in Tags : u \notin ib[t]
    PROVE  Paired(u, ib)
BY TagForAssumption, MirrorAssumption DEF Paired

LEMMA EverywherePaired ==
    ASSUME OneInbound, NEW u, NEW ib, NEW x \in Transports, u \in ib[TagFor[x]],
           MirrorTag = NoTag \/ u \in ib[MirrorTag]
    PROVE  Paired(u, ib)
BY Zenon DEF Paired, OneInbound

(* The answer of AddUser.                                                  *)
LEMMA ReturnClaims ==
    ASSUME XrayTypeOK, NEW k \in Callers, NEW ok \in BOOLEAN, AddReturns(k, ok)
    PROVE  /\ call'[k].pc = "idle" /\ call'[k].user = call[k].user
           /\ \/ claimed'[call[k].user] = claimed[call[k].user]
              \/ /\ ok /\ call[k].user \notin trouble
                 /\ claimed'[call[k].user] = call[k].want
<1>1. call[k].user \in Users
  BY DEF XrayTypeOK
<1>2. call' = [call EXCEPT ![k] = NoCall(call[k].user)]
  BY DEF AddReturns
<1>3. call'[k] = NoCall(call[k].user)
  BY <1>2, Zenon DEF XrayTypeOK
<1>4. call'[k].pc = "idle" /\ call'[k].user = call[k].user
  BY <1>3, SMTT(30) DEF NoCall
<1>5. CASE ok /\ call[k].user \notin trouble
  BY <1>1, <1>4, <1>5, Zenon DEF AddReturns, XrayTypeOK
<1>6. CASE ~(ok /\ call[k].user \notin trouble)
  BY <1>4, <1>6, Zenon DEF AddReturns
<1>. QED  BY <1>5, <1>6

(* A successful AlterInbound of AddUser, at its first or at its second     *)
(* inbound.                                                                *)
LEMMA AddAdvances ==
    ASSUME OneInbound, XInv, NEW k \in Callers, AddToTag(k),
           call[k].user \notin trouble => AddAt(call[k], inbound), claimed[call[k].user] = {}
    PROVE  /\ call[k].user \notin trouble =>
                 /\ AddAt(call'[k], inbound')
                 /\ call'[k].pc = "idle" => Paired(call[k].user, inbound')
           /\ claimed'[call[k].user] # {} =>
                 /\ call[k].user \notin trouble /\ call'[k].pc = "idle"
                 /\ \A t \in claimed'[call[k].user] : call[k].user \in inbound'[t]
<1>. DEFINE u == call[k].user
            t == Head(call[k].todo)
<1>0. /\ call \in [Callers -> CallType] /\ inbound \in [Tags -> SUBSET Users]
      /\ claimed \in [Users -> SUBSET Tags] /\ u \in Users
  BY Zenon DEF XInv, XrayTypeOK, CallType
<1>1. /\ call[k].pc \in {"add", "readd"} /\ u \notin inbound[t]
      /\ inbound' = [inbound EXCEPT ![t] = @ \cup {u}] /\ t \in Tags
  BY TodoIs, Zenon DEF AddToTag, XInv
<1>2. /\ u \in inbound'[t]
      /\ \A e \in Tags \ {t} : u \in inbound'[e] <=> u \in inbound[e]
      /\ \A e \in Tags : u \in inbound[e] => u \in inbound'[e]
  BY <1>0, <1>1, ZenonT(40)
<1>3. CASE Len(call[k].todo) = 1
  <2>1. AddReturns(k, TRUE)
    BY <1>3, Zenon DEF AddToTag, NextTag
  <2>2. /\ call'[k].pc = "idle" /\ call'[k].user = u
        /\ \/ claimed'[u] = {}
           \/ u \notin trouble /\ claimed'[u] = call[k].want
    BY <2>1, ReturnClaims, Zenon DEF XInv
  <2>3. ASSUME u \notin trouble
        PROVE  Paired(u, inbound') /\ \A e \in call[k].want : u \in inbound'[e]
    <3>1. CASE Fresh(call[k])
      <4>1. PICK x \in Transports : /\ t = TagFor[x] /\ call[k].want = {TagFor[x]}
                                    /\ MirrorTag = NoTag \/ MirrorTag = TagFor[x]
        BY <1>3, <3>1, FreshIs, Zenon
      <4>. QED  BY <1>2, <4>1, EverywherePaired, Zenon
    <3>2. CASE ~Fresh(call[k])
      <4>1. /\ Second(call[k])
            /\ \A e \in call[k].want \ {MirrorTag} : u \in inbound[e]
        BY <1>1, <2>3, <3>2, Zenon DEF AddAt
      <4>2. PICK x \in Transports : TagFor[x] # MirrorTag /\ call[k].want = {TagFor[x], MirrorTag}
        BY <4>1, Zenon DEF Second
      <4>3. t = MirrorTag /\ TagFor[x] \in Tags
        BY <4>1, SecondIs, TagForAssumption, ZenonT(40)
      <4>4. u \in inbound'[TagFor[x]] /\ u \in inbound'[MirrorTag]
        BY <1>2, <4>1, <4>2, <4>3
      <4>. QED  BY <4>2, <4>4, EverywherePaired, Zenon
    <3>. QED  BY <3>1, <3>2, Zenon
  <2>4. AddAt(call'[k], inbound')
    BY <2>2, Zenon DEF AddAt
  <2>. QED  BY <2>2, <2>3, <2>4
<1>4. CASE Len(call[k].todo) # 1
  <2>1. call' = [call EXCEPT ![k].pc = "add", ![k].todo = Tail(@)] /\ claimed' = claimed
    BY <1>4, Zenon DEF AddToTag, NextTag
  <2>2. /\ call'[k].pc = "add" /\ call'[k].user = u /\ call'[k].want = call[k].want
        /\ call'[k].todo = Tail(call[k].todo)
    BY <1>0, <2>1 DEF CallType
  <2>3. Fresh(call[k]) \/ Second(call[k])
    BY <1>1, Zenon DEF XInv, TodoInv
  <2>4. Second(call'[k]) /\ Fresh(call[k])
    BY <1>4, <2>2, <2>3, TailIsSecond, SecondIs, Zenon
  <2>5. PICK x \in Transports :
          /\ t = TagFor[x] /\ call[k].want = {TagFor[x], MirrorTag}
          /\ MirrorTag \in Tags /\ MirrorTag # TagFor[x]
    BY <1>4, <2>4, FreshIs, Zenon
  <2>6. ASSUME u \notin trouble
        PROVE  u \notin inbound[MirrorTag]
    <3>1. CASE call[k].pc = "add"
      <4>1. Paired(u, inbound)
        BY <1>4, <2>6, <3>1, SecondIs DEF AddAt
      <4>2. MirrorTag # NoTag
        BY <2>5, MirrorAssumption, ZenonT(40)
      <4>. QED  BY <1>1, <2>5, <4>1, <4>2, ZenonT(40) DEF Paired
    <3>2. CASE call[k].pc = "readd"
      BY <2>5, <2>6, <3>2 DEF AddAt
    <3>. QED  BY <1>1, <3>1, <3>2, Zenon
  <2>7. ASSUME u \notin trouble
        PROVE  AddAt(call'[k], inbound')
    <3>1. u \notin inbound'[MirrorTag] /\ \A e \in call'[k].want \ {MirrorTag} : u \in inbound'[e]
      BY <1>2, <2>2, <2>5, <2>6, <2>7, Zenon
    <3>. QED  BY <2>2, <2>4, <3>1, ZenonT(40) DEF AddAt
  <2>. QED  BY <2>1, <2>2, <2>7
<1>. QED  BY <1>3, <1>4, Zenon

AInv == XInv /\ PairedInv /\ AddInv /\ ClaimInv

(* What a step does for the user of the caller that takes it.              *)
LEMMA OwnAdd ==
    ASSUME OneInbound, AInv, NEW k \in Callers, CallerStep(k)
    PROVE  /\ call'[k].user \notin trouble' =>
                 /\ AddAt(call'[k], inbound')
                 /\ call'[k].pc = "idle" => Paired(call'[k].user, inbound')
           /\ claimed'[call'[k].user] # {} =>
                 /\ call'[k].user \notin trouble' /\ call'[k].pc = "idle"
                 /\ \A t \in claimed'[call'[k].user] : call'[k].user \in inbound'[t]
<1>. DEFINE Own(u) ==
              /\ u \notin trouble' =>
                    /\ AddAt(call'[k], inbound')
                    /\ call'[k].pc = "idle" => Paired(u, inbound')
              /\ claimed'[u] # {} =>
                    /\ u \notin trouble' /\ call'[k].pc = "idle"
                    /\ \A t \in claimed'[u] : u \in inbound'[t]
<1>. SUFFICES Own(call'[k].user)
  BY Zenon
<1>0. /\ call \in [Callers -> CallType] /\ inbound \in [Tags -> SUBSET Users] /\ XrayTypeOK
      /\ TodoInv
  BY Zenon DEF AInv, XInv, XrayTypeOK, CallType
<1>1. ASSUME NEW u \in Users, BeginRemove(k, u) \/ \E x \in Transports : BeginAdd(k, u, x)
      PROVE  Own(call'[k].user)
  <2>1. /\ call'[k].user = u /\ claimed'[u] = {} /\ inbound' = inbound
        /\ Busy(u) => u \in trouble'
        /\ u \notin trouble' => u \notin trouble \/ \A t \in Tags : u \notin inbound[t]
        /\ \/ call'[k].pc = "remove"
           \/ call'[k].pc = "add" /\ Fresh(call'[k])
    BY <1>0, <1>1, CallBegins, Zenon
  <2>2. ASSUME u \notin trouble' PROVE Paired(u, inbound')
    <3>1. CASE u \notin trouble
      BY <2>1, <2>2, <3>1, ZenonT(40) DEF AInv, PairedInv
    <3>2. CASE \A t \in Tags : u \notin inbound[t]
      BY <2>1, <3>2, NowherePaired
    <3>. QED  BY <2>1, <2>2, <3>1, <3>2, Zenon
  <2>. QED  BY <2>1, <2>2, Zenon DEF AddAt
<1>2. CASE ~\E u \in Users : BeginRemove(k, u) \/ \E x \in Transports : BeginAdd(k, u, x)
  <2>. DEFINE u == call[k].user
  <2>0. call[k].pc # "idle" /\ call'[k].user = u /\ trouble \subseteq trouble' /\ u \in Users
    BY <1>0, <1>2, CallKept DEF CallType
  <2>1. claimed[u] = {}
    BY <2>0 DEF AInv, ClaimInv, Busy
  <2>2. u \notin trouble => AddAt(call[k], inbound) /\ LeftAt(call[k], inbound)
    BY Zenon DEF AInv, XInv, AddInv, LeftInv
  <2>. SUFFICES Own(u)
    BY <2>0, Zenon
  <2>3. ASSUME AddReturns(k, FALSE)
        PROVE  call'[k].pc = "idle" /\ claimed'[u] = {} /\ AddAt(call'[k], inbound')
    <3>1. call'[k].pc = "idle" /\ claimed'[u] = {}
      BY <1>0, <2>1, <2>3, ReturnClaims, ZenonT(40)
    <3>. QED  BY <3>1, Zenon DEF AddAt
  <2>4. CASE AddToTag(k)
    <3>1. trouble' = trouble
      BY <2>4 DEF AddToTag
    <3>2. XInv /\ (u \notin trouble => AddAt(call[k], inbound))
      BY <2>2 DEF AInv
    <3>. QED  BY <2>1, <2>4, <3>1, <3>2, AddAdvances, Zenon
  <2>5. CASE AlreadyExists(k)
    <3>1. /\ call[k].pc = "add" /\ u \in inbound[Head(call[k].todo)]
          /\ inbound' = inbound /\ claimed' = claimed /\ trouble' = trouble
      BY <2>5 DEF AlreadyExists
    <3>2. /\ call'[k].pc = "clean" /\ call'[k].user = u /\ call'[k].todo = call[k].todo
          /\ call'[k].want = call[k].want
      BY <1>0, <2>5, Zenon DEF AlreadyExists, CallType
    <3>3. ASSUME u \notin trouble
          PROVE  Fresh(call[k])
      BY <2>2, <3>1, <3>3, SecondIs, Zenon DEF AddAt
    <3>4. ASSUME u \notin trouble
          PROVE  Fresh(call'[k])
      BY <3>2, <3>3, <3>4, SameTodo, ZenonT(40)
    <3>. QED  BY <2>1, <3>1, <3>2, <3>4, Zenon DEF AddAt
  <2>6. CASE StillExists(k)
    <3>1. /\ call[k].pc = "readd" /\ u \in inbound[Head(call[k].todo)] /\ trouble' = trouble
          /\ AddReturns(k, FALSE)
      BY <2>6, ZenonT(40) DEF StillExists
    <3>2. u \in trouble
      BY <1>0, <2>2, <3>1, TodoIs, ZenonT(40) DEF AddAt
    <3>. QED  BY <2>3, <3>1, <3>2
  <2>7. CASE AddFails(k)
    <3>1. u \in trouble' /\ AddReturns(k, FALSE)
      BY <2>7, Zenon DEF AddFails
    <3>. QED  BY <2>3, <3>1
  <2>8. ASSUME NEW t \in Tags, RemoveFromTag(k, t)
        PROVE  Own(u)
    <3>1. /\ call[k].pc \in {"clean", "remove"}
          /\ inbound' = [inbound EXCEPT ![t] = @ \ {u}]
          /\ claimed' = claimed /\ trouble' = trouble
          /\ call' = [call EXCEPT ![k].left = @ \ {t}, ![k].removed = @ \/ u \in inbound[t]]
      BY <2>8 DEF RemoveFromTag
    <3>2. PICK b : b = (call[k].removed \/ u \in inbound[t])
      OBVIOUS
    <3>3. call' = [call EXCEPT ![k] = [call[k] EXCEPT !.left = @ \ {t}, !.removed = b]]
      BY <1>0, <3>1, <3>2, ZenonT(40) DEF CallType
    <3>4. /\ call'[k].pc = call[k].pc /\ call'[k].user = u /\ call'[k].todo = call[k].todo
          /\ call'[k].want = call[k].want /\ call'[k].removed = b
      BY <1>0, <3>3 DEF CallType
    <3>5. ASSUME u \notin trouble, call[k].pc = "clean"
          PROVE  Fresh(call'[k]) /\ (call'[k].removed \/ u \in inbound'[Head(call'[k].todo)])
      <4>1. Fresh(call[k]) /\ (call[k].removed \/ u \in inbound[Head(call[k].todo)])
        BY <2>2, <3>5 DEF AddAt
      <4>2. Fresh(call'[k])
        BY <3>4, <4>1, SameTodo, Zenon
      <4>3. Head(call[k].todo) \in Tags
        BY <1>0, <3>5, TodoIs
      <4>4. CASE Head(call[k].todo) = t
        <5>1. call[k].removed \/ u \in inbound[t]
          BY <4>1, <4>4
        <5>2. call'[k].removed
          BY <3>2, <3>4, <5>1, Zenon
        <5>. QED  BY <4>2, <5>2, Zenon
      <4>5. CASE Head(call[k].todo) # t
        <5>1. inbound'[Head(call[k].todo)] = inbound[Head(call[k].todo)]
          BY <1>0, <3>1, <4>3, <4>5
        <5>2. call[k].removed => call'[k].removed
          BY <3>2, <3>4, Zenon
        <5>3. Head(call'[k].todo) = Head(call[k].todo)
          BY <3>4, ZenonT(40)
        <5>. QED  BY <4>1, <4>2, <5>1, <5>2, <5>3, Zenon
      <4>. QED  BY <4>4, <4>5, ZenonT(40)
    <3>. QED  BY <2>1, <3>1, <3>4, <3>5, Zenon DEF AddAt
  <2>9. ASSUME NEW t \in Tags, RemoveTagFails(k, t)
        PROVE  Own(u)
    <3>1. u \in trouble' /\ claimed' = claimed
      BY <2>9 DEF RemoveTagFails
    <3>. QED  BY <2>1, <3>1
  <2>10. CASE CleanReturns(k)
    <3>1. /\ call[k].pc = "clean" /\ call[k].left = {} /\ inbound' = inbound /\ trouble' = trouble
          /\ call[k].removed => call' = [call EXCEPT ![k].pc = "readd"] /\ claimed' = claimed
          /\ ~call[k].removed => AddReturns(k, FALSE)
      BY <2>10, Zenon DEF CleanReturns
    <3>2. ASSUME u \notin trouble
          PROVE  (\A t \in Tags : u \notin inbound[t]) /\ Fresh(call[k]) /\ call[k].removed
      <4>1. \A t \in Tags : u \notin inbound[t]
        BY <2>2, <3>1, <3>2 DEF LeftAt
      <4>2. Fresh(call[k]) /\ (call[k].removed \/ u \in inbound[Head(call[k].todo)])
        BY <2>2, <3>1, <3>2 DEF AddAt
      <4>3. Head(call[k].todo) \in Tags
        BY <1>0, <3>1, TodoIs
      <4>. QED  BY <4>1, <4>2, <4>3, Zenon
    <3>3. CASE call[k].removed
      <4>1. call' = [call EXCEPT ![k].pc = "readd"] /\ claimed' = claimed
        BY <3>1, <3>3, Zenon
      <4>2. /\ call'[k].pc = "readd" /\ call'[k].user = u /\ call'[k].todo = call[k].todo
            /\ call'[k].want = call[k].want
        BY <1>0, <4>1, Zenon DEF CallType
      <4>3. Fresh(call[k]) => Fresh(call'[k])
        BY <4>2, SameTodo
      <4>4. u \notin trouble => AddAt(call'[k], inbound')
        BY <3>1, <3>2, <4>2, <4>3 DEF AddAt
      <4>. QED  BY <2>1, <3>1, <4>1, <4>2, <4>4
    <3>4. CASE ~call[k].removed
      <4>1. u \in trouble
        BY <3>2, <3>4, Zenon
      <4>2. AddReturns(k, FALSE)
        BY <3>1, <3>4, Zenon
      <4>. QED  BY <2>3, <3>1, <4>1, <4>2
    <3>. QED  BY <3>3, <3>4, Zenon
  <2>11. CASE RemoveReturns(k)
    <3>1. /\ call[k].pc = "remove" /\ call[k].left = {} /\ inbound' = inbound
          /\ claimed' = claimed /\ trouble' = trouble
          /\ call' = [call EXCEPT ![k] = NoCall(u)]
      BY <2>11, Zenon DEF RemoveReturns
    <3>2. call'[k] = NoCall(u)
      BY <1>0, <3>1, Zenon
    <3>3. call'[k].pc = "idle"
      BY <3>2, SMTT(30) DEF NoCall
    <3>4. u \notin trouble => Paired(u, inbound')
      BY <2>2, <3>1, NowherePaired, ZenonT(40) DEF LeftAt
    <3>. QED  BY <2>1, <3>1, <3>3, <3>4, ZenonT(40) DEF AddAt
  <2>. QED
    BY <1>2, <2>4, <2>5, <2>6, <2>7, <2>8, <2>9, <2>10, <2>11, ZenonT(40) DEF CallerStep
<1>. HIDE DEF Own
<1>. QED  BY <1>1, <1>2, Zenon

LEMMA InitA ==
    ASSUME XrayInit
    PROVE  AInv
<1>1. XInv
  BY InitX
<1>2. \A k \in Callers : call[k].pc = "idle"
  <2>1. \A k \in Callers : \E u \in Users : call[k] = NoCall(u)
    BY DEF XrayInit
  <2>2. \A u : NoCall(u).pc = "idle"
    BY DEF NoCall
  <2>. QED  BY <2>1, <2>2, Zenon
<1>3. \A u \in Users : \A t \in Tags : u \notin inbound[t]
  BY DEF XrayInit
<1>4. PairedInv
  BY <1>3, NowherePaired, Zenon DEF PairedInv
<1>. QED  BY <1>1, <1>2, <1>4 DEF AInv, AddInv, AddAt, ClaimInv, XrayInit

LEMMA StepA ==
    ASSUME OneInbound, AInv, [XrayNext]_xrayVars
    PROVE  AInv'
<1>1. XInv'
  BY StepX, ZenonT(40) DEF AInv
<1>2. CASE UNCHANGED xrayVars
  BY <1>1, <1>2 DEF xrayVars, AInv, PairedInv, AddInv, ClaimInv, Busy
<1>3. ASSUME NEW k \in Callers, CallerStep(k)
      PROVE  AInv'
  <2>0. \A j \in Callers : call[j].user \in Users /\ call'[j].user \in Users
    BY <1>1, Zenon DEF AInv, XInv, XrayTypeOK
  <2>1. /\ \A j \in Callers \ {k} : call'[j] = call[j]
        /\ \A u \in Users \ {call'[k].user} :
              /\ u \in trouble' <=> u \in trouble
              /\ claimed'[u] = claimed[u]
              /\ \A t \in Tags : u \in inbound'[t] <=> u \in inbound[t]
              /\ Busy(u)' <=> Busy(u)
        /\ \A j \in Callers \ {k} :
              call[j].pc # "idle" /\ call[j].user = call'[k].user => call[j].user \in trouble'
    BY <1>3, Frame, Zenon DEF AInv, XInv
  <2>2. /\ call'[k].user \notin trouble' =>
              /\ AddAt(call'[k], inbound')
              /\ call'[k].pc = "idle" => Paired(call'[k].user, inbound')
        /\ claimed'[call'[k].user] # {} =>
              /\ call'[k].user \notin trouble' /\ call'[k].pc = "idle"
              /\ \A t \in claimed'[call'[k].user] : call'[k].user \in inbound'[t]
    BY <1>3, OwnAdd, ZenonT(40)
  <2>3. ASSUME NEW u \in Users \ {call'[k].user}, Paired(u, inbound)
        PROVE  Paired(u, inbound')
    BY <2>1, <2>3, TagForAssumption, MirrorAssumption DEF Paired
  <2>4. PairedInv'
    <3>. SUFFICES ASSUME NEW u \in Users \ trouble', ~Busy(u)'
                  PROVE  Paired(u, inbound')
      BY Zenon DEF PairedInv
    <3>1. CASE u = call'[k].user
      BY <2>2, <3>1, Zenon DEF Busy
    <3>2. CASE u # call'[k].user
      BY <2>1, <2>3, <3>2, Zenon DEF AInv, PairedInv
    <3>. QED  BY <3>1, <3>2
  <2>5. AddInv'
    <3>. SUFFICES ASSUME NEW j \in Callers, call'[j].user \notin trouble'
                  PROVE  AddAt(call'[j], inbound')
      BY Zenon DEF AddInv
    <3>1. CASE j = k
      BY <2>2, <3>1
    <3>2. CASE j # k /\ call[j].pc = "idle"
      BY <2>1, <3>2, ZenonT(40) DEF AddAt
    <3>3. CASE j # k /\ call[j].pc # "idle"
      <4>1. call'[j] = call[j] /\ call[j].user \in Users \ {call'[k].user}
        BY <2>0, <2>1, <3>3, Zenon
      <4>2. AddAt(call[j], inbound)
        BY <2>1, <4>1, Zenon DEF AInv, AddInv
      <4>3. call[j].pc \in {"add", "clean", "readd"} =>
               Head(call[j].todo) \in Tags /\ call[j].want \subseteq Tags
        BY TodoIs DEF AInv, XInv
      <4>4. MirrorTag \in Tags \/ ~Second(call[j])
        BY DEF Second
      <4>5. call[j].pc = "add" => AddAt(call'[j], inbound')
        BY <2>1, <2>3, <4>1, <4>2, <4>3, <4>4, Zenon DEF AddAt
      <4>6. call[j].pc = "clean" => AddAt(call'[j], inbound')
        <5>. SUFFICES ASSUME call[j].pc = "clean"
                      PROVE  /\ Fresh(call[j])
                             /\ call[j].removed \/ call[j].user \in inbound'[Head(call[j].todo)]
          BY <4>1, Zenon DEF AddAt
        <5>1. Fresh(call[j]) /\ (call[j].removed \/ call[j].user \in inbound[Head(call[j].todo)])
          BY <4>2, ZenonT(40) DEF AddAt
        <5>2. call[j].user \in inbound[Head(call[j].todo)]
                => call[j].user \in inbound'[Head(call[j].todo)]
          BY <2>1, <4>1, <4>3
        <5>. QED  BY <5>1, <5>2, Zenon
      <4>7. call[j].pc = "readd" => AddAt(call'[j], inbound')
        BY <2>1, <4>1, <4>2, ZenonT(40) DEF AddAt
      <4>8. call[j].pc \notin {"add", "clean", "readd"} => AddAt(call'[j], inbound')
        BY <4>1, ZenonT(40) DEF AddAt
      <4>. QED  BY <4>5, <4>6, <4>7, <4>8, Zenon
    <3>. QED  BY <3>1, <3>2, <3>3
  <2>6. ClaimInv'
    <3>. SUFFICES ASSUME NEW u \in Users, claimed'[u] # {}
                  PROVE  u \notin trouble' /\ ~Busy(u)' /\ \A t \in claimed'[u] : u \in inbound'[t]
      BY Zenon DEF ClaimInv
    <3>1. CASE u = call'[k].user
      <4>1. ~Busy(u)'
        BY <2>1, <2>2, <3>1, SMTT(30) DEF Busy
      <4>. QED  BY <2>2, <3>1, <4>1, Zenon
    <3>2. CASE u # call'[k].user
      <4>1. claimed[u] \subseteq Tags
        BY DEF AInv, XInv, XrayTypeOK
      <4>. QED  BY <2>1, <3>2, <4>1, Zenon DEF AInv, ClaimInv
    <3>. QED  BY <3>1, <3>2
  <2>. QED  BY <1>1, <2>4, <2>5, <2>6, Zenon DEF AInv
<1>. QED  BY <1>2, <1>3 DEF XrayNext, CallerStep

(* AddUser leaves the user in its transport's inbound and in the mirror,   *)
(* whether or not it was there before, provided no other call for the user *)
(* overlapped and none failed, where all transports share one inbound or   *)
(* there is no mirror.                                                     *)
THEOREM AddUserCanBeRepeated ==
    ASSUME OneInbound
    PROVE  XraySpec => []AddUserIsIdempotent
<1>1. XrayInit => AInv
  BY InitA
<1>2. AInv /\ [XrayNext]_xrayVars => AInv'
  BY StepA
<1>3. AInv => AddUserIsIdempotent
  BY DEF AInv, ClaimInv, AddUserIsIdempotent
<1>. QED  BY <1>1, <1>2, <1>3, PTL DEF XraySpec

=============================================================================
