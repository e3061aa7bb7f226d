--------------------------- MODULE BackendTraffic ---------------------------
(***************************************************************************)
(* traffic.BackendPublisher of a backend node.  Xray counts the bytes of   *)
(* every user and zeroes the counters as it answers a stats query, so an   *)
(* answer holds what was carried since the one before.  A tick turns it    *)
(* into three messages, in this order: the set of active clients in the    *)
(* live bucket (best effort), the node's total, and the users' deltas.     *)
(* Uplink and downlink are summed; one counter stands for both.            *)
(***************************************************************************)
EXTENDS Naturals, FiniteSets, Functions

CONSTANTS
    StatUsers,      \* client IDs
    Probes,         \* the users whose traffic is left out (ProbeClientIDs)
    UserSubject,    \* whether the subject of the users' deltas is configured
    StatsFaults,    \* the failures that may happen
    MaxServed       \* bound on the bytes of one user

ASSUME StatUsersAssumption == IsFiniteSet(StatUsers)
ASSUME ProbesAssumption == Probes \subseteq StatUsers
ASSUME StatsFaultsAssumption ==
    StatsFaults \subseteq {"xray", "answer", "publish", "live", "crash"}

VARIABLES
    counter,        \* Xray: bytes per user since the counters were zeroed
    round,          \* the publisher's tick: what is left to send, and deltas
    live,           \* the live bucket: clients of the last tick
    served,         \* per user: bytes Xray has ever carried
    userBilled,     \* per user: bytes published
    nodeBilled      \* bytes published for the node

statsVars == <<counter, round, live, served, userBilled, nodeBilled>>

NoTraffic == [u \in StatUsers |-> 0]
Total(bytes) == SumFunctionOnSet(bytes, StatUsers \ Probes)
Idle == [pc |-> "idle", deltas |-> NoTraffic]

StatsTypeOK ==
    /\ round.pc \in {"idle", "live", "node", "users"}
    /\ \A bytes \in {counter, round.deltas, served, userBilled} :
           bytes \in [StatUsers -> Nat]
    /\ live \subseteq StatUsers \ Probes
    /\ nodeBilled \in Nat

StatsInit ==
    /\ counter = NoTraffic
    /\ round = Idle
    /\ live = {}
    /\ served = NoTraffic
    /\ userBilled = NoTraffic
    /\ nodeBilled = 0

-----------------------------------------------------------------------------

XrayCarries(u) ==
    /\ served[u] < MaxServed
    /\ served' = [served EXCEPT ![u] = @ + 1]
    /\ counter' = [counter EXCEPT ![u] = @ + 1]
    /\ UNCHANGED <<round, live, userBilled, nodeBilled>>

XrayLosesCounters ==
    /\ "xray" \in StatsFaults
    /\ counter' = NoTraffic
    /\ UNCHANGED <<round, live, served, userBilled, nodeBilled>>

(* Faulty variant: the counters are read without reset.                    *)
QueryKeepsCounters ==
    /\ round.pc = "idle"
    /\ round' = [pc |-> "live", deltas |-> counter]
    /\ UNCHANGED <<counter, live, served, userBilled, nodeBilled>>

(* QueryUserStats with reset: the read and the zeroing are one.            *)
Query ==
    /\ round.pc = "idle"
    /\ round' = [pc |-> "live", deltas |-> counter]
    /\ counter' = NoTraffic
    /\ UNCHANGED <<live, served, userBilled, nodeBilled>>

(* The counters were zeroed but the answer came too late.                  *)
QueryAnswerLost ==
    /\ "answer" \in StatsFaults
    /\ round.pc = "idle"
    /\ counter' = NoTraffic
    /\ UNCHANGED <<round, live, served, userBilled, nodeBilled>>

(* After publishLive the tick ends here if only probes had traffic.        *)
AfterLive == IF Total(round.deltas) = 0 THEN Idle ELSE [round EXCEPT !.pc = "node"]

PublishLive ==
    /\ round.pc = "live"
    /\ live' = {u \in StatUsers \ Probes : round.deltas[u] > 0}
    /\ round' = AfterLive
    /\ UNCHANGED <<counter, served, userBilled, nodeBilled>>

(* Logged only: the tick goes on.                                          *)
PublishLiveFails ==
    /\ "live" \in StatsFaults
    /\ round.pc = "live"
    /\ round' = AfterLive
    /\ UNCHANGED <<counter, live, served, userBilled, nodeBilled>>

PublishNode ==
    /\ round.pc = "node"
    /\ nodeBilled' = nodeBilled + Total(round.deltas)
    /\ round' = IF UserSubject THEN [round EXCEPT !.pc = "users"] ELSE Idle
    /\ UNCHANGED <<counter, live, served, userBilled>>

(* tick returns: neither this total nor the users' deltas are sent again,  *)
(* whether or not the message got through.                                 *)
PublishNodeFails ==
    /\ "publish" \in StatsFaults
    /\ round.pc = "node"
    /\ nodeBilled' \in {nodeBilled, nodeBilled + Total(round.deltas)}
    /\ round' = Idle
    /\ UNCHANGED <<counter, live, served, userBilled>>

PublishUsers ==
    /\ round.pc = "users"
    /\ userBilled' = [u \in StatUsers |->
           userBilled[u] + IF u \in Probes THEN 0 ELSE round.deltas[u]]
    /\ round' = Idle
    /\ UNCHANGED <<counter, live, served, nodeBilled>>

PublishUsersFails ==
    /\ "publish" \in StatsFaults
    /\ round.pc = "users"
    /\ round' = Idle
    /\ UNCHANGED <<counter, live, served, userBilled, nodeBilled>>

PublisherCrashes ==
    /\ "crash" \in StatsFaults
    /\ round.pc # "idle"
    /\ round' = Idle
    /\ UNCHANGED <<counter, live, served, userBilled, nodeBilled>>

StatsNext ==
    \/ \E u \in StatUsers : XrayCarries(u)
    \/ XrayLosesCounters
    \/ Query \/ QueryAnswerLost
    \/ PublishLive \/ PublishLiveFails
    \/ PublishNode \/ PublishNodeFails
    \/ PublishUsers \/ PublishUsersFails
    \/ PublisherCrashes

StatsSpec == StatsInit /\ [][StatsNext]_statsVars

-----------------------------------------------------------------------------

UserMeter == INSTANCE TrafficMeter WITH
    Keys <- StatUsers, carried <- served, billed <- userBilled

(* The users' deltas never add up to more than the node's total: the node  *)
(* message goes first and its failure ends the tick.                       *)
NodeCoversUsers == Total(userBilled) <= nodeBilled /\ nodeBilled <= Total(served)

(* Per user, the deltas BackendPublisher publishes were carried and are    *)
(* published at most once, whatever is lost between Xray and the control   *)
(* plane, and the node's total covers them (tick, backend_publisher.go).   *)
BackendTrafficMetered == UserMeter!Spec /\ [][NodeCoversUsers']_statsVars
=============================================================================
