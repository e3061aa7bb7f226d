----------------------------- MODULE MCServices -----------------------------
(***************************************************************************)
(* The services of a node that share no state with each other, in one      *)
(* model: a behaviour is one of them, chosen at the start.  The traffic of *)
(* the entry proxy and the mux session are divided further, each part with *)
(* some of what the environment may do:                                    *)
(*   routing    control calls and dial failures, one connection            *)
(*   metering   bytes, ticks and restarts, two connections                 *)
(*   frames     mux frames of both directions                              *)
(*   stray      frames for streams the session does not know               *)
(*   broken     the mux connection fails                                   *)
(* Only steps of the environment are left out of a part, never ones that   *)
(* fairness asks for.                                                      *)
(***************************************************************************)
EXTENDS EntryTraffic, BackendTraffic, MuxSession, NodeLifecycle, WgMesh, XrayInbounds

CONSTANTS p1, u1, b1, b2, c1, c2, m1, m2

VARIABLE service

Services ==
    {"routing", "metering", "stats", "frames", "stray", "broken", "life", "mesh", "xray"}

MCTagFor == [x \in Transports |-> CHOOSE t \in Tags : t # MirrorTag]

MCMeshes ==
    <<[addr |-> 1, port |-> 1, peers |-> {"p1", "unparsed"}],
      [addr |-> 2, port |-> 2, peers |-> {"p1", "p2"}]>>

entryVars == <<store, proxyVars, trafficVars>>
vars == <<entryVars, statsVars, muxVars, lifeVars, meshVars, xrayVars, service>>

MCInit ==
    /\ service \in Services
    /\ StoreInit /\ TrafficInit
    /\ StatsInit
    /\ MuxInit
    /\ LifeInit /\ (service # "life" => role = "backend")
    /\ MeshInit
    /\ XrayInit

-----------------------------------------------------------------------------

(* The entry proxy's connections and their metering.                       *)

RoutingPart ==
    /\ epoch' = epoch /\ tick' = tick /\ lastConn' = lastConn
    /\ \A s \in Sessions \ {c1} : conns'[s] = conns[s]
    /\ \A s \in Sessions : conns'[s].pc = "relaying" => conns'[s].bytes = 0

(* One backend per proxy process, reached at the first dial; the upload    *)
(* ends first.                                                             *)
MeteringPart ==
    LET only == {IF epoch' = 1 THEN b1 ELSE b2} IN
    /\ health' = health /\ routingStats' = routingStats
    /\ epoch' = epoch => proxyUsers \subseteq proxyUsers' /\ pool \subseteq pool'
    /\ pool' \subseteq only
    /\ \A u \in Clients : route'[u] \subseteq only
    /\ \A s \in Sessions :
         /\ conns'[s].pc = "relaying" => conns'[s].legs # {"up"}
         /\ s # c1 => \/ conns'[s].pc = "closed"
                      \/ epoch' = 1 /\ (conns'[s].pc = "relaying" => conns'[s].bytes < MaxBytes)
         /\ conns[s].pc = "dialing" => conns'[s].pc # "closed" \/ epoch' # epoch

EntryTrafficStep ==
    /\ service \in {"routing", "metering"}
    /\ TrafficNext
    /\ service = "routing" => RoutingPart
    /\ service = "metering" => MeteringPart
    /\ UNCHANGED <<store, statsVars, muxVars, lifeVars, meshVars, xrayVars, service>>

(* The mux session.                                                        *)

NoneWrite(kinds, ids) == \A i \in ids, k \in kinds : writing'[<<i, k>>] = "idle"

MuxPart ==
    /\ service # "broken" => broken' = broken
    /\ service # "stray" => NoneWrite({"stray"}, Streams)
    /\ service = "stray" => NoneWrite({"down"}, Streams) /\ NoneWrite({"stray"}, {m2})
    /\ service = "broken" => NoneWrite({"down"}, {m2})

MuxStep ==
    /\ service \in {"frames", "stray", "broken"}
    /\ MuxNext
    /\ MuxPart
    /\ UNCHANGED <<entryVars, statsVars, lifeVars, meshVars, xrayVars, service>>

(* The services that are modelled whole.                                   *)

StatsStep ==
    /\ service = "stats"
    /\ StatsNext
    /\ UNCHANGED <<entryVars, muxVars, lifeVars, meshVars, xrayVars, service>>

LifeStep ==
    /\ service = "life"
    /\ LifeNext
    /\ UNCHANGED <<entryVars, statsVars, muxVars, meshVars, xrayVars, service>>

MeshStep ==
    /\ service = "mesh"
    /\ MeshNext
    /\ UNCHANGED <<entryVars, statsVars, muxVars, lifeVars, xrayVars, service>>

XrayStep ==
    /\ service = "xray"
    /\ XrayNext
    /\ UNCHANGED <<entryVars, statsVars, muxVars, lifeVars, meshVars, service>>

MCNext == EntryTrafficStep \/ StatsStep \/ MuxStep \/ LifeStep \/ MeshStep \/ XrayStep

-----------------------------------------------------------------------------

(* Fairness.  Goroutines and the supervisor run, and what the control      *)
(* plane has to send arrives unless it is lost.  A watch may end at any    *)
(* time, but not always before its first update is handled.                *)

Muxing == service \in {"frames", "stray", "broken"}

MuxFairness ==
    /\ \A i \in Streams : WF_muxVars(Muxing /\ StreamProceeds(i))
    /\ \A w \in Writers : WF_muxVars(Muxing /\ WriterProceeds(w))
    /\ WF_muxVars(Muxing /\ RecvProceeds)
    /\ WF_muxVars(Muxing /\ Cleanup)

LifeFairness ==
    /\ WF_lifeVars(service = "life" /\ BootWorks)
    /\ WF_lifeVars(service = "life" /\ Asking)
    /\ WF_lifeVars(service = "life" /\ AwaitEnds)
    /\ WF_lifeVars(service = "life" /\ SnapshotArrives)
    /\ WF_lifeVars(service = "life" /\ BackendsAnnounced)
    /\ WF_lifeVars(service = "life" /\ Resync)

MeshFairness ==
    /\ WF_meshVars(service = "mesh" /\ WatchStarts)
    /\ SF_meshVars(service = "mesh" /\ HandlePeerUpdate)
    /\ \A a \in Appliers : WF_meshVars(service = "mesh" /\ ApplyStep(a))

MCSpec == MCInit /\ [][MCNext]_vars /\ MuxFairness /\ LifeFairness /\ MeshFairness

(* Every service keeps its types: phases, tables and counters stay within  *)
(* what the structs they stand for can hold.                               *)
ServicesTypeOK ==
    TrafficTypeOK /\ StatsTypeOK /\ MuxTypeOK /\ LifeTypeOK /\ MeshTypeOK /\ XrayTypeOK
=============================================================================
