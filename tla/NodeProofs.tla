----------------------------- MODULE NodeProofs -----------------------------
(***************************************************************************)
(* The services of a node in one model (module MCServices).  They share no *)
(* state, so a behaviour of the node is a behaviour of each of them, and   *)
(* what is proved of a service alone holds of it in the node.              *)
(***************************************************************************)
EXTENDS MCServices, TrafficProofs, ServiceProofs

(* A step of the node is a step of one service and leaves the others       *)
(* alone (the loops of the agent's services, and the proxy process).       *)
THEOREM ServicesStayApart ==
    MCSpec => TrafficSpec /\ StatsSpec /\ MuxSpec /\ LifeSpec /\ MeshSpec /\ XraySpec
<1>1. MCInit => TrafficInit /\ StatsInit /\ MuxInit /\ LifeInit /\ MeshInit /\ XrayInit
  BY Zenon DEF MCInit
<1>2. [MCNext]_vars => [TrafficNext]_<<proxyVars, trafficVars>>
  BY Zenon DEF MCNext, EntryTrafficStep, StatsStep, MuxStep, LifeStep, MeshStep, XrayStep, vars,
               entryVars
<1>3. [MCNext]_vars => [StatsNext]_statsVars
  BY Zenon DEF MCNext, EntryTrafficStep, StatsStep, MuxStep, LifeStep, MeshStep, XrayStep, vars
<1>4. [MCNext]_vars => [MuxNext]_muxVars
  BY Zenon DEF MCNext, EntryTrafficStep, StatsStep, MuxStep, LifeStep, MeshStep, XrayStep, vars
<1>5. [MCNext]_vars => [LifeNext]_lifeVars
  BY Zenon DEF MCNext, EntryTrafficStep, StatsStep, MuxStep, LifeStep, MeshStep, XrayStep, vars
<1>6. [MCNext]_vars => [MeshNext]_meshVars
  BY Zenon DEF MCNext, EntryTrafficStep, StatsStep, MuxStep, LifeStep, MeshStep, XrayStep, vars
<1>7. [MCNext]_vars => [XrayNext]_xrayVars
  BY Zenon DEF MCNext, EntryTrafficStep, StatsStep, MuxStep, LifeStep, MeshStep, XrayStep, vars
<1>. QED
  BY <1>1, <1>2, <1>3, <1>4, <1>5, <1>6, <1>7, PTL
     DEF MCSpec, TrafficSpec, StatsSpec, MuxSpec, LifeSpec, MeshSpec, XraySpec

(* Type correctness of every service of the node.                          *)
THEOREM ServicesTypes == MCSpec => []ServicesTypeOK
<1>1. /\ TrafficTypeOK /\ StatsTypeOK /\ MuxTypeOK /\ LifeTypeOK /\ MeshTypeOK /\ XrayTypeOK
      => ServicesTypeOK
  BY Zenon DEF ServicesTypeOK
<1>. QED
  BY <1>1, ServicesStayApart, TrafficTypes, StatsTypes, MuxTypes, LifeTypes, MeshTypes, XrayTypes, PTL
=============================================================================
