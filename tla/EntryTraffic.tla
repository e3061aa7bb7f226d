---------------------------- MODULE EntryTraffic ----------------------------
(***************************************************************************)
(* The data plane of the entry proxy and the agent's metering of it.  A    *)
(* client connection is authenticated by the VLESS service, picks its      *)
(* backends under the proxy's lock, dials them without it, and is entered  *)
(* in the table of active connections only when a dial succeeded; the      *)
(* relay then counts its bytes.  The agent's traffic.Publisher reads that  *)
(* table at every tick and publishes what each connection carried since    *)
(* the tick before.  Connection IDs restart at 1 with the proxy, and the   *)
(* publisher's memory of the last tick is lost with the agent.             *)
(*                                                                         *)
(* Upload and download are counted alike; one counter stands for both.     *)
(* A packet connection (handlePacket) takes the same steps.  The control   *)
(* calls come from the agent's executor; here they may come at any time.   *)
(***************************************************************************)
EXTENDS EntryProxy, Sequences, FiniteSets, Functions

CONSTANTS
    Sessions,       \* client connections that can be open at once
    MaxConns,       \* bound on the connections one proxy process registers
    MaxBytes,       \* bound on the bytes of one connection
    CloseWrite      \* whether the relayed connections can be half-closed

ASSUME SessionsAssumption == IsFiniteSet(Sessions) /\ IsFiniteSet(Backends)
ASSUME BoundsAssumption == MaxConns \in Nat /\ MaxBytes \in Nat

VARIABLES
    conns,          \* per session: where its handler is
    health,         \* per backend: dial failures and cooldown
    nextID,         \* the proxy's connection counter
    lastConn,       \* publisher: bytes per connection ID at the last tick
    tick,           \* publisher: the tick in progress
    ended,          \* per backend: bytes of the connections that have ended
    billed,         \* per backend: bytes that were published
    routingStats    \* per backend: connections, as the stats bucket has it

meterVars == <<lastConn, tick, ended, billed, routingStats>>
trafficVars == <<conns, health, nextID, meterVars>>

backendFailThreshold == 2
Legs == {"up", "down"}
Healthy == [fails |-> 0, cooling |-> FALSE]
NoBytes == [b \in Backends |-> 0]

Closed == [pc |-> "closed"]

SessionType ==
    {Closed} \cup [pc: {"admitted"}, client: Clients]
    \cup [pc: {"dialing"}, cands: Seq(Backends), left: Seq(Backends)]
    \cup [pc: {"dialed"}, backend: Backends]
    \cup [pc: {"relaying"}, backend: Backends, id: 1..MaxConns,
          bytes: 0..MaxBytes, legs: SUBSET Legs, shut: BOOLEAN]

TrafficTypeOK ==
    /\ ProxyTypeOK
    /\ \A s \in Sessions : conns[s] \in SessionType
    /\ health \in [Backends -> [fails: 0..backendFailThreshold, cooling: BOOLEAN]]
    /\ nextID \in 0..MaxConns
    /\ DOMAIN lastConn \subseteq 1..MaxConns
    /\ \A i \in DOMAIN lastConn : lastConn[i] \in 0..MaxBytes
    /\ \A b \in Backends :
           {tick.deltas[b], ended[b], billed[b], routingStats[b]} \subseteq Nat

TrafficInit ==
    /\ ProxyInit
    /\ conns = [s \in Sessions |-> Closed]
    /\ health = [b \in Backends |-> Healthy]
    /\ nextID = 0
    /\ lastConn = <<>>
    /\ tick = [pc |-> "idle", deltas |-> NoBytes]
    /\ ended = NoBytes
    /\ billed = NoBytes
    /\ routingStats = NoBytes

Active == {s \in Sessions : conns[s].pc = "relaying"}

-----------------------------------------------------------------------------

(* A connection's life.                                                    *)

Moves(s, to) == conns' = [conns EXCEPT ![s] = to]

(* NewConnection: a known user reaches handleConn, any other is refused.   *)
Admitted(s, u) ==
    /\ conns[s] = Closed
    /\ u \in proxyUsers
    /\ Moves(s, [pc |-> "admitted", client |-> u])
    /\ UNCHANGED <<proxyVars, health, nextID, meterVars>>

Orders(S) == Bijection(1..Cardinality(S), S)

(* The order of connBackends: cooling backends last.  Within each part the *)
(* order is the hash of backend, client and destination: any.              *)
Preferred(order) ==
    \A i, j \in DOMAIN order :
        ~health[order[i]].cooling /\ health[order[j]].cooling => i < j

PicksBackends(s) ==
    /\ conns[s].pc = "admitted"
    /\ LET cands == ConnBackends(conns[s].client)
       IN \/ cands = {} /\ Moves(s, Closed)
          \/ /\ cands # {}
             /\ \E order \in {o \in Orders(cands) : Preferred(o)} :
                    Moves(s, [pc |-> "dialing", cands |-> order, left |-> order])
    /\ UNCHANGED <<proxyVars, health, nextID, meterVars>>

markBackendSuccess(b) == health' = [health EXCEPT ![b] = Healthy]

(* fails is only compared with the threshold: it is kept up to there.      *)
markBackendFailure(b) ==
    LET fails == IF health[b].fails < backendFailThreshold
                 THEN health[b].fails + 1 ELSE backendFailThreshold
    IN health' = [health EXCEPT ![b] =
           [fails |-> fails, cooling |-> @.cooling \/ fails = backendFailThreshold]]

DialWorks(s) ==
    /\ conns[s].pc = "dialing"
    /\ markBackendSuccess(Head(conns[s].left))
    /\ Moves(s, [pc |-> "dialed", backend |-> Head(conns[s].left)])
    /\ UNCHANGED <<proxyVars, nextID, meterVars>>

(* The next candidate, and after the last one the first again.             *)
DialFails(s) ==
    /\ conns[s].pc = "dialing"
    /\ markBackendFailure(Head(conns[s].left))
    /\ Moves(s, [conns[s] EXCEPT !.left = IF Len(@) = 1 THEN conns[s].cands ELSE Tail(@)])
    /\ UNCHANGED <<proxyVars, nextID, meterVars>>

(* The deadline is looked at before every dial.                            *)
DialDeadline(s) ==
    /\ conns[s].pc = "dialing"
    /\ Moves(s, Closed)
    /\ UNCHANGED <<proxyVars, health, nextID, meterVars>>

(* The calls between the dial and the table fail only for a flow that the  *)
(* proxy never asks for.                                                   *)
Registers(s) ==
    /\ conns[s].pc = "dialed"
    /\ nextID < MaxConns
    /\ nextID' = nextID + 1
    /\ Moves(s, [pc |-> "relaying", backend |-> conns[s].backend, id |-> nextID + 1,
                 bytes |-> 0, legs |-> Legs, shut |-> FALSE])
    /\ UNCHANGED <<proxyVars, health, meterVars>>

Carries(s) ==
    /\ s \in Active
    /\ ~conns[s].shut /\ conns[s].legs # {}
    /\ conns[s].bytes < MaxBytes
    /\ Moves(s, [conns[s] EXCEPT !.bytes = @ + 1])
    /\ UNCHANGED <<proxyVars, health, nextID, meterVars>>

(* One direction of relay ends.  Its destination is half-closed if it can  *)
(* be, else both connections are closed, which ends the other direction.   *)
LegEnds(s, leg) ==
    /\ s \in Active
    /\ leg \in conns[s].legs
    /\ Moves(s, [conns[s] EXCEPT !.legs = @ \ {leg}, !.shut = @ \/ ~CloseWrite])
    /\ UNCHANGED <<proxyVars, health, nextID, meterVars>>

(* Both directions ended: handleConn leaves the table of active ones.      *)
Unregisters(s) ==
    /\ s \in Active
    /\ conns[s].legs = {}
    /\ ended' = [ended EXCEPT ![conns[s].backend] = @ + conns[s].bytes]
    /\ Moves(s, Closed)
    /\ UNCHANGED <<proxyVars, health, nextID, lastConn, tick, billed, routingStats>>

(* backendUnhealthyCooldown is over; the failures stay counted.            *)
CoolsDown(b) ==
    /\ health[b].cooling
    /\ health' = [health EXCEPT ![b].cooling = FALSE]
    /\ UNCHANGED <<proxyVars, conns, nextID, meterVars>>

-----------------------------------------------------------------------------

(* traffic.Publisher.                                                      *)

(* Faulty variant: a connection seen for the first time counts in full.    *)
DeltaFromZero(s) ==
    LET c == conns[s]
    IN IF c.id \in DOMAIN lastConn THEN c.bytes - lastConn[c.id] ELSE c.bytes

(* What connection s has carried since the last tick.  A connection that   *)
(* was not there contributes nothing, nor does a counter that went back.   *)
Delta(s) ==
    LET c == conns[s]
    IN IF c.id \in DOMAIN lastConn /\ c.bytes >= lastConn[c.id]
       THEN c.bytes - lastConn[c.id]
       ELSE 0

ActiveOn(b) == {s \in Active : conns[s].backend = b}
BytesOn(b) == SumFunction([s \in ActiveOn(b) |-> conns[s].bytes])
DeltaOn(b) == SumFunction([s \in ActiveOn(b) |-> Delta(s)])

(* The first half of tick: lastConn is replaced before anything is sent.   *)
TickReads ==
    /\ tick.pc = "idle"
    /\ lastConn' = [i \in {conns[s].id : s \in Active} |->
                        conns[CHOOSE s \in Active : conns[s].id = i].bytes]
    /\ tick' = IF Active = {} THEN tick
               ELSE [pc |-> "publishing",
                     deltas |-> [b \in Backends |-> DeltaOn(b)]]
    /\ UNCHANGED <<proxyVars, conns, health, nextID, ended, billed, routingStats>>

TickOver == tick' = [pc |-> "idle", deltas |-> NoBytes]

(* A publish that times out after the message got through ends as this.    *)
TickPublishes ==
    /\ tick.pc = "publishing"
    /\ billed' = [b \in Backends |-> billed[b] + tick.deltas[b]]
    /\ TickOver
    /\ UNCHANGED <<proxyVars, conns, health, nextID, lastConn, ended, routingStats>>

(* The error is logged and the deltas are gone.                            *)
TickPublishFails ==
    /\ "publish" \in Faults
    /\ tick.pc = "publishing"
    /\ TickOver
    /\ UNCHANGED <<proxyVars, conns, health, nextID, lastConn, ended, billed, routingStats>>

PublisherRestarts ==
    /\ "crash" \in Faults
    /\ TickOver
    /\ lastConn' = <<>>
    /\ UNCHANGED <<proxyVars, conns, health, nextID, ended, billed, routingStats>>

(* StatsReporter: how many connections each backend has now.               *)
StatsTick ==
    /\ routingStats' = [b \in Backends |-> Cardinality(ActiveOn(b))]
    /\ UNCHANGED <<proxyVars, conns, health, nextID, lastConn, tick, ended, billed>>

-----------------------------------------------------------------------------

(* Every connection dies with the proxy and the counter starts again.      *)
ProxyProcessRestarts ==
    /\ ProxyRestarts
    /\ ended' = [b \in Backends |-> ended[b] + BytesOn(b)]
    /\ conns' = [s \in Sessions |-> Closed]
    /\ health' = [b \in Backends |-> Healthy]
    /\ nextID' = 0
    /\ UNCHANGED <<lastConn, tick, billed, routingStats>>

(* The control calls leave connections alone.                              *)
ControlCall ==
    /\ \/ \E u \in Clients : AddUser(u) \/ RemoveUser(u)
       \/ \E u \in Clients, bs \in SUBSET Backends : SetUserBackends(u, bs)
       \/ \E u \in Clients, b \in Backends : SelectBackend(u, b)
       \/ \E bs \in SUBSET Backends : SetBackends(bs)
    /\ UNCHANGED trafficVars

HandlerStep(s) ==
    \/ \E u \in Clients : Admitted(s, u)
    \/ PicksBackends(s)
    \/ DialWorks(s) \/ DialFails(s) \/ DialDeadline(s)
    \/ Registers(s)
    \/ Carries(s)
    \/ \E leg \in Legs : LegEnds(s, leg)
    \/ Unregisters(s)

PublisherStep ==
    TickReads \/ TickPublishes \/ TickPublishFails \/ PublisherRestarts \/ StatsTick

TrafficNext ==
    \/ ControlCall
    \/ \E s \in Sessions : HandlerStep(s)
    \/ \E b \in Backends : CoolsDown(b)
    \/ PublisherStep
    \/ ProxyProcessRestarts

TrafficSpec == TrafficInit /\ [][TrafficNext]_<<proxyVars, trafficVars>>

-----------------------------------------------------------------------------

(* Bytes moved to and from backend b by any connection of any proxy.       *)
Carried == [b \in Backends |-> ended[b] + BytesOn(b)]

Meter == INSTANCE TrafficMeter WITH Keys <- Backends, carried <- Carried, billed <- billed

(* Per backend, the bytes that traffic.Publisher publishes were carried    *)
(* and are published once, over lost and late publishes, connections that  *)
(* end between ticks, IDs used again by a restarted proxy and a publisher  *)
(* that starts in the middle of a connection (tick, publisher.go:100).     *)
EntryTrafficMetered == Meter!Spec

(* A direction that has ended leaves the other one flowing (relay,         *)
(* proxy.go:644).  It holds of connections that can be half-closed.        *)
OtherLegKeepsFlowing == \A s \in Active : conns[s].legs # {} => ~conns[s].shut
=============================================================================
