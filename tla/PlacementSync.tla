---------------------------- MODULE PlacementSync ---------------------------
(***************************************************************************)
(* The command path and the full resync over the same table.  Applier.Run  *)
(* and snapshot Consumer.Run are two goroutines of cmd/agent, and neither  *)
(* takes a lock around its GetPlacement and PutPlacement: a shard, which   *)
(* is alone with its placement among the shards, is not alone with it.     *)
(***************************************************************************)
EXTENDS Applier, SnapshotConsumer

syncVars == <<store, applierVars, snapshotVars>>

SyncInit == Init /\ ConsumerInit

CommandStep ==
    /\ \/ \E m \in Messages : Publish(m) \/ Deliver(m)
       \/ \E w \in Workers : Handle(w) \/ Execute(w)
    /\ UNCHANGED snapshotVars

SnapshotStep ==
    /\ \/ \E i \in DOMAIN stream : DeliverChunk(i)
       \/ Progress
       \/ CallFails
    /\ UNCHANGED applierVars

(* The goroutines share one process: a crash, or a panic of either, ends   *)
(* both.                                                                   *)
SyncCrash == Crash /\ ConsumerRestarts /\ UNCHANGED cursor

SyncPanic == AgentRestarts /\ \E i \in DOMAIN stream : TrackSeenPanics(i)

SyncNext == CommandStep \/ SnapshotStep \/ SyncCrash \/ SyncPanic

SyncSpec == SyncInit /\ [][SyncNext]_syncVars

-----------------------------------------------------------------------------

(* A stored row is never replaced by one of an earlier version, whether    *)
(* Applier.Handle or applyItem writes it: the version checks of both are   *)
(* there to drop stale commands.                                           *)
RowsNeverGoBack ==
    [][\A p \in Placements :
         Found(store[p]) /\ Found(store'[p]) => store'[p].op >= store[p].op]_store
=============================================================================
