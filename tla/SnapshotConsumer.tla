-------------------------- MODULE SnapshotConsumer --------------------------
(***************************************************************************)
(* The full resync: internal/app/snapshot Consumer.Handle behind the       *)
(* serial JetStream consumer.  The control plane answers a snapshot        *)
(* request with chunks of placement commands; the consumer stores their    *)
(* items and, on the last chunk, prunes the placements the snapshot did    *)
(* not list, rebuilds the data plane and publishes a sync report.          *)
(*                                                                         *)
(* The server hands out the chunks in stream order the first time; a chunk *)
(* that was not acked (Nak, lost ack, expired AckWait, restart) comes back *)
(* later, when others may have been handled already.                       *)
(*                                                                         *)
(* The set of placement IDs seen so far is memory of the process: a        *)
(* restart and a prune both leave a nil map, that only the first chunk of  *)
(* another snapshot ID replaces.  The ID is optional on the wire.          *)
(***************************************************************************)
EXTENDS PlacementStore, Sequences, FiniteSets

CONSTANTS
    SnapshotIDs,
    Streams,        \* the chunk streams the control plane may send
    NoSnapshot      \* the empty ID: of no snapshot, or of a chunk without one

(* jsonv1 SnapshotChunkEvent.  A chunk of kind "foreign" names another     *)
(* node and one of kind "garbage" does not decode.                         *)
ChunkType ==
    [kind: {"chunk", "foreign", "garbage"}, snap: SnapshotIDs \cup {NoSnapshot},
     last: BOOLEAN, items: SUBSET Commands]

ASSUME StreamsAssumption ==
    \A s \in Streams :
        /\ s \in Seq(ChunkType)
        /\ \A i \in DOMAIN s : \A c, d \in s[i].items : c.pid = d.pid => c = d
ASSUME NoSnapshotAssumption == NoSnapshot \notin SnapshotIDs

VARIABLES
    stream,         \* the chunks of this node's subject, in order
    cursor,         \* first chunk not handed out yet
    open,           \* chunks handed out or not, that are not acked
    call,           \* the handler call in progress
    seenIDs, seenSnap,
    seenMade,       \* seenIDs is not the nil map
    completed,      \* the consumer has finished a snapshot since it started
    syncReports,    \* snapshots reported as fully synced
    disturbed       \* (observation) some chunk was left unacked after its
                    \* call, or the process has restarted

chunkVars == <<stream, cursor, open>>
seenVars == <<seenIDs, seenSnap, seenMade>>
outcome == <<completed, syncReports, disturbed>>
snapshotVars == <<chunkVars, call, seenVars, outcome>>
snapVars == <<store, snapshotVars>>

CallPhase == {"idle", "items", "prune", "delete", "rebuild", "publish", "ack", "nak"}

(* No call: at is the chunk being handled, todo its items not yet read,    *)
(* writes those read and found newer, absent the rows still to be deleted. *)
NoCall == [pc |-> "idle", at |-> 0, todo |-> {}, writes |-> {}, absent |-> {}]

SnapTypeOK ==
    /\ StoreTypeOK
    /\ stream \in Streams
    /\ cursor \in 1..(Len(stream) + 1)
    /\ open \subseteq DOMAIN stream
    /\ call \in [pc: CallPhase, at: 0..Len(stream), todo: SUBSET Commands,
                 writes: SUBSET Commands, absent: SUBSET Placements]
    /\ seenIDs \subseteq Placements
    /\ seenSnap \in SnapshotIDs \cup {NoSnapshot}
    /\ seenMade \in BOOLEAN
    /\ completed \in BOOLEAN
    /\ disturbed \in BOOLEAN
    /\ syncReports \subseteq SnapshotIDs \cup {NoSnapshot}

(* The consumer's own state when the agent starts for the first time.      *)
ConsumerInit ==
    /\ stream \in Streams
    /\ cursor = 1
    /\ open = DOMAIN stream
    /\ call = NoCall
    /\ seenIDs = {}
    /\ seenSnap = NoSnapshot
    /\ seenMade = FALSE
    /\ completed = FALSE
    /\ syncReports = {}
    /\ disturbed = FALSE

(* The table holds what earlier commands left in it.                       *)
SnapInit ==
    /\ store \in [Placements -> {Row(c, "applied") : c \in Commands} \cup {NoPlacement}]
    /\ \A p \in Placements :
         Found(store[p]) => \E c \in Commands : c.pid = p /\ store[p] = Row(c, "applied")
    /\ ConsumerInit

-----------------------------------------------------------------------------
(* Delivery.                                                               *)

(* The chunk the server may hand out next: the next new one, or one that   *)
(* was handed out before and is still not acked.                           *)
MayDeliver(i) == i \in open /\ i <= cursor

Chunk == stream[call.at]

(* The IDs of the placements listed in a set of items.                     *)
Pids(items) == {c.pid : c \in items}

(* Faulty variant: every delivery counts as a new chunk.                   *)
StartCallCounting(i, pc, items) ==
    /\ call.pc = "idle"
    /\ MayDeliver(i)
    /\ cursor' = cursor + 1
    /\ call' = [NoCall EXCEPT !.pc = pc, !.at = i, !.todo = items]
    /\ UNCHANGED <<store, stream, open, outcome>>

(* The handler starts on chunk i and continues in phase pc.                *)
StartCall(i, pc, items) ==
    /\ call.pc = "idle"
    /\ MayDeliver(i)
    /\ cursor' = IF i = cursor THEN i + 1 ELSE cursor
    /\ call' = [NoCall EXCEPT !.pc = pc, !.at = i, !.todo = items]
    /\ UNCHANGED <<store, stream, open, outcome>>

RejectChunk(i) ==
    /\ stream[i].kind = "garbage"
    /\ StartCall(i, "nak", {})
    /\ UNCHANGED seenVars

DropChunk(i) ==
    /\ stream[i].kind = "foreign"
    /\ StartCall(i, "ack", {})
    /\ UNCHANGED seenVars

(* Faulty variant: every chunk starts a new set.                           *)
TrackChunk(chunk) == seenSnap' = chunk.snap /\ seenIDs' = Pids(chunk.items) /\ seenMade' = TRUE

(* trackSeen: the first chunk of another snapshot starts a new set.        *)
TrackSeen(chunk) ==
    /\ seenSnap' = chunk.snap
    /\ seenIDs' = Pids(chunk.items) \cup (IF seenSnap = chunk.snap THEN seenIDs ELSE {})
    /\ seenMade' = (seenMade \/ seenSnap # chunk.snap)

(* A write to the nil map panics.                                          *)
NilMapWrite(chunk) == seenSnap = chunk.snap /\ ~seenMade /\ chunk.items # {}

BeginChunk(i) ==
    /\ stream[i].kind = "chunk"
    /\ ~NilMapWrite(stream[i])
    /\ StartCall(i, "items", stream[i].items)
    /\ TrackSeen(stream[i])

-----------------------------------------------------------------------------
(* applyItem, in up to eight goroutines at a time: the read and the write  *)
(* of an item are separate transactions.  The first error cancels the      *)
(* context of the others and fails the call.                               *)

(* Faulty variant: any other version is taken for a later one.             *)
ItemDiffers(c) == ~(Found(store[c.pid]) /\ store[c.pid].op = c.op)

ItemIsNews(c) == ~(Found(store[c.pid]) /\ store[c.pid].op >= c.op)

ReadItem(c) ==
    /\ call.pc = "items" /\ c \in call.todo
    /\ call' = [call EXCEPT !.todo = @ \ {c},
                            !.writes = IF ItemIsNews(c) THEN @ \cup {c} ELSE @]
    /\ UNCHANGED <<store, chunkVars, seenVars, outcome>>

WriteItem(c) ==
    /\ call.pc = "items" /\ c \in call.writes
    /\ PutPlacement(c, "applied")
    /\ call' = [call EXCEPT !.writes = @ \ {c}]
    /\ UNCHANGED <<chunkVars, seenVars, outcome>>

(* The call ends in phase pc.                                              *)
EndCall(pc) == call' = [NoCall EXCEPT !.pc = pc, !.at = call.at]

ItemFails ==
    /\ "store" \in Faults
    /\ call.pc = "items" /\ call.todo \cup call.writes # {}
    /\ EndCall("nak")
    /\ UNCHANGED <<store, chunkVars, seenVars, outcome>>

ItemsDone ==
    /\ call.pc = "items" /\ call.todo \cup call.writes = {}
    /\ call' = [call EXCEPT !.pc = IF Chunk.last THEN "prune" ELSE "ack"]
    /\ UNCHANGED <<store, chunkVars, seenVars, outcome>>

-----------------------------------------------------------------------------
(* pruneAbsent.                                                            *)

(* The seen set is taken and cleared first.                                *)
ForgetSeen == seenIDs' = {} /\ seenSnap' = NoSnapshot /\ seenMade' = FALSE

(* Nothing is pruned for another snapshot's set or for an empty one.       *)
SkipPrune ==
    /\ call.pc = "prune"
    /\ seenSnap # Chunk.snap \/ seenIDs = {}
    /\ ForgetSeen
    /\ call' = [call EXCEPT !.pc = "rebuild"]
    /\ UNCHANGED <<store, chunkVars, outcome>>

(* Faulty variant: an empty set prunes as well.                            *)
ListAlways ==
    /\ call.pc = "prune"
    /\ seenSnap = Chunk.snap
    /\ ForgetSeen
    /\ call' = [call EXCEPT !.pc = "delete", !.absent = ListPlacements \ seenIDs]
    /\ UNCHANGED <<store, chunkVars, outcome>>

ListAbsent ==
    /\ call.pc = "prune"
    /\ seenSnap = Chunk.snap /\ seenIDs # {}
    /\ ForgetSeen
    /\ call' = [call EXCEPT !.pc = "delete", !.absent = ListPlacements \ seenIDs]
    /\ UNCHANGED <<store, chunkVars, outcome>>

ListFails ==
    /\ "store" \in Faults
    /\ call.pc = "prune"
    /\ seenSnap = Chunk.snap /\ seenIDs # {}
    /\ ForgetSeen
    /\ EndCall("nak")
    /\ UNCHANGED <<store, chunkVars, outcome>>

DeleteAbsent(p) ==
    /\ call.pc = "delete" /\ p \in call.absent
    /\ DeletePlacement(p)
    /\ call' = [call EXCEPT !.absent = @ \ {p}]
    /\ UNCHANGED <<chunkVars, seenVars, outcome>>

(* Faulty variant: a failed delete is only logged.                         *)
DeleteErrorIgnored ==
    /\ "store" \in Faults
    /\ call.pc = "delete" /\ call.absent # {}
    /\ EndCall("rebuild")
    /\ UNCHANGED <<store, chunkVars, seenVars, outcome>>

DeleteFails ==
    /\ "store" \in Faults
    /\ call.pc = "delete" /\ call.absent # {}
    /\ EndCall("nak")
    /\ UNCHANGED <<store, chunkVars, seenVars, outcome>>

PruneDone ==
    /\ call.pc = "delete" /\ call.absent = {}
    /\ call' = [call EXCEPT !.pc = "rebuild"]
    /\ UNCHANGED <<store, chunkVars, seenVars, outcome>>

-----------------------------------------------------------------------------
(* RebuildFromStore (the data plane's own state is not part of this        *)
(* module), then the sync report, then Ack or Nak.                         *)

Rebuild ==
    /\ call.pc = "rebuild"
    /\ call' = [call EXCEPT !.pc = "publish"]
    /\ UNCHANGED <<store, chunkVars, seenVars, outcome>>

RebuildFails ==
    /\ "rebuild" \in Faults
    /\ call.pc = "rebuild"
    /\ EndCall("nak")
    /\ UNCHANGED <<store, chunkVars, seenVars, outcome>>

PublishSyncReport ==
    /\ call.pc = "publish"
    /\ syncReports' = syncReports \cup {Chunk.snap}
    /\ completed' = TRUE
    /\ EndCall("ack")
    /\ UNCHANGED <<store, chunkVars, seenVars, disturbed>>

(* Faulty variant: a failed publish is only logged.                        *)
PublishErrorIgnored ==
    /\ "publish" \in Faults
    /\ call.pc = "publish"
    /\ EndCall("ack")
    /\ UNCHANGED <<store, chunkVars, seenVars, outcome>>

PublishSyncReportFails ==
    /\ "publish" \in Faults
    /\ call.pc = "publish"
    /\ syncReports' \in {syncReports, syncReports \cup {Chunk.snap}}
    /\ EndCall("nak")
    /\ UNCHANGED <<store, chunkVars, seenVars, completed, disturbed>>

AckChunk ==
    /\ call.pc = "ack"
    /\ open' = open \ {call.at}
    /\ call' = NoCall
    /\ UNCHANGED <<store, stream, cursor, seenVars, outcome>>

AckChunkLost ==
    /\ "ack" \in Faults
    /\ call.pc = "ack"
    /\ call' = NoCall
    /\ disturbed' = TRUE
    /\ UNCHANGED <<store, chunkVars, seenVars, completed, syncReports>>

NakChunk ==
    /\ call.pc = "nak"
    /\ call' = NoCall
    /\ disturbed' = TRUE
    /\ UNCHANGED <<store, chunkVars, seenVars, completed, syncReports>>

(* What a restart of the process does to the consumer.                     *)
ConsumerRestarts ==
    /\ call' = NoCall
    /\ ForgetSeen
    /\ completed' = FALSE
    /\ disturbed' = TRUE
    /\ UNCHANGED <<store, stream, open, syncReports>>

SnapCrash == "crash" \in Faults /\ ConsumerRestarts /\ UNCHANGED cursor

(* The panic of trackSeen is not recovered: the agent exits with the chunk *)
(* handed out and not acked, and its container restarts.                   *)
TrackSeenPanics(i) ==
    /\ call.pc = "idle"
    /\ MayDeliver(i)
    /\ stream[i].kind = "chunk" /\ NilMapWrite(stream[i])
    /\ cursor' = IF i = cursor THEN i + 1 ELSE cursor
    /\ ConsumerRestarts

-----------------------------------------------------------------------------

(* The steps of the handler call in progress that need no failure.         *)
Progress ==
    \/ \E c \in Commands : ReadItem(c) \/ WriteItem(c)
    \/ ItemsDone \/ SkipPrune \/ ListAbsent \/ PruneDone
    \/ \E p \in Placements : DeleteAbsent(p)
    \/ Rebuild \/ PublishSyncReport \/ AckChunk \/ NakChunk

CallFails ==
    \/ ItemFails \/ ListFails \/ DeleteFails
    \/ RebuildFails \/ PublishSyncReportFails \/ AckChunkLost

SnapFaultStep == CallFails \/ SnapCrash

(* Every position a chunk may have in a stream.                            *)
Offsets == UNION {DOMAIN s : s \in Streams}

DeliverChunk(i) == RejectChunk(i) \/ DropChunk(i) \/ BeginChunk(i)

(* The server hands out chunk i.                                           *)
HandOut(i) == DeliverChunk(i) \/ TrackSeenPanics(i)

SnapNext ==
    \/ \E i \in DOMAIN stream : HandOut(i)
    \/ Progress
    \/ SnapFaultStep

SnapSpec == SnapInit /\ [][SnapNext]_snapVars

(* The consumer goroutine keeps running, and the server keeps offering     *)
(* what is not acked (MaxDeliver = -1).  Failures come to an end.          *)
SnapLiveSpec ==
    /\ SnapSpec
    /\ WF_snapVars(Progress)
    /\ \A i \in Offsets : SF_snapVars(i \in DOMAIN stream /\ HandOut(i))
    /\ <>[][Progress \/ \E i \in DOMAIN stream : HandOut(i)]_snapVars

-----------------------------------------------------------------------------
(* Properties.                                                             *)

(* The chunks of stream str that make up snapshot s.                       *)
ChunksOf(str, s) == {i \in DOMAIN str : str[i].kind = "chunk" /\ str[i].snap = s}

(* What the whole of snapshot s lists.                                     *)
Inventory(str, s) == UNION {str[i].items : i \in ChunksOf(str, s)}

(* The chunks of snapshot s are sent one after the other, and none after   *)
(* the one marked last.                                                    *)
InOrder(str, s) ==
    \A i, j \in ChunksOf(str, s) :
        i < j => /\ ~str[i].last
                 /\ \A k \in i..j : str[k].kind = "chunk" => str[k].snap = s

(* Snapshot s came in one chunk, or in order with nothing gone wrong since *)
(* the start.                                                              *)
Undivided(s) == Cardinality(ChunksOf(stream, s)) = 1 \/ (~disturbed /\ InOrder(stream, s))

Deletes(p) == Found(store[p]) /\ ~Found(store'[p])

KeepsListed(s) == \A p \in Pids(Inventory(stream, s)) : ~Deletes(p)

(* pruneAbsent deletes only what the whole snapshot does not list, however *)
(* the snapshot was cut into chunks, redelivered or interrupted.           *)
PrunesOnlyUnlisted == [][call.pc = "delete" => KeepsListed(Chunk.snap)]_snapVars

(* It does so at least for a snapshot that came in one chunk, whatever     *)
(* fails, and for one cut into chunks and sent in order while nothing      *)
(* fails.                                                                  *)
UndividedPrunesOnlyUnlisted ==
    [][call.pc = "delete" /\ Undivided(Chunk.snap) => KeepsListed(Chunk.snap)]_snapVars

(* A snapshot that lists nothing deletes nothing: the last-known-good      *)
(* state is preserved.                                                     *)
EmptySnapshotKeepsAll ==
    [][\A p \in Placements : Deletes(p) => Inventory(stream, Chunk.snap) # {}]_snapVars

(* A snapshot item never replaces a row of its own or a later version.     *)
ItemsNeverOverwriteNewer ==
    [][\A p \in Placements :
         Found(store[p]) /\ Found(store'[p]) /\ store'[p] # store[p] =>
             store'[p].op > store[p].op]_snapVars

(* When a sync report says full_resync_completed for an undivided          *)
(* snapshot, the table has every item of it, at its version or a later     *)
(* one, and (unless it was empty) nothing else.                            *)
SyncReportIsTrue ==
    [][\A s \in syncReports' \ syncReports :
         Undivided(s) =>
             /\ \A c \in Inventory(stream, s) : Found(store[c.pid]) /\ store[c.pid].op >= c.op
             /\ Inventory(stream, s) # {} => ListPlacements \subseteq Pids(Inventory(stream, s))]_snapVars

(* If the chunks name their snapshots, every snapshot whose last chunk is  *)
(* on the stream is eventually reported as synced, and in the end only     *)
(* undecodable chunks are left unacked.                                    *)
EverySnapshotCompletes ==
    (\A i \in DOMAIN stream : stream[i].snap # NoSnapshot) =>
        /\ <>(\A i \in DOMAIN stream :
                stream[i].kind = "chunk" /\ stream[i].last => stream[i].snap \in syncReports)
        /\ <>[](\A i \in open : stream[i].kind = "garbage")
=============================================================================
