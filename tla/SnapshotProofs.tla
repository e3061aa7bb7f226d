--------------------------- MODULE SnapshotProofs ---------------------------
(***************************************************************************)
(* Theorems about the full resync, for any streams of chunks, any table at *)
(* the start and any failures.                                             *)
(*                                                                         *)
(* The argument follows a handler call.  Its items are read and found      *)
(* newer, or stored (ItemsInv); the seen set then covers them (SeenInv),   *)
(* so a prune spares them (PruneInv).  For a snapshot of several chunks    *)
(* the same must be known of the chunks handled before (OrderInv): as long *)
(* as nothing has gone wrong they were handled in order, each once, and    *)
(* either the seen set still covers them or no chunk of their snapshot is  *)
(* left.                                                                   *)
(***************************************************************************)
EXTENDS SnapshotConsumer, FiniteSetTheorems, TLAPS

(* The table has item c, at its version or a later one.                    *)
Has(c) == Found(store[c.pid]) /\ store[c.pid].op >= c.op

(* The call is past the items of a last chunk.                             *)
Ending == {"prune", "delete", "rebuild", "publish"}

CallInv ==
    /\ call.pc # "idle" => call.at \in DOMAIN stream /\ call.at < cursor
    /\ call.pc \in Ending \cup {"items"} => Chunk.kind = "chunk"
    /\ call.pc \in Ending => Chunk.last

(* The seen set holds what its snapshot lists, the chunk in hand included. *)
SeenInv ==
    /\ seenIDs \subseteq Pids(Inventory(stream, seenSnap))
    /\ call.pc \in {"items", "prune"} =>
           seenSnap = Chunk.snap /\ Pids(Chunk.items) \subseteq seenIDs
    /\ call.pc = "delete" => seenIDs = {}

(* An item is still to be read, read and newer, or in the table.           *)
ItemsInv ==
    /\ call.pc = "items" =>
           /\ call.todo \cup call.writes \subseteq Chunk.items
           /\ \A c \in call.writes : ItemIsNews(c)
           /\ \A c \in Chunk.items : c \in call.todo \cup call.writes \/ Has(c)
    /\ call.pc \in Ending => \A c \in Chunk.items : Has(c)

(* What is about to be deleted is not listed, and the rest is.             *)
PruneInv ==
    /\ call.pc = "delete" =>
           /\ Inventory(stream, Chunk.snap) # {}
           /\ call.absent \cap Pids(Chunk.items) = {}
           /\ ListPlacements \ call.absent \subseteq Pids(Inventory(stream, Chunk.snap))
    /\ call.pc = "delete" /\ Undivided(Chunk.snap) =>
           call.absent \cap Pids(Inventory(stream, Chunk.snap)) = {}
    /\ call.pc \in {"delete", "rebuild", "publish"} /\ Undivided(Chunk.snap) =>
           \A c \in Inventory(stream, Chunk.snap) : Has(c)
    /\ call.pc \in {"rebuild", "publish"} /\ Undivided(Chunk.snap) =>
           (Inventory(stream, Chunk.snap) # {} =>
                ListPlacements \subseteq Pids(Inventory(stream, Chunk.snap)))

(* The first chunk whose items are not all in the seen set yet, or that is *)
(* being handled.                                                          *)
Pending == IF call.pc \in {"items", "prune"} THEN call.at ELSE cursor

(* Chunk j is in the seen set and in the table.                            *)
Covered(j) ==
    /\ stream[j].snap = seenSnap
    /\ Pids(stream[j].items) \subseteq seenIDs
    /\ (call.pc = "items" /\ j = call.at) \/ \A c \in stream[j].items : Has(c)

(* No chunk of the snapshot of chunk j is left.                            *)
Over(j) == \A k \in ChunksOf(stream, stream[j].snap) : k < Pending

(* No chunk handled before is forgotten.                                   *)
Tracked ==
    \A j \in DOMAIN stream :
        j < cursor /\ stream[j].kind = "chunk" /\ InOrder(stream, stream[j].snap)
            => Covered(j) \/ Over(j)

(* The chunks are handled in order, each of them once.                     *)
Orderly ==
    /\ open = {i \in DOMAIN stream : i >= cursor \/ (call.pc # "idle" /\ i = call.at)}
    /\ call.pc # "idle" => cursor = call.at + 1
    /\ call.pc # "nak" => Tracked

OrderInv == ~disturbed => Orderly

SnapInv == SnapTypeOK /\ CallInv /\ SeenInv /\ ItemsInv /\ PruneInv /\ OrderInv

-----------------------------------------------------------------------------
(* Types.                                                                  *)

(* The row stored for an item.                                             *)
LEMMA ItemRow ==
    ASSUME NEW c \in Commands
    PROVE  /\ Row(c, "applied") \in RowType
           /\ Found(Row(c, "applied"))
           /\ Row(c, "applied").op = c.op
           /\ c.pid \in Placements /\ c.op \in Nat
BY CommandsAssumption, NoPlacementAssumption
   DEF Row, RowType, CommandType, AppliedState, Found

(* The chunks of a stream, and that a chunk lists a placement once.        *)
LEMMA StreamTyping ==
    ASSUME stream \in Streams
    PROVE  /\ Len(stream) \in Nat /\ DOMAIN stream = 1..Len(stream)
           /\ \A i \in DOMAIN stream :
                /\ stream[i].items \subseteq Commands
                /\ stream[i].snap \in SnapshotIDs \cup {NoSnapshot}
                /\ stream[i].kind \in {"chunk", "foreign", "garbage"}
                /\ \A c, d \in stream[i].items : c.pid = d.pid => c = d
<1>1. stream \in Seq(ChunkType)
  BY StreamsAssumption
<1>2. Len(stream) \in Nat /\ DOMAIN stream = 1..Len(stream)
  BY <1>1
<1>3. \A i \in DOMAIN stream : stream[i] \in ChunkType
  BY <1>1, <1>2
<1>. QED  BY <1>2, <1>3, StreamsAssumption DEF ChunkType

(* SnapTypeOK without its flags.                                           *)
DataOK ==
    /\ StoreTypeOK
    /\ stream \in Streams
    /\ cursor \in 1..(Len(stream) + 1)
    /\ open \subseteq DOMAIN stream
    /\ call \in [pc: CallPhase, at: 0..Len(stream), todo: SUBSET Commands,
                 writes: SUBSET Commands, absent: SUBSET Placements]
    /\ seenIDs \subseteq Placements
    /\ seenSnap \in SnapshotIDs \cup {NoSnapshot}
    /\ syncReports \subseteq SnapshotIDs \cup {NoSnapshot}

FlagsOK == seenMade \in BOOLEAN /\ completed \in BOOLEAN /\ disturbed \in BOOLEAN

LEMMA TypeParts == SnapTypeOK <=> DataOK /\ FlagsOK
BY Zenon DEF SnapTypeOK, DataOK, FlagsOK

(* The types hold at the start.                                            *)
LEMMA InitTypes == SnapInit => SnapTypeOK
<1> SUFFICES ASSUME SnapInit PROVE SnapTypeOK
  OBVIOUS
<1>1. StoreTypeOK
  BY ItemRow DEF SnapInit, StoreTypeOK
<1>2. call = NoCall /\ open = DOMAIN stream /\ cursor = 1 /\ seenIDs = {}
      /\ seenSnap = NoSnapshot /\ syncReports = {} /\ stream \in Streams
  BY DEF SnapInit, ConsumerInit
<1>3. DataOK
  BY <1>1, <1>2, StreamTyping DEF DataOK, NoCall, CallPhase
<1>4. FlagsOK
  BY Zenon DEF SnapInit, ConsumerInit, FlagsOK
<1>. QED  BY <1>3, <1>4, TypeParts

(* A call that is started, and what starting it keeps.                     *)
LEMMA StartTyping ==
    ASSUME DataOK, NEW i \in DOMAIN stream, NEW pc \in CallPhase,
           NEW items \in SUBSET Commands, StartCall(i, pc, items)
    PROVE  /\ call.pc = "idle" /\ i \in open /\ i <= cursor
           /\ cursor' = (IF i = cursor THEN i + 1 ELSE cursor)
           /\ call' = [pc |-> pc, at |-> i, todo |-> items, writes |-> {}, absent |-> {}]
           /\ UNCHANGED <<store, stream, open, syncReports>>
           /\ StoreTypeOK' /\ stream' \in Streams
           /\ cursor' \in 1..(Len(stream') + 1)
           /\ i < cursor'
           /\ call' \in [pc: CallPhase, at: 0..Len(stream'), todo: SUBSET Commands,
                         writes: SUBSET Commands, absent: SUBSET Placements]
<1>1. /\ call.pc = "idle" /\ i \in open /\ i <= cursor
      /\ cursor' = (IF i = cursor THEN i + 1 ELSE cursor)
      /\ call' = [NoCall EXCEPT !.pc = pc, !.at = i, !.todo = items]
      /\ UNCHANGED <<store, stream, open, syncReports>>
  BY Zenon DEF StartCall, MayDeliver, outcome
<1>2. call' = [pc |-> pc, at |-> i, todo |-> items, writes |-> {}, absent |-> {}]
  BY <1>1, Zenon DEF NoCall
<1>3. i \in 1..Len(stream) /\ i \in 0..Len(stream) /\ Len(stream) \in Nat
  BY StreamTyping DEF DataOK
<1>4. cursor' \in 1..(Len(stream') + 1) /\ i < cursor'
  BY <1>1, <1>3 DEF DataOK
<1>5. call' \in [pc: CallPhase, at: 0..Len(stream'), todo: SUBSET Commands,
                writes: SUBSET Commands, absent: SUBSET Placements]
  BY <1>1, <1>2, <1>3
<1>. QED  BY <1>1, <1>2, <1>4, <1>5, Zenon DEF DataOK, StoreTypeOK

(* Every step keeps the data types.                                        *)
LEMMA StepData ==
    ASSUME DataOK, CallInv, [SnapNext]_snapVars
    PROVE  DataOK'
<1>1. ASSUME NEW i \in DOMAIN stream, RejectChunk(i) \/ DropChunk(i)
      PROVE  DataOK'
  BY <1>1, StartTyping DEF RejectChunk, DropChunk, DataOK, CallPhase, seenVars
<1>2. ASSUME NEW i \in DOMAIN stream, BeginChunk(i)
      PROVE  DataOK'
  <2>1. seenSnap' = stream[i].snap /\ seenIDs' \subseteq Pids(stream[i].items) \cup seenIDs
    BY <1>2 DEF BeginChunk, TrackSeen
  <2>2. Pids(stream[i].items) \subseteq Placements
    BY StreamTyping, ItemRow DEF Pids, DataOK
  <2>. QED  BY <1>2, <2>1, <2>2, StartTyping, StreamTyping DEF BeginChunk, DataOK, CallPhase
<1>3. ASSUME NEW c \in Commands, ReadItem(c)
      PROVE  DataOK'
  BY <1>3, Zenon DEF ReadItem, DataOK, StoreTypeOK, chunkVars, seenVars, outcome
<1>4. ASSUME NEW c \in Commands, WriteItem(c)
      PROVE  DataOK'
  BY <1>4, ItemRow DEF WriteItem, PutPlacement, DataOK, StoreTypeOK, chunkVars, seenVars, outcome
<1>5. CASE ItemFails \/ DeleteFails \/ RebuildFails
  BY <1>5, Zenon DEF ItemFails, DeleteFails, RebuildFails, EndCall, NoCall, CallPhase,
              DataOK, StoreTypeOK, chunkVars, seenVars, outcome
<1>6. CASE ItemsDone \/ PruneDone \/ Rebuild
  BY <1>6 DEF ItemsDone, PruneDone, Rebuild, CallPhase,
              DataOK, StoreTypeOK, chunkVars, seenVars, outcome
<1>7. CASE SkipPrune \/ ListAbsent \/ ListFails
  BY <1>7, Zenon DEF SkipPrune, ListAbsent, ListFails, ForgetSeen, EndCall, NoCall, CallPhase,
              DataOK, StoreTypeOK, ListPlacements, chunkVars, outcome
<1>8. ASSUME NEW p \in Placements, DeleteAbsent(p)
      PROVE  DataOK'
  BY <1>8 DEF DeleteAbsent, DeletePlacement, DataOK, StoreTypeOK, chunkVars, seenVars, outcome
<1>9. CASE PublishSyncReport \/ PublishSyncReportFails
  <2>1. Chunk.snap \in SnapshotIDs \cup {NoSnapshot}
    BY <1>9, StreamTyping DEF Chunk, CallInv, DataOK, PublishSyncReport, PublishSyncReportFails
  <2>. QED  BY <1>9, <2>1, Zenon DEF PublishSyncReport, PublishSyncReportFails, EndCall, NoCall,
              CallPhase, DataOK, StoreTypeOK, chunkVars, seenVars
<1>10. CASE AckChunk \/ AckChunkLost \/ NakChunk
  BY <1>10 DEF AckChunk, AckChunkLost, NakChunk, NoCall,
              CallPhase, DataOK, StoreTypeOK, chunkVars, seenVars, outcome
<1>11. CASE SnapCrash
  BY <1>11 DEF SnapCrash, ConsumerRestarts, ForgetSeen, NoCall, CallPhase, DataOK, StoreTypeOK
<1>12. ASSUME NEW i \in DOMAIN stream, TrackSeenPanics(i)
       PROVE  DataOK'
  BY <1>12, StreamTyping DEF TrackSeenPanics, MayDeliver, ConsumerRestarts, ForgetSeen, NoCall,
                             CallPhase, DataOK, StoreTypeOK
<1>13. CASE UNCHANGED snapVars
  BY <1>13 DEF snapVars, snapshotVars, chunkVars, seenVars, outcome, DataOK, StoreTypeOK
<1>. QED
  BY <1>1, <1>2, <1>3, <1>4, <1>5, <1>6, <1>7, <1>8, <1>9, <1>10, <1>11, <1>12, <1>13
     DEF SnapNext, HandOut, DeliverChunk, Progress, SnapFaultStep, CallFails

(* Every step keeps the flags Boolean, and nothing is undisturbed again.   *)
LEMMA StepFlags ==
    ASSUME FlagsOK, [SnapNext]_snapVars
    PROVE  FlagsOK' /\ (disturbed => disturbed')
<1>1. ASSUME NEW i \in DOMAIN stream, HandOut(i)
      PROVE  FlagsOK' /\ (disturbed => disturbed')
  BY <1>1, Zenon DEF HandOut, DeliverChunk, RejectChunk, DropChunk, BeginChunk, TrackSeen,
                     TrackSeenPanics, ConsumerRestarts, ForgetSeen, StartCall, outcome,
                     seenVars, FlagsOK
<1>2. CASE Progress
  BY <1>2, Zenon DEF Progress, ReadItem, WriteItem, ItemsDone, SkipPrune, ListAbsent,
                     PruneDone, DeleteAbsent, Rebuild, PublishSyncReport, AckChunk, NakChunk,
                     ForgetSeen, outcome, seenVars, FlagsOK
<1>3. CASE SnapFaultStep
  BY <1>3, Zenon DEF SnapFaultStep, CallFails, SnapCrash, ItemFails, ListFails, DeleteFails,
                     RebuildFails, PublishSyncReportFails, AckChunkLost, ConsumerRestarts,
                     ForgetSeen, outcome, seenVars, FlagsOK
<1>4. CASE UNCHANGED snapVars
  BY <1>4, Zenon DEF snapVars, snapshotVars, outcome, seenVars, FlagsOK
<1>. QED  BY <1>1, <1>2, <1>3, <1>4, Zenon DEF SnapNext

(* The stream is given.                                                    *)
LEMMA StreamFixed ==
    ASSUME [SnapNext]_snapVars
    PROVE  stream' = stream
BY Zenon DEF SnapNext, HandOut, DeliverChunk, RejectChunk, DropChunk, BeginChunk,
       TrackSeenPanics, ConsumerRestarts, StartCall, chunkVars,
       Progress, ReadItem, WriteItem, ItemsDone, SkipPrune, ListAbsent,
       PruneDone, DeleteAbsent, Rebuild, PublishSyncReport, AckChunk, NakChunk,
       SnapFaultStep, CallFails, SnapCrash, ItemFails, ListFails, DeleteFails,
       RebuildFails, PublishSyncReportFails, AckChunkLost, snapVars, snapshotVars

-----------------------------------------------------------------------------
(* The call in progress.                                                   *)

(* A call handles a chunk that was handed out; its phases tell what kind.  *)
LEMMA StepCall ==
    ASSUME DataOK, CallInv, [SnapNext]_snapVars
    PROVE  CallInv'
<1>0. stream' = stream
  BY StreamFixed
<1>1. ASSUME NEW i \in DOMAIN stream, DeliverChunk(i)
      PROVE  CallInv'
  <2>1. ASSUME NEW pc \in {"nak", "ack"}, StartCall(i, pc, {})
        PROVE  CallInv'
    BY <2>1, <1>0, StartTyping DEF CallInv, CallPhase, Ending
  <2>2. CASE BeginChunk(i)
    BY <2>2, <1>0, StartTyping, StreamTyping
       DEF BeginChunk, CallInv, CallPhase, Ending, Chunk, DataOK
  <2>. QED  BY <1>1, <2>1, <2>2 DEF DeliverChunk, RejectChunk, DropChunk
<1>2. ASSUME NEW c \in Commands, ReadItem(c) \/ WriteItem(c)
      PROVE  CallInv'
  BY <1>0, <1>2, Zenon DEF ReadItem, WriteItem, CallInv, DataOK, Ending, Chunk, chunkVars
<1>3. CASE ItemFails \/ ListFails \/ DeleteFails \/ RebuildFails \/ PublishSyncReport
           \/ PublishSyncReportFails
  BY <1>0, <1>3, Zenon DEF ItemFails, ListFails, DeleteFails, RebuildFails, PublishSyncReport,
       PublishSyncReportFails, EndCall, NoCall, CallInv, DataOK, Ending, chunkVars
<1>4. CASE ItemsDone \/ PruneDone \/ Rebuild \/ SkipPrune \/ ListAbsent
  BY <1>0, <1>4, Zenon DEF ItemsDone, PruneDone, Rebuild, SkipPrune, ListAbsent,
       CallInv, DataOK, Ending, Chunk, chunkVars
<1>5. ASSUME NEW p \in Placements, DeleteAbsent(p)
      PROVE  CallInv'
  BY <1>0, <1>5 DEF DeleteAbsent, CallInv, DataOK, Ending, Chunk, chunkVars
<1>6. CASE AckChunk \/ AckChunkLost \/ NakChunk \/ SnapCrash
  BY <1>6 DEF AckChunk, AckChunkLost, NakChunk, SnapCrash, ConsumerRestarts, NoCall, CallInv,
              Ending
<1>7. ASSUME NEW i \in DOMAIN stream, TrackSeenPanics(i)
      PROVE  CallInv'
  BY <1>7 DEF TrackSeenPanics, ConsumerRestarts, NoCall, CallInv, Ending
<1>8. CASE UNCHANGED snapVars
  BY <1>8 DEF snapVars, snapshotVars, chunkVars, CallInv, Chunk
<1>. QED
  BY <1>1, <1>2, <1>3, <1>4, <1>5, <1>6, <1>7, <1>8
     DEF SnapNext, HandOut, Progress, SnapFaultStep, CallFails

(* What a chunk lists, its snapshot lists.                                 *)
LEMMA ChunkListed ==
    ASSUME NEW str, NEW i \in DOMAIN str, str[i].kind = "chunk"
    PROVE  /\ i \in ChunksOf(str, str[i].snap)
           /\ str[i].items \subseteq Inventory(str, str[i].snap)
           /\ Pids(str[i].items) \subseteq Pids(Inventory(str, str[i].snap))
<1>1. i \in ChunksOf(str, str[i].snap)
  BY DEF ChunksOf
<1>2. str[i].items \subseteq Inventory(str, str[i].snap)
  BY <1>1 DEF Inventory
<1>. QED  BY <1>1, <1>2 DEF Pids

(* trackSeen covers the chunk, and the set is emptied before a prune.      *)
LEMMA StepSeen ==
    ASSUME DataOK, CallInv, SeenInv, [SnapNext]_snapVars
    PROVE  SeenInv'
<1>0. stream' = stream
  BY StreamFixed
<1>1. ASSUME NEW i \in DOMAIN stream, RejectChunk(i) \/ DropChunk(i)
      PROVE  SeenInv'
  BY <1>0, <1>1, StartTyping DEF RejectChunk, DropChunk, SeenInv, CallPhase, seenVars
<1>2. ASSUME NEW i \in DOMAIN stream, BeginChunk(i)
      PROVE  SeenInv'
  <2>1. /\ seenSnap' = stream[i].snap /\ stream[i].kind = "chunk"
        /\ seenIDs' = Pids(stream[i].items) \cup (IF seenSnap = stream[i].snap THEN seenIDs ELSE {})
    BY <1>2 DEF BeginChunk, TrackSeen
  <2>2. call'.pc = "items" /\ call'.at = i
    BY <1>2, StartTyping, StreamTyping DEF BeginChunk, DataOK, CallPhase
  <2>3. Pids(stream[i].items) \subseteq Pids(Inventory(stream, stream[i].snap))
    BY <2>1, ChunkListed
  <2>. QED  BY <1>0, <2>1, <2>2, <2>3 DEF SeenInv, Chunk
<1>3. ASSUME NEW c \in Commands, ReadItem(c) \/ WriteItem(c)
      PROVE  SeenInv'
  BY <1>0, <1>3, Zenon DEF ReadItem, WriteItem, SeenInv, DataOK, Chunk, seenVars
<1>4. CASE ItemFails \/ DeleteFails \/ RebuildFails \/ PublishSyncReport
           \/ PublishSyncReportFails
  BY <1>0, <1>4, Zenon DEF ItemFails, DeleteFails, RebuildFails, PublishSyncReport,
       PublishSyncReportFails, EndCall, NoCall, SeenInv, DataOK, seenVars
<1>5. CASE ItemsDone \/ PruneDone \/ Rebuild
  BY <1>0, <1>5 DEF ItemsDone, PruneDone, Rebuild, SeenInv, DataOK, Chunk, seenVars
<1>6. CASE SkipPrune \/ ListAbsent \/ ListFails
  BY <1>0, <1>6, Zenon
     DEF SkipPrune, ListAbsent, ListFails, ForgetSeen, EndCall, NoCall, SeenInv, DataOK
<1>7. ASSUME NEW p \in Placements, DeleteAbsent(p)
      PROVE  SeenInv'
  BY <1>0, <1>7 DEF DeleteAbsent, SeenInv, DataOK, seenVars
<1>8. CASE AckChunk \/ AckChunkLost \/ NakChunk
  BY <1>0, <1>8 DEF AckChunk, AckChunkLost, NakChunk, NoCall, SeenInv, seenVars
<1>9. CASE SnapCrash \/ \E i \in DOMAIN stream : TrackSeenPanics(i)
  BY <1>9 DEF SnapCrash, TrackSeenPanics, ConsumerRestarts, ForgetSeen, NoCall, SeenInv
<1>10. CASE UNCHANGED snapVars
  BY <1>10 DEF snapVars, snapshotVars, chunkVars, seenVars, SeenInv, Chunk
<1>. QED
  BY <1>1, <1>2, <1>3, <1>4, <1>5, <1>6, <1>7, <1>8, <1>9, <1>10
     DEF SnapNext, HandOut, DeliverChunk, Progress, SnapFaultStep, CallFails

(* Writing a newer item takes nothing from the table.                      *)
LEMMA WriteKeeps ==
    ASSUME DataOK, NEW c \in Commands, ItemIsNews(c), PutPlacement(c, "applied")
    PROVE  /\ store' = [store EXCEPT ![c.pid] = Row(c, "applied")]
           /\ Has(c)'
           /\ \A d \in Commands : Has(d) => Found(store'[d.pid]) /\ store'[d.pid].op >= d.op
           /\ \A d \in Commands : d.pid # c.pid => store'[d.pid] = store[d.pid]
<1>1. \A d \in Commands : d.pid \in Placements /\ d.op \in Nat
  BY ItemRow
<1>2. \A p \in Placements : Found(store[p]) => store[p].op \in Nat
  BY DEF DataOK, StoreTypeOK, Found, RowType
<1>3. store'[c.pid] = Row(c, "applied")
  BY <1>1 DEF PutPlacement, DataOK, StoreTypeOK
<1>4. \A p \in Placements : p # c.pid => store'[p] = store[p]
  BY <1>1 DEF PutPlacement, DataOK, StoreTypeOK
<1>5. Has(c)'
  BY <1>1, <1>3, ItemRow DEF Has
<1>6. ASSUME NEW d \in Commands, Has(d)
      PROVE  Found(store'[d.pid]) /\ store'[d.pid].op >= d.op
  <2>1. CASE d.pid = c.pid
    BY <2>1, <1>1, <1>2, <1>3, <1>6, ItemRow DEF Has, ItemIsNews
  <2>2. CASE d.pid # c.pid
    BY <2>2, <1>1, <1>4, <1>6 DEF Has
  <2>. QED  BY <2>1, <2>2
<1>. QED  BY <1>1, <1>4, <1>5, <1>6 DEF PutPlacement

(* Every item of the chunk is dealt with, and stays in the table.          *)
LEMMA StepItems ==
    ASSUME DataOK, CallInv, ItemsInv, PruneInv, [SnapNext]_snapVars
    PROVE  ItemsInv'
<1>0. stream' = stream
  BY StreamFixed
<1>1. ASSUME NEW i \in DOMAIN stream, RejectChunk(i) \/ DropChunk(i)
      PROVE  ItemsInv'
  BY <1>1, StartTyping DEF RejectChunk, DropChunk, ItemsInv, CallPhase, Ending
<1>2. ASSUME NEW i \in DOMAIN stream, BeginChunk(i)
      PROVE  ItemsInv'
  <2>1. call' = [pc |-> "items", at |-> i, todo |-> stream[i].items, writes |-> {}, absent |-> {}]
    BY <1>2, StartTyping, StreamTyping DEF BeginChunk, DataOK, CallPhase
  <2>. QED  BY <1>0, <2>1 DEF ItemsInv, Chunk, Ending
<1>3. ASSUME NEW c \in Commands, ReadItem(c)
      PROVE  ItemsInv'
  BY <1>0, <1>3 DEF ReadItem, ItemsInv, ItemIsNews, Has, DataOK, Chunk, Ending
<1>4. ASSUME NEW c \in Commands, WriteItem(c)
      PROVE  ItemsInv'
  <2>1. /\ call.pc = "items" /\ c \in call.writes /\ PutPlacement(c, "applied")
        /\ call' = [call EXCEPT !.writes = call.writes \ {c}]
        /\ ItemIsNews(c)
    BY <1>4 DEF WriteItem, ItemsInv
  <2>2. call'.pc = "items" /\ call'.at = call.at /\ call'.todo = call.todo
        /\ call'.writes = call.writes \ {c}
    BY <2>1 DEF DataOK
  <2>3. Chunk' = Chunk
    BY <1>0, <2>2 DEF Chunk
  <2>4. Chunk.items \subseteq Commands /\ \A d, e \in Chunk.items : d.pid = e.pid => d = e
    BY <2>1, StreamTyping DEF CallInv, DataOK, Chunk
  <2>5. \A d \in call'.writes : ItemIsNews(d)'
    <3>1. \A d \in call'.writes : d \in Commands /\ d.pid # c.pid /\ ItemIsNews(d)
      BY <2>1, <2>2, <2>4 DEF ItemsInv
    <3>. QED  BY <2>1, <3>1, WriteKeeps DEF ItemIsNews
  <2>6. \A d \in Chunk.items : d \in call'.todo \cup call'.writes \/ Has(d)'
    <3>1. \A d \in Chunk.items : d = c \/ d \in call'.todo \cup call'.writes \/ Has(d)
      BY <2>1, <2>2 DEF ItemsInv
    <3>2. \A d \in Commands : Has(d) => Found(store'[d.pid]) /\ store'[d.pid].op >= d.op
      BY <2>1, WriteKeeps
    <3>3. Has(c)'
      BY <2>1, WriteKeeps
    <3>. QED  BY <2>4, <3>1, <3>2, <3>3 DEF Has
  <2>. QED  BY <2>1, <2>2, <2>3, <2>5, <2>6 DEF ItemsInv, Ending
<1>5. CASE ItemFails \/ ListFails \/ DeleteFails \/ RebuildFails \/ PublishSyncReport
           \/ PublishSyncReportFails
  BY <1>5, Zenon DEF ItemFails, ListFails, DeleteFails, RebuildFails, PublishSyncReport,
       PublishSyncReportFails, EndCall, NoCall, ItemsInv, Ending
<1>6. CASE ItemsDone \/ PruneDone \/ Rebuild \/ SkipPrune \/ ListAbsent
  BY <1>0, <1>6, Zenon DEF ItemsDone, PruneDone, Rebuild, SkipPrune, ListAbsent,
       ItemsInv, DataOK, Ending, Chunk, Has
<1>7. ASSUME NEW p \in Placements, DeleteAbsent(p)
      PROVE  ItemsInv'
  <2>1. call.pc = "delete" /\ p \in call.absent
        /\ store' = [store EXCEPT ![p] = NoPlacement]
        /\ call' = [call EXCEPT !.absent = call.absent \ {p}]
    BY <1>7 DEF DeleteAbsent, DeletePlacement
  <2>2. Chunk.items \subseteq Commands
    BY <2>1, StreamTyping DEF CallInv, DataOK, Chunk
  <2>3. \A c \in Chunk.items : c.pid # p
    BY <2>1 DEF PruneInv, Pids
  <2>4. \A c \in Chunk.items : store'[c.pid] = store[c.pid]
    BY <2>1, <2>2, <2>3, ItemRow DEF DataOK, StoreTypeOK
  <2>5. call'.pc = "delete" /\ Chunk' = Chunk
    BY <1>0, <2>1 DEF DataOK, Chunk
  <2>. QED  BY <2>1, <2>4, <2>5 DEF ItemsInv, Ending, Has
<1>8. CASE AckChunk \/ AckChunkLost \/ NakChunk \/ SnapCrash
  BY <1>8 DEF AckChunk, AckChunkLost, NakChunk, SnapCrash, ConsumerRestarts, NoCall, ItemsInv,
              Ending
<1>9. ASSUME NEW i \in DOMAIN stream, TrackSeenPanics(i)
      PROVE  ItemsInv'
  BY <1>9 DEF TrackSeenPanics, ConsumerRestarts, NoCall, ItemsInv, Ending
<1>10. CASE UNCHANGED snapVars
  BY <1>10 DEF snapVars, snapshotVars, chunkVars, ItemsInv, ItemIsNews, Has, Chunk
<1>. QED
  BY <1>1, <1>2, <1>3, <1>4, <1>5, <1>6, <1>7, <1>8, <1>9, <1>10
     DEF SnapNext, HandOut, DeliverChunk, Progress, SnapFaultStep, CallFails

-----------------------------------------------------------------------------
(* The prune.                                                              *)

(* When the last chunk of an undivided snapshot comes to its prune, the    *)
(* seen set has every placement the snapshot lists, and so has the table.  *)
LEMMA PruneCovers ==
    ASSUME SnapInv, call.pc = "prune", Undivided(Chunk.snap)
    PROVE  /\ Pids(Inventory(stream, Chunk.snap)) \subseteq seenIDs
           /\ \A c \in Inventory(stream, Chunk.snap) : Has(c)
<1>. DEFINE at == call.at
            S == Chunk.snap
<1>1. at \in DOMAIN stream /\ at < cursor /\ Chunk.kind = "chunk" /\ Chunk.last
  BY DEF SnapInv, CallInv, Ending
<1>2. at \in ChunksOf(stream, S)
  BY <1>1 DEF ChunksOf, Chunk
<1>3. Pids(Chunk.items) \subseteq seenIDs /\ \A c \in Chunk.items : Has(c)
  BY DEF SnapInv, SeenInv, ItemsInv, Ending
<1>4. SUFFICES ASSUME NEW j \in ChunksOf(stream, S)
               PROVE  Pids(stream[j].items) \subseteq seenIDs /\ \A c \in stream[j].items : Has(c)
  BY <1>4 DEF Inventory, Pids
<1>5. CASE Cardinality(ChunksOf(stream, S)) = 1
  <2>1. IsFiniteSet(ChunksOf(stream, S))
    <3>1. DOMAIN stream = 1..Len(stream) /\ Len(stream) \in Nat
      BY StreamTyping DEF SnapInv, SnapTypeOK
    <3>2. IsFiniteSet(1..Len(stream))
      BY <3>1, FS_Interval
    <3>3. ChunksOf(stream, S) \subseteq 1..Len(stream)
      BY <3>1 DEF ChunksOf
    <3>. QED  BY <3>2, <3>3, FS_Subset
  <2>2. PICK x : ChunksOf(stream, S) = {x}
    BY <1>5, <2>1, FS_Singleton
  <2>. QED  BY <1>2, <1>3, <2>2 DEF Chunk
<1>6. CASE ~disturbed /\ InOrder(stream, S)
  <2>1. Orderly
    BY <1>6 DEF SnapInv, OrderInv
  <2>2. j \in DOMAIN stream /\ stream[j].kind = "chunk" /\ stream[j].snap = S
    BY DEF ChunksOf
  <2>3. at \in Int /\ j \in Int /\ cursor \in Int
    BY <1>1, <2>2, StreamTyping DEF SnapInv, SnapTypeOK
  <2>4. ~(at < j)
    BY <1>1, <1>2, <1>6 DEF InOrder, Chunk
  <2>5. j < cursor
    BY <1>1, <2>3, <2>4
  <2>6. Covered(j) \/ Over(j)
    BY <1>6, <2>1, <2>2, <2>5 DEF Orderly, Tracked
  <2>7. ~Over(j)
    BY <1>2, <2>2, <2>3 DEF Over, Pending
  <2>. QED  BY <2>6, <2>7 DEF Covered
<1>. QED  BY <1>5, <1>6 DEF Undivided

(* A prune deletes what is not listed, and leaves only what is.            *)
LEMMA StepPrune ==
    ASSUME SnapInv, [SnapNext]_snapVars
    PROVE  PruneInv'
<1>. USE DEF SnapInv
<1>a. DataOK /\ FlagsOK
  BY TypeParts
<1>b. stream' = stream
  BY StreamFixed
<1>c. Chunk' = Chunk => (Undivided(Chunk.snap)' => Undivided(Chunk.snap))
  <2>1. disturbed => disturbed'
    BY <1>a, StepFlags
  <2>. QED  BY <1>b, <2>1, Zenon DEF Undivided
<1>1. CASE call'.pc \notin {"delete", "rebuild", "publish"}
  BY <1>1 DEF PruneInv
<1>2. CASE SkipPrune
  <2>1. seenIDs = {} /\ call.pc = "prune"
    BY <1>2 DEF SkipPrune, SeenInv
  <2>2. call'.pc = "rebuild" /\ call'.at = call.at /\ UNCHANGED store
    BY <1>2, <1>a DEF SkipPrune, DataOK
  <2>3. Chunk' = Chunk
    BY <1>b, <2>2 DEF Chunk
  <2>4. ASSUME Undivided(Chunk.snap)'
        PROVE  /\ \A c \in Inventory(stream, Chunk.snap) : Has(c)
               /\ Pids(Inventory(stream, Chunk.snap)) = {}
    BY <1>c, <2>1, <2>3, <2>4, PruneCovers
  <2>5. Pids(Inventory(stream, Chunk.snap)) = {} => Inventory(stream, Chunk.snap) = {}
    BY Zenon DEF Pids
  <2>. QED  BY <1>b, <2>2, <2>3, <2>4, <2>5 DEF PruneInv, Has
<1>3. CASE ListAbsent
  <2>1. seenIDs # {} /\ call.pc = "prune" /\ seenSnap = Chunk.snap
    BY <1>3 DEF ListAbsent
  <2>2. /\ call'.pc = "delete" /\ call'.at = call.at /\ UNCHANGED store
        /\ call'.absent = ListPlacements \ seenIDs
    BY <1>3, <1>a DEF ListAbsent, DataOK
  <2>3. Chunk' = Chunk
    BY <1>b, <2>2 DEF Chunk
  <2>4. ASSUME Undivided(Chunk.snap)'
        PROVE  /\ \A c \in Inventory(stream, Chunk.snap) : Has(c)
               /\ Pids(Inventory(stream, Chunk.snap)) \subseteq seenIDs
    BY <1>c, <2>1, <2>3, <2>4, PruneCovers
  <2>5. /\ seenIDs \subseteq Pids(Inventory(stream, Chunk.snap))
        /\ Pids(Chunk.items) \subseteq seenIDs
    BY <2>1 DEF SeenInv
  <2>6. Inventory(stream, Chunk.snap) # {}
    BY <2>1, <2>5 DEF Pids
  <2>7. ListPlacements' = ListPlacements
    BY <2>2 DEF ListPlacements
  <2>. QED  BY <1>b, <2>2, <2>3, <2>4, <2>5, <2>6, <2>7 DEF PruneInv, Has
<1>4. ASSUME NEW p \in Placements, DeleteAbsent(p)
      PROVE  PruneInv'
  <2>1. /\ call.pc = "delete" /\ p \in call.absent
        /\ call'.pc = "delete" /\ call'.at = call.at /\ call'.absent = call.absent \ {p}
        /\ store' = [store EXCEPT ![p] = NoPlacement]
    BY <1>4, <1>a DEF DeleteAbsent, DeletePlacement, DataOK
  <2>2. Chunk' = Chunk
    BY <1>b, <2>1 DEF Chunk
  <2>3. ListPlacements' = ListPlacements \ {p}
    BY <2>1, <1>a DEF ListPlacements, DataOK, StoreTypeOK, Found
  <2>4. ASSUME Undivided(Chunk.snap)'
        PROVE  /\ call.absent \cap Pids(Inventory(stream, Chunk.snap)) = {}
               /\ \A c \in Inventory(stream, Chunk.snap) : Has(c)
    BY <1>c, <2>1, <2>2, <2>4 DEF PruneInv
  <2>5. ASSUME Undivided(Chunk.snap)', NEW c \in Inventory(stream, Chunk.snap)
        PROVE  Has(c)'
    <3>1. c \in Commands
      BY <1>a, StreamTyping DEF DataOK, Inventory, ChunksOf
    <3>2. c.pid # p
      BY <2>1, <2>4, <2>5 DEF Pids
    <3>3. store'[c.pid] = store[c.pid]
      BY <1>a, <2>1, <3>1, <3>2, ItemRow DEF DataOK, StoreTypeOK
    <3>. QED  BY <2>4, <2>5, <3>3 DEF Has
  <2>. QED  BY <1>b, <2>1, <2>2, <2>3, <2>4, <2>5 DEF PruneInv
<1>5. CASE PruneDone \/ Rebuild
  <2>1. /\ call'.at = call.at /\ UNCHANGED store
        /\ \/ call.pc = "delete" /\ call.absent = {} /\ call'.pc = "rebuild"
           \/ call.pc = "rebuild" /\ call'.pc = "publish"
    BY <1>5, <1>a DEF PruneDone, Rebuild, DataOK
  <2>2. Chunk' = Chunk
    BY <1>b, <2>1 DEF Chunk
  <2>. QED  BY <1>b, <1>c, <2>1, <2>2 DEF PruneInv, Has, ListPlacements
<1>6. CASE UNCHANGED snapVars
  <2>1. call' = call /\ UNCHANGED store
    BY <1>6 DEF snapVars, snapshotVars
  <2>2. Chunk' = Chunk
    BY <1>b, <2>1 DEF Chunk
  <2>. QED  BY <1>b, <1>c, <2>1, <2>2 DEF PruneInv, Has, ListPlacements
<1>7. ASSUME NEW i \in DOMAIN stream, HandOut(i)
      PROVE  call'.pc \notin {"delete", "rebuild", "publish"}
  <2>1. CASE TrackSeenPanics(i)
    BY <2>1 DEF TrackSeenPanics, ConsumerRestarts, NoCall
  <2>2. CASE DeliverChunk(i)
    BY <2>2, <1>a, StartTyping, StreamTyping
       DEF DeliverChunk, RejectChunk, DropChunk, BeginChunk, CallPhase, DataOK
  <2>. QED  BY <1>7, <2>1, <2>2 DEF HandOut
<1>8. ASSUME \/ \E c \in Commands : ReadItem(c) \/ WriteItem(c)
             \/ ItemsDone \/ AckChunk \/ AckChunkLost \/ NakChunk \/ SnapCrash
      PROVE  call'.pc \notin {"delete", "rebuild", "publish"}
  <2>1. ASSUME NEW c \in Commands, ReadItem(c) \/ WriteItem(c)
        PROVE  call'.pc = "items"
    BY <2>1, <1>a, Zenon DEF ReadItem, WriteItem, DataOK
  <2>2. CASE ItemsDone
    BY <2>2, <1>a DEF ItemsDone, DataOK
  <2>3. CASE AckChunk \/ AckChunkLost \/ NakChunk \/ SnapCrash
    BY <2>3 DEF AckChunk, NakChunk, AckChunkLost, SnapCrash, ConsumerRestarts, NoCall
  <2>. QED  BY <1>8, <2>1, <2>2, <2>3
<1>9. ASSUME PublishSyncReport \/ ItemFails \/ ListFails \/ DeleteFails \/ RebuildFails
             \/ PublishSyncReportFails
      PROVE  call'.pc \notin {"delete", "rebuild", "publish"}
  BY <1>9, <1>a, Zenon DEF PublishSyncReport, ItemFails, ListFails, DeleteFails, RebuildFails,
                    PublishSyncReportFails, EndCall, NoCall
<1>. QED
  BY <1>1, <1>2, <1>3, <1>4, <1>5, <1>6, <1>7, <1>8, <1>9
     DEF SnapNext, Progress, SnapFaultStep, CallFails

-----------------------------------------------------------------------------
(* The chunks handled before, while nothing has gone wrong.                *)

(* A chunk in hand covers itself, and ends the snapshot before it.         *)
LEMMA BeginTracked ==
    ASSUME SnapInv, Orderly, NEW i \in DOMAIN stream, BeginChunk(i), i = cursor,
           stream' = stream
    PROVE  Tracked'
<1>1. DataOK
  BY TypeParts DEF SnapInv
<1>2. /\ call.pc = "idle" /\ cursor' = i + 1 /\ UNCHANGED store
      /\ call'.pc = "items" /\ call'.at = i /\ stream[i].kind = "chunk"
  BY <1>1, StartTyping, StreamTyping DEF BeginChunk, CallPhase, DataOK
<1>3. /\ seenSnap' = stream[i].snap
      /\ Pids(stream[i].items) \subseteq seenIDs'
      /\ seenSnap = stream[i].snap => seenIDs \subseteq seenIDs'
  BY DEF BeginChunk, TrackSeen
<1>4. DOMAIN stream \subseteq Nat
  BY <1>1, StreamTyping DEF DataOK
<1>5. SUFFICES ASSUME NEW j \in DOMAIN stream, j < i + 1, stream[j].kind = "chunk",
                      InOrder(stream, stream[j].snap)
               PROVE  Covered(j)' \/ Over(j)'
  BY <1>2, <1>5 DEF Tracked
<1>6. CASE j = i
  BY <1>2, <1>3, <1>6 DEF Covered
<1>7. CASE j < i
  <2>1. Covered(j) \/ Over(j)
    BY <1>2, <1>5, <1>7 DEF Orderly, Tracked
  <2>2. CASE Over(j)
    BY <1>2, <2>2 DEF Over, Pending
  <2>3. CASE Covered(j) /\ stream[j].snap = stream[i].snap
    BY <1>2, <1>3, <1>4, <1>7, <2>3 DEF Covered, Has
  <2>4. CASE stream[j].snap # stream[i].snap
    <3>1. ASSUME NEW k \in ChunksOf(stream, stream[j].snap)
          PROVE  k < i
      <4>1. k \in DOMAIN stream /\ stream[k].snap = stream[j].snap /\ k \in Nat
        BY <1>4 DEF ChunksOf
      <4>2. j \in ChunksOf(stream, stream[j].snap)
        BY <1>5 DEF ChunksOf
      <4>3. ~(i < k)
        <5>1. i < k => i \in j..k /\ j < k
          BY <1>4, <1>7, <4>1
        <5>2. j < k => \A m \in j..k : stream[m].kind = "chunk" => stream[m].snap = stream[j].snap
          BY <1>5, <3>1, <4>2 DEF InOrder
        <5>. QED  BY <1>2, <2>4, <5>1, <5>2
      <4>. QED  BY <1>4, <2>4, <4>1, <4>3
    <3>. QED  BY <1>2, <3>1 DEF Over, Pending
  <2>. QED  BY <2>1, <2>2, <2>3, <2>4
<1>. QED  BY <1>4, <1>5, <1>6, <1>7

(* The prune of the last chunk ends its snapshot.                          *)
LEMMA PruneTracked ==
    ASSUME SnapInv, Orderly, call.pc = "prune", call'.pc \in {"rebuild", "delete"},
           call'.at = call.at, UNCHANGED <<stream, cursor>>
    PROVE  Tracked'
<1>1. DOMAIN stream \subseteq Nat /\ cursor = call.at + 1
  BY StreamTyping DEF SnapInv, SnapTypeOK, Orderly
<1>2. /\ call.at \in DOMAIN stream /\ stream[call.at].last /\ stream[call.at].kind = "chunk"
      /\ seenSnap = stream[call.at].snap
  BY DEF SnapInv, CallInv, SeenInv, Chunk, Ending
<1>3. SUFFICES ASSUME NEW j \in DOMAIN stream, j < cursor, stream[j].kind = "chunk",
                      InOrder(stream, stream[j].snap)
               PROVE  \A k \in ChunksOf(stream, stream[j].snap) : k < cursor
  BY <1>3 DEF Tracked, Over, Pending
<1>4. Covered(j) \/ Over(j)
  BY <1>3 DEF Orderly, Tracked
<1>5. CASE Over(j)
  <2>1. \A k \in ChunksOf(stream, stream[j].snap) : k < call.at /\ k \in Nat
    BY <1>1, <1>5 DEF Over, Pending, ChunksOf
  <2>. QED  BY <1>1, <1>2, <2>1
<1>6. CASE Covered(j)
  <2>1. call.at \in ChunksOf(stream, stream[j].snap)
    BY <1>2, <1>6 DEF Covered, ChunksOf
  <2>2. ASSUME NEW k \in ChunksOf(stream, stream[j].snap)
        PROVE  ~(call.at < k) /\ k \in Nat
    BY <1>1, <1>2, <1>3, <2>1 DEF InOrder, ChunksOf
  <2>. QED  BY <1>1, <1>2, <2>2
<1>. QED  BY <1>4, <1>5, <1>6

(* Every other step of a call keeps track of the chunks, if it leaves the  *)
(* seen set alone and the table has of a covered chunk what it had.        *)
LEMMA CallTracked ==
    ASSUME SnapInv, Orderly, call.pc \notin {"idle", "nak"},
           call'.pc = "prune" => call.pc \in {"items", "prune"},
           call'.pc = "items" => call.pc = "items",
           call'.pc = "idle" \/ call'.at = call.at,
           UNCHANGED <<stream, cursor, seenIDs, seenSnap>>,
           \A j \in DOMAIN stream : \A c \in stream[j].items :
               Covered(j) /\ Has(c) => Found(store'[c.pid]) /\ store'[c.pid].op >= c.op,
           call.pc = "items" /\ call'.pc # "items" =>
               \A c \in Chunk.items : Found(store'[c.pid]) /\ store'[c.pid].op >= c.op
    PROVE  Tracked'
<1>1. DOMAIN stream \subseteq Nat /\ cursor = call.at + 1 /\ call.at \in Nat
  BY StreamTyping DEF SnapInv, SnapTypeOK, Orderly, CallInv
<1>2. SUFFICES ASSUME NEW j \in DOMAIN stream, j < cursor, stream[j].kind = "chunk",
                      InOrder(stream, stream[j].snap)
               PROVE  Covered(j)' \/ Over(j)'
  BY <1>2, Zenon DEF Tracked
<1>3. Covered(j) \/ Over(j)
  BY <1>2 DEF Orderly, Tracked
<1>4. CASE Over(j)
  <2>1. \A k \in ChunksOf(stream, stream[j].snap) : k \in Nat /\ k < Pending
    BY <1>1, <1>4 DEF Over, ChunksOf
  <2>2. Pending \in Nat /\ Pending' \in Nat /\ Pending <= Pending'
    BY <1>1, SMTT(30) DEF Pending
  <2>. QED  BY <2>1, <2>2 DEF Over
<1>5. CASE Covered(j)
  BY <1>5 DEF Covered, Has, Chunk
<1>. QED  BY <1>3, <1>4, <1>5

LEMMA StepOrder ==
    ASSUME SnapInv, [SnapNext]_snapVars, ~disturbed'
    PROVE  Orderly'
<1>a. DataOK /\ FlagsOK /\ CallInv
  BY TypeParts DEF SnapInv
<1>b. stream' = stream /\ DOMAIN stream \subseteq Nat /\ cursor \in Nat
  BY <1>a, StreamFixed, StreamTyping DEF DataOK
<1>c. Orderly
  <2>1. disturbed => disturbed'
    BY <1>a, StepFlags
  <2>. QED  BY <2>1 DEF SnapInv, OrderInv
<1>d. ASSUME UNCHANGED <<cursor, open>>, call.pc # "idle", call'.pc # "idle", call'.at = call.at,
             call'.pc # "nak" => Tracked'
      PROVE  Orderly'
  BY <1>b, <1>c, <1>d DEF Orderly
<1>1. ASSUME NEW i \in DOMAIN stream, DeliverChunk(i)
      PROVE  Orderly'
  <2>1. PICK pc \in {"nak", "ack", "items"} : \E items \in SUBSET Commands :
            /\ StartCall(i, pc, items)
            /\ pc = "items" => BeginChunk(i)
            /\ pc = "ack" => stream[i].kind = "foreign" /\ UNCHANGED <<seenIDs, seenSnap>>
    BY <1>1, <1>a, StreamTyping, SMTT(30)
       DEF DeliverChunk, RejectChunk, DropChunk, BeginChunk, DataOK, seenVars
  <2>2. /\ call.pc = "idle" /\ i \in open /\ i <= cursor
        /\ cursor' = (IF i = cursor THEN i + 1 ELSE cursor)
        /\ call'.pc = pc /\ call'.at = i /\ UNCHANGED <<store, open>>
    BY <2>1, <1>a, StartTyping DEF CallPhase
  <2>3. i = cursor
    BY <1>b, <1>c, <2>2 DEF Orderly
  <2>4. open' = {j \in DOMAIN stream : j >= cursor' \/ j = i}
    BY <1>b, <1>c, <2>2, <2>3 DEF Orderly
  <2>5. pc # "nak" => Tracked'
    <3>1. CASE pc = "items"
      BY <3>1, <1>b, <1>c, <2>1, <2>3, BeginTracked
    <3>2. CASE pc = "ack"
      <4>1. SUFFICES ASSUME NEW j \in DOMAIN stream, j < i + 1, stream[j].kind = "chunk",
                            InOrder(stream, stream[j].snap)
                     PROVE  Covered(j)' \/ Over(j)'
        BY <1>b, <2>2, <2>3, <4>1 DEF Tracked
      <4>2. j < i
        BY <3>2, <1>b, <2>1, <4>1
      <4>3. Covered(j) \/ Over(j)
        BY <1>c, <2>2, <2>3, <4>1, <4>2 DEF Orderly, Tracked
      <4>4. CASE Over(j)
        <5>1. \A k \in ChunksOf(stream, stream[j].snap) : k \in Nat /\ k < cursor
          BY <1>b, <2>2, <4>4 DEF Over, Pending, ChunksOf
        <5>. QED  BY <1>b, <2>2, <2>3, <3>2, <5>1 DEF Over, Pending
      <4>5. CASE Covered(j)
        BY <1>b, <2>1, <2>2, <3>2, <4>5 DEF Covered, Has
      <4>. QED  BY <4>3, <4>4, <4>5
    <3>. QED  BY <3>1, <3>2
  <2>. QED  BY <1>b, <2>2, <2>3, <2>4, <2>5 DEF Orderly
<1>2. ASSUME NEW c \in Commands, ReadItem(c)
      PROVE  Orderly'
  <2>1. /\ call.pc = "items" /\ call'.pc = "items" /\ call'.at = call.at
        /\ UNCHANGED <<store, cursor, open, seenIDs, seenSnap>>
    BY <1>2, <1>a DEF ReadItem, DataOK, chunkVars, seenVars
  <2>2. Tracked'
    BY <1>b, <1>c, <2>1, CallTracked DEF Has
  <2>. QED  BY <1>d, <2>1, <2>2
<1>3. ASSUME NEW c \in Commands, WriteItem(c)
      PROVE  Orderly'
  <2>1. /\ call.pc = "items" /\ call'.pc = "items" /\ call'.at = call.at
        /\ UNCHANGED <<cursor, open, seenIDs, seenSnap>>
        /\ PutPlacement(c, "applied") /\ c \in call.writes
    BY <1>3, <1>a DEF WriteItem, DataOK, chunkVars, seenVars
  <2>2. \A d \in Commands : Has(d) => Found(store'[d.pid]) /\ store'[d.pid].op >= d.op
    <3>1. ItemIsNews(c)
      BY <2>1 DEF SnapInv, ItemsInv
    <3>. QED  BY <1>a, <2>1, <3>1, WriteKeeps
  <2>3. \A j \in DOMAIN stream : stream[j].items \subseteq Commands
    BY <1>a, StreamTyping DEF DataOK
  <2>4. Tracked'
    BY <1>b, <1>c, <2>1, <2>2, <2>3, CallTracked
  <2>. QED  BY <1>d, <2>1, <2>4
<1>4. CASE ItemFails \/ ListFails \/ DeleteFails \/ RebuildFails \/ PublishSyncReportFails
  <2>1. /\ call.pc # "idle" /\ call'.pc = "nak" /\ call'.at = call.at
        /\ UNCHANGED <<cursor, open>>
    BY <1>4, <1>a, Zenon
       DEF ItemFails, ListFails, DeleteFails, RebuildFails, PublishSyncReportFails,
                      EndCall, NoCall, chunkVars
  <2>. QED  BY <1>d, <2>1
<1>5. CASE ItemsDone \/ PruneDone \/ Rebuild
  <2>1. /\ \/ call.pc = "items" /\ call.todo \cup call.writes = {} /\ call'.pc \in {"prune", "ack"}
           \/ call.pc = "delete" /\ call'.pc = "rebuild"
           \/ call.pc = "rebuild" /\ call'.pc = "publish"
        /\ call'.at = call.at
        /\ UNCHANGED <<store, cursor, open, seenIDs, seenSnap>>
    BY <1>5, <1>a DEF ItemsDone, PruneDone, Rebuild, DataOK, chunkVars, seenVars
  <2>2. call.pc = "items" => \A c \in Chunk.items : Has(c)
    BY <2>1 DEF SnapInv, ItemsInv
  <2>3. Tracked'
    BY <1>b, <1>c, <2>1, <2>2, CallTracked DEF Has
  <2>. QED  BY <1>d, <2>1, <2>3
<1>6. CASE SkipPrune \/ ListAbsent
  <2>1. /\ call.pc = "prune" /\ call'.pc \in {"rebuild", "delete"} /\ call'.at = call.at
        /\ UNCHANGED <<cursor, open>>
    BY <1>6, <1>a, Zenon DEF SkipPrune, ListAbsent, DataOK, chunkVars
  <2>2. Tracked'
    BY <1>b, <1>c, <2>1, PruneTracked
  <2>. QED  BY <1>d, <2>1, <2>2
<1>7. ASSUME NEW p \in Placements, DeleteAbsent(p)
      PROVE  Orderly'
  <2>1. /\ call.pc = "delete" /\ call'.pc = "delete" /\ call'.at = call.at
        /\ UNCHANGED <<cursor, open, seenIDs, seenSnap>>
    BY <1>7, <1>a DEF DeleteAbsent, DataOK, chunkVars, seenVars
  <2>2. \A j \in DOMAIN stream : Covered(j) => stream[j].items = {}
    BY <2>1 DEF SnapInv, SeenInv, Covered, Pids
  <2>3. Tracked'
    BY <1>b, <1>c, <2>1, <2>2, CallTracked
  <2>. QED  BY <1>d, <2>1, <2>3
<1>8. CASE PublishSyncReport
  <2>1. /\ call.pc = "publish" /\ call'.pc = "ack" /\ call'.at = call.at
        /\ UNCHANGED <<store, cursor, open, seenIDs, seenSnap>>
    BY <1>8, <1>a DEF PublishSyncReport, EndCall, NoCall, chunkVars, seenVars
  <2>2. Tracked'
    BY <1>b, <1>c, <2>1, CallTracked DEF Has
  <2>. QED  BY <1>d, <2>1, <2>2
<1>9. CASE AckChunk
  <2>1. /\ call.pc = "ack" /\ call'.pc = "idle" /\ open' = open \ {call.at}
        /\ UNCHANGED <<store, cursor, seenIDs, seenSnap>>
    BY <1>9, Zenon DEF AckChunk, NoCall, seenVars
  <2>2. Tracked'
    BY <1>b, <1>c, <2>1, CallTracked DEF Has
  <2>3. open' = {i \in DOMAIN stream : i >= cursor}
    BY <1>a, <1>b, <1>c, <2>1 DEF Orderly, CallInv
  <2>. QED  BY <1>b, <2>1, <2>2, <2>3 DEF Orderly
<1>10. CASE AckChunkLost \/ NakChunk \/ SnapCrash \/ \E i \in DOMAIN stream : TrackSeenPanics(i)
  BY <1>10, Zenon DEF AckChunkLost, NakChunk, SnapCrash, TrackSeenPanics, ConsumerRestarts
<1>11. CASE UNCHANGED snapVars
  BY <1>11, <1>c DEF snapVars, snapshotVars, chunkVars, seenVars, Orderly, Tracked, Covered, Over,
                     Pending, Has
<1>. QED
  BY <1>1, <1>2, <1>3, <1>4, <1>5, <1>6, <1>7, <1>8, <1>9, <1>10, <1>11
     DEF SnapNext, HandOut, Progress, SnapFaultStep, CallFails

-----------------------------------------------------------------------------
(* The theorems.                                                           *)

LEMMA SnapInitInv == SnapInit => SnapInv
<1> SUFFICES ASSUME SnapInit PROVE SnapInv
  OBVIOUS
<1>1. SnapTypeOK
  BY InitTypes
<1>2. call = NoCall /\ open = DOMAIN stream /\ cursor = 1 /\ seenIDs = {}
  BY Zenon DEF SnapInit, ConsumerInit
<1>3. CallInv /\ SeenInv /\ ItemsInv /\ PruneInv
  BY <1>2, ZenonT(40) DEF NoCall, CallInv, SeenInv, ItemsInv, PruneInv, Ending
<1>4. Orderly
  <2>1. \A i \in DOMAIN stream : i >= 1
    BY <1>1, StreamTyping DEF SnapTypeOK
  <2>2. \A i \in DOMAIN stream : ~(i < 1)
    BY <1>1, StreamTyping DEF SnapTypeOK
  <2>. QED  BY <1>2, <2>1, <2>2 DEF NoCall, Orderly, Tracked
<1>. QED  BY <1>1, <1>3, <1>4 DEF SnapInv, OrderInv

LEMMA SnapStepInv == SnapInv /\ [SnapNext]_snapVars => SnapInv'
<1> SUFFICES ASSUME SnapInv, [SnapNext]_snapVars PROVE SnapInv'
  OBVIOUS
<1>0. DataOK /\ FlagsOK /\ CallInv /\ SeenInv /\ ItemsInv /\ PruneInv
  BY TypeParts DEF SnapInv
<1>1. SnapTypeOK'
  <2>1. DataOK'
    BY <1>0, StepData
  <2>2. FlagsOK'
    BY <1>0, StepFlags
  <2>. QED  BY <2>1, <2>2, Zenon DEF SnapTypeOK, DataOK, FlagsOK
<1>2. CallInv' /\ SeenInv' /\ ItemsInv' /\ PruneInv'
  BY <1>0, StepCall, StepSeen, StepItems, StepPrune
<1>3. OrderInv'
  BY StepOrder, Zenon DEF OrderInv
<1>. QED  BY <1>1, <1>2, <1>3 DEF SnapInv

(* The inductive invariant holds throughout the resync.                    *)
LEMMA SnapInvariance == SnapSpec => []SnapInv
BY SnapInitInv, SnapStepInv, PTL DEF SnapSpec

(* Consumer.Handle keeps its state well typed whatever chunks come and     *)
(* whatever fails: a delivered position is on the stream, the seen set and *)
(* the rows to delete are placements, what is stored are rows.             *)
THEOREM SnapshotTypes == SnapSpec => []SnapTypeOK
<1>1. SnapInv => SnapTypeOK
  BY DEF SnapInv
<1>. QED  BY <1>1, SnapInvariance, PTL

(* Only the write of an item and the delete of a prune change the table.   *)
LEMMA StoreSteps ==
    ASSUME [SnapNext]_snapVars
    PROVE  \/ UNCHANGED store
           \/ \E c \in Commands : WriteItem(c)
           \/ \E p \in Placements : DeleteAbsent(p)
BY Zenon DEF SnapNext, HandOut, DeliverChunk, RejectChunk, DropChunk, BeginChunk,
       TrackSeenPanics, ConsumerRestarts, StartCall,
       Progress, ReadItem, ItemsDone, SkipPrune, ListAbsent,
       PruneDone, Rebuild, PublishSyncReport, AckChunk, NakChunk,
       SnapFaultStep, CallFails, SnapCrash, ItemFails, ListFails, DeleteFails,
       RebuildFails, PublishSyncReportFails, AckChunkLost, snapVars

(* A row goes only when pruneAbsent deletes it, and it was absent.         *)
LEMMA DeletesAbsent ==
    ASSUME SnapInv, [SnapNext]_snapVars, NEW p \in Placements, Deletes(p)
    PROVE  call.pc = "delete" /\ p \in call.absent
<1>1. DataOK
  BY TypeParts DEF SnapInv
<1>2. ~UNCHANGED store
  BY DEF Deletes
<1>3. ASSUME NEW c \in Commands, WriteItem(c)
      PROVE  FALSE
  BY <1>1, <1>3, ItemRow DEF WriteItem, PutPlacement, Deletes, DataOK, StoreTypeOK
<1>4. ASSUME NEW q \in Placements, DeleteAbsent(q)
      PROVE  call.pc = "delete" /\ p \in call.absent
  BY <1>1, <1>4 DEF DeleteAbsent, DeletePlacement, Deletes, DataOK, StoreTypeOK
<1>. QED  BY <1>2, <1>3, <1>4, StoreSteps

(* pruneAbsent never deletes a placement its snapshot lists, if the        *)
(* snapshot came in one chunk (whatever fails or is redelivered), or in    *)
(* order and with nothing gone wrong since the start.                      *)
THEOREM UndividedSnapshotsPruneSafely == SnapSpec => UndividedPrunesOnlyUnlisted
<1>1. SnapInv /\ [SnapNext]_snapVars =>
          (call.pc = "delete" /\ Undivided(Chunk.snap) => KeepsListed(Chunk.snap))
  <2>1. SUFFICES ASSUME SnapInv, [SnapNext]_snapVars, call.pc = "delete", Undivided(Chunk.snap),
                        NEW p \in Pids(Inventory(stream, Chunk.snap)), Deletes(p)
                 PROVE  FALSE
    BY <2>1 DEF KeepsListed
  <2>2. p \notin call.absent
    BY <2>1, Zenon DEF SnapInv, PruneInv
  <2>3. p \in Placements
    BY <2>1, StreamTyping, ItemRow DEF SnapInv, SnapTypeOK, Pids, Inventory, ChunksOf
  <2>. QED  BY <2>1, <2>2, <2>3, DeletesAbsent
<1>2. SnapInv /\ [SnapNext]_snapVars =>
          [call.pc = "delete" /\ Undivided(Chunk.snap) => KeepsListed(Chunk.snap)]_snapVars
  BY <1>1
<1>. QED  BY <1>2, SnapInvariance, PTL DEF SnapSpec, UndividedPrunesOnlyUnlisted

(* A snapshot that lists nothing deletes nothing, in whatever order its    *)
(* chunks come: the last-known-good state is preserved.                    *)
THEOREM EmptySnapshotsPruneNothing == SnapSpec => EmptySnapshotKeepsAll
<1>1. SnapInv /\ [SnapNext]_snapVars =>
          [\A p \in Placements : Deletes(p) => Inventory(stream, Chunk.snap) # {}]_snapVars
  BY DeletesAbsent DEF SnapInv, PruneInv
<1>. QED  BY <1>1, SnapInvariance, PTL DEF SnapSpec, EmptySnapshotKeepsAll

(* applyItem never replaces a row by one of the same or an earlier         *)
(* version, although it reads and writes in two transactions while other   *)
(* items of the chunk are applied.                                         *)
THEOREM ItemsMoveForward == SnapSpec => ItemsNeverOverwriteNewer
<1>1. ASSUME SnapInv, [SnapNext]_snapVars, NEW p \in Placements,
             Found(store[p]), Found(store'[p]), store'[p] # store[p]
      PROVE  store'[p].op > store[p].op
  <2>1. DataOK
    BY <1>1, TypeParts DEF SnapInv
  <2>2. PICK c \in Commands : WriteItem(c)
    <3>1. ASSUME NEW q \in Placements, DeleteAbsent(q)
          PROVE  FALSE
      BY <1>1, <2>1, <3>1 DEF DeleteAbsent, DeletePlacement, DataOK, StoreTypeOK, Found
    <3>. QED  BY <1>1, <3>1, StoreSteps
  <2>3. ItemIsNews(c) /\ store' = [store EXCEPT ![c.pid] = Row(c, "applied")]
    BY <1>1, <2>2 DEF WriteItem, PutPlacement, SnapInv, ItemsInv
  <2>4. c.pid = p /\ store'[p] = Row(c, "applied")
    BY <1>1, <2>1, <2>3 DEF DataOK, StoreTypeOK
  <2>5. store[p].op \in Nat
    BY <1>1, <2>1 DEF DataOK, StoreTypeOK, Found, RowType
  <2>. QED  BY <1>1, <2>3, <2>4, <2>5, ItemRow DEF ItemIsNews
<1>2. SnapInv /\ [SnapNext]_snapVars =>
          [\A p \in Placements :
             Found(store[p]) /\ Found(store'[p]) /\ store'[p] # store[p] =>
                 store'[p].op > store[p].op]_snapVars
  BY <1>1
<1>. QED  BY <1>2, SnapInvariance, PTL DEF SnapSpec, ItemsNeverOverwriteNewer

(* A sync report is published only for the snapshot of the last chunk in   *)
(* hand, and for an undivided one what it says is true: the table has      *)
(* every item listed, at its version or a later one, and nothing else.     *)
THEOREM SyncReportsAreTrue == SnapSpec => SyncReportIsTrue
<1>1. ASSUME SnapInv, [SnapNext]_snapVars, NEW s \in syncReports' \ syncReports, Undivided(s)
      PROVE  /\ \A c \in Inventory(stream, s) : Found(store[c.pid]) /\ store[c.pid].op >= c.op
             /\ Inventory(stream, s) # {} => ListPlacements \subseteq Pids(Inventory(stream, s))
  <2>1. syncReports' # syncReports
    BY <1>1
  <2>2. PublishSyncReport \/ PublishSyncReportFails
    BY <1>1, <2>1, Zenon
       DEF SnapNext, HandOut, DeliverChunk, RejectChunk, DropChunk, BeginChunk,
           TrackSeenPanics, ConsumerRestarts, StartCall, outcome,
           Progress, ReadItem, WriteItem, ItemsDone, SkipPrune, ListAbsent,
           PruneDone, DeleteAbsent, Rebuild, AckChunk, NakChunk,
           SnapFaultStep, CallFails, SnapCrash, ItemFails, ListFails, DeleteFails,
           RebuildFails, AckChunkLost, snapVars, snapshotVars
  <2>3. call.pc = "publish" /\ s = Chunk.snap
    BY <1>1, <2>2 DEF PublishSyncReport, PublishSyncReportFails
  <2>. QED  BY <1>1, <2>3 DEF SnapInv, PruneInv, Has
<1>2. SnapInv /\ [SnapNext]_snapVars =>
          [\A s \in syncReports' \ syncReports :
             Undivided(s) =>
               /\ \A c \in Inventory(stream, s) : Found(store[c.pid]) /\ store[c.pid].op >= c.op
               /\ Inventory(stream, s) # {} =>
                      ListPlacements \subseteq Pids(Inventory(stream, s))]_snapVars
  BY <1>1
<1>. QED  BY <1>2, SnapInvariance, PTL DEF SnapSpec, SyncReportIsTrue
=============================================================================
