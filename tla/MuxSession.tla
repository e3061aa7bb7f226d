----------------------------- MODULE MuxSession -----------------------------
(***************************************************************************)
(* A multiplexed client connection of the entry proxy: the server side of  *)
(* third_party/sing-vmess/mux.go, with the proxy's handleConn on top of    *)
(* every stream.  One goroutine (recv) reads frames and hands the data of  *)
(* a stream over through an unbuffered pipe, so it waits until the         *)
(* stream's handler reads or the pipe is closed.  The handlers and the     *)
(* closers write frames into one buffered writer under a mutex.  To flush  *)
(* once for many, each writer draws a number before it takes the mutex and *)
(* flushes only if no number was drawn after its own (writeRace).  A mutex *)
(* may be given to waiters in any order.  Packets that are written past    *)
(* the buffer (WritePacket) take no number and are left out.               *)
(*                                                                         *)
(* The peer is a mux client that never uses a stream ID twice.  Data is    *)
(* left out: a frame matters for the step it makes the session take.  The  *)
(* context above the session's is cancelled only as the process stops, so  *)
(* the session's is cancelled by recv.                                     *)
(***************************************************************************)
EXTENDS Naturals, Sequences, Functions

CONSTANTS
    Streams,        \* stream (session) IDs
    NoStream

VARIABLES
    peer,           \* per stream: what the client has sent of it
    recv,           \* the goroutine that reads frames
    streams,        \* the session's table of streams
    pipe,           \* per stream: the pipe from recv to the handler
    handler,        \* per stream: the proxy's handler
    writing,        \* per writer: its progress through syncWrite or syncClose
    numbers,        \* the writers with a number, in the order they drew
    late,           \* those of them that a later number wrote before
    buffered,       \* the frames that are not flushed: "late" or "prompt"
    broken,         \* whether the connection to the client can be written to
    cancelled       \* the session's context: "no", "yes", or "cleaned"

writeVars == <<numbers, late, buffered>>
muxVars == <<peer, recv, streams, pipe, handler, writing, writeVars, broken,
             cancelled>>

(* Who writes frames of stream i: the download direction of its relay, its *)
(* Close, the answer to a frame of a stream that is gone, and recv itself. *)
Writers == Streams \X {"down", "close", "stray", "recv"}

Reading == [pc |-> "frame", on |-> NoStream]

MuxTypeOK ==
    /\ peer \in [Streams -> {"unopened", "open", "ended"}]
    /\ recv \in [pc: {"frame", "pipe", "close", "done"}, on: Streams \cup {NoStream}]
    /\ streams \subseteq Streams
    /\ pipe \in [Streams -> {"none", "open", "closed"}]
    /\ handler \in [Streams -> {"none", "dialing", "relaying", "shut", "done"}]
    /\ writing \in [Writers -> {"idle", "called", "queued", "wrote"}]
    /\ numbers \in Seq(Writers) /\ late \subseteq Range(numbers)
    /\ buffered \subseteq {"late", "prompt"}
    /\ broken \in BOOLEAN
    /\ cancelled \in {"no", "yes", "cleaned"}

MuxInit ==
    /\ peer = [i \in Streams |-> "unopened"]
    /\ recv = Reading
    /\ streams = {}
    /\ pipe = [i \in Streams |-> "none"]
    /\ handler = [i \in Streams |-> "none"]
    /\ writing = [w \in Writers |-> "idle"]
    /\ numbers = <<>> /\ late = {} /\ buffered = {}
    /\ broken = FALSE
    /\ cancelled = "no"

-----------------------------------------------------------------------------

(* Writing: draw a number, take the mutex and write, flush and release.    *)

Calls(w) == writing' = [writing EXCEPT ![w] = "called"]

Draws(w) ==
    /\ writing[w] = "called"
    /\ writing' = [writing EXCEPT ![w] = "queued"]
    /\ numbers' = Append(numbers, w)
    /\ UNCHANGED <<peer, recv, streams, pipe, handler, late, buffered, broken,
                   cancelled>>

MutexFree == \A w \in Writers : writing[w] # "wrote"

(* As in SequencesExt.                                                     *)
Last(s) == s[Len(s)]
RemoveAt(s, i) == SubSeq(s, 1, i - 1) \o SubSeq(s, i + 1, Len(s))

(* The place of w among the writers with a number, and those before it.    *)
Place(w) == CHOOSE k \in DOMAIN numbers : numbers[k] = w
Before(w) == {numbers[k] : k \in 1..Place(w) - 1}

Writes(w) ==
    /\ writing[w] = "queued" /\ MutexFree /\ ~broken
    /\ writing' = [writing EXCEPT ![w] = "wrote"]
    /\ buffered' = buffered \cup {IF w \in late THEN "late" ELSE "prompt"}
    /\ late' = late \cup Before(w)
    /\ UNCHANGED <<peer, recv, streams, pipe, handler, numbers, broken, cancelled>>

(* w is done with its number.                                              *)
Leaves(w) ==
    /\ writing' = [writing EXCEPT ![w] = "idle"]
    /\ numbers' = RemoveAt(numbers, Place(w))
    /\ late' = late \ {w}
    /\ UNCHANGED <<peer, recv, streams, pipe, handler, broken, cancelled>>

WriteFails(w) ==
    /\ writing[w] = "queued" /\ MutexFree /\ broken
    /\ Leaves(w)
    /\ UNCHANGED buffered

(* No number was drawn after that of w.                                    *)
IsLatest(w) == w = Last(numbers) /\ w \notin late

(* Faulty variant: the end of a stream waits for the next frame's flush.   *)
FlushesData(w) ==
    /\ writing[w] = "wrote"
    /\ buffered' = IF IsLatest(w) /\ w[2] # "close" THEN {} ELSE buffered
    /\ Leaves(w)

Flushes(w) ==
    /\ writing[w] = "wrote"
    /\ buffered' = IF IsLatest(w) THEN {} ELSE buffered
    /\ Leaves(w)

(* The connection to the client fails: writes do from now on.              *)
Breaks ==
    /\ ~broken
    /\ broken' = TRUE
    /\ UNCHANGED <<peer, recv, streams, pipe, handler, writing, writeVars, cancelled>>

-----------------------------------------------------------------------------

(* Closing.                                                                *)


localClose(i) ==
    /\ streams' = streams \ {i}
    /\ pipe' = [pipe EXCEPT ![i] = IF i \in streams THEN "closed" ELSE @]

(* close, by writer w: the peer is told if the stream was in the table.    *)
closeStream(i, w) ==
    /\ localClose(i)
    /\ IF i \in streams THEN Calls(w) ELSE UNCHANGED writing

(* Faulty variant: the table is dropped instead of closing its pipes.      *)
CleanupDropsTable ==
    /\ cancelled = "yes"
    /\ cancelled' = "cleaned"
    /\ streams' = {}
    /\ UNCHANGED <<peer, recv, pipe, handler, writing, writeVars, broken>>

(* The goroutine that waits for the context: the table keeps its streams.  *)
Cleanup ==
    /\ cancelled = "yes"
    /\ cancelled' = "cleaned"
    /\ pipe' = [i \in Streams |-> IF i \in streams THEN "closed" ELSE pipe[i]]
    /\ UNCHANGED <<peer, recv, streams, handler, writing, writeVars, broken>>

-----------------------------------------------------------------------------

(* recv, by the status of the frame.  A frame with data hands it over.     *)

HandsOver(i) == recv' \in {Reading, [pc |-> "pipe", on |-> i]}

NewFrame(i) ==
    /\ recv = Reading /\ peer[i] = "unopened"
    /\ peer' = [peer EXCEPT ![i] = "open"]
    /\ streams' = streams \cup {i}
    /\ pipe' = [pipe EXCEPT ![i] = "open"]
    /\ handler' = [handler EXCEPT ![i] = "dialing"]
    /\ HandsOver(i)
    /\ UNCHANGED <<writing, writeVars, broken,
                   cancelled>>

KeepFrame(i) ==
    /\ recv = Reading /\ peer[i] = "open" /\ i \in streams
    /\ HandsOver(i)
    /\ UNCHANGED <<peer, streams, pipe, handler, writing, writeVars, broken, cancelled>>

(* The data of a stream that is gone is dropped and the peer told again.   *)
(* Bound: one such answer at a time per stream.                            *)
StrayFrame(i) ==
    /\ recv = Reading /\ peer[i] = "open" /\ i \notin streams
    /\ writing[<<i, "stray">>] = "idle"
    /\ Calls(<<i, "stray">>)
    /\ UNCHANGED <<peer, recv, streams, pipe, handler, writeVars, broken, cancelled>>

EndFrame(i) ==
    /\ recv = Reading /\ peer[i] = "open"
    /\ peer' = [peer EXCEPT ![i] = "ended"]
    /\ localClose(i)
    /\ UNCHANGED <<recv, handler, writing, writeVars,
                   broken, cancelled>>

(* The connection ends, a read times out, or a frame cannot be read.       *)
RecvEnds ==
    /\ recv = Reading
    /\ recv' = [Reading EXCEPT !.pc = "done"]
    /\ cancelled' = "yes"
    /\ UNCHANGED <<peer, streams, pipe, handler, writing, writeVars, broken>>

PipeRead ==
    /\ recv.pc = "pipe" /\ pipe[recv.on] = "open" /\ handler[recv.on] = "relaying"
    /\ recv' = Reading
    /\ UNCHANGED <<peer, streams, pipe, handler, writing, writeVars, broken, cancelled>>

(* recvTo failed: the session closes the stream.                           *)
PipeClosed ==
    /\ recv.pc = "pipe" /\ pipe[recv.on] = "closed"
    /\ closeStream(recv.on, <<recv.on, "recv">>)
    /\ recv' = [recv EXCEPT !.pc = "close"]
    /\ UNCHANGED <<peer, handler, writeVars, broken,
                   cancelled>>

(* close returns an error if its frame could not be written.               *)
RecvClosed ==
    /\ recv.pc = "close" /\ writing[<<recv.on, "recv">>] = "idle"
    /\ \/ /\ recv' = Reading
          /\ UNCHANGED cancelled
       \/ /\ broken
          /\ recv' = [Reading EXCEPT !.pc = "done"]
          /\ cancelled' = "yes"
    /\ UNCHANGED <<peer, streams, pipe, handler, writing, writeVars, broken>>

-----------------------------------------------------------------------------

(* The handler of a stream: handleConn.                                    *)

HandlerMoves(i, to) == handler' = [handler EXCEPT ![i] = to]

Dials(i) ==
    /\ handler[i] = "dialing"
    /\ \/ /\ HandlerMoves(i, "relaying")
          /\ UNCHANGED <<streams, pipe, writing>>
       \/ /\ HandlerMoves(i, "shut")
          /\ closeStream(i, <<i, "close">>)
    /\ UNCHANGED <<peer, recv, writeVars, broken,
                   cancelled>>

(* The backend sent something.                                             *)
SendsDown(i) ==
    /\ handler[i] = "relaying" /\ writing[<<i, "down">>] = "idle"
    /\ Calls(<<i, "down">>)
    /\ UNCHANGED <<peer, recv, streams, pipe, handler, writeVars, broken, cancelled>>

RelayEnds(i) ==
    /\ handler[i] = "relaying"
    /\ HandlerMoves(i, "shut")
    /\ closeStream(i, <<i, "close">>)
    /\ UNCHANGED <<peer, recv, writeVars, broken,
                   cancelled>>

(* The upload direction reads the end of the pipe: relay closes both ends. *)
UploadEnds(i) == pipe[i] = "closed" /\ RelayEnds(i)

(* The backend or the client connection ends the relay.                    *)
FarEnds(i) == RelayEnds(i)

HandlerReturns(i) ==
    /\ handler[i] = "shut"
    /\ writing[<<i, "down">>] = "idle" /\ writing[<<i, "close">>] = "idle"
    /\ HandlerMoves(i, "done")
    /\ UNCHANGED <<peer, recv, streams, pipe, writing, writeVars, broken, cancelled>>

-----------------------------------------------------------------------------

(* What the goroutines do unless they wait for one another.                *)
StreamProceeds(i) == Dials(i) \/ UploadEnds(i) \/ HandlerReturns(i)
WriterProceeds(w) == Draws(w) \/ Writes(w) \/ WriteFails(w) \/ Flushes(w)
RecvProceeds == PipeRead \/ PipeClosed \/ RecvClosed

MuxNext ==
    \/ \E i \in Streams :
           \/ NewFrame(i) \/ KeepFrame(i) \/ StrayFrame(i) \/ EndFrame(i)
           \/ SendsDown(i) \/ FarEnds(i)
           \/ StreamProceeds(i)
    \/ \E w \in Writers : WriterProceeds(w)
    \/ RecvProceeds
    \/ RecvEnds \/ Cleanup \/ Breaks

MuxSpec == MuxInit /\ [][MuxNext]_muxVars

(* When no number is out, a frame is left unflushed only if a writer with  *)
(* a later number got the mutex before its own writer did; a writer in its *)
(* turn is flushed, by itself or by one that comes after it (syncWrite,    *)
(* syncClose, mux.go:237, 348).                                            *)
OnlyLateFramesLeft == numbers = <<>> /\ ~broken => buffered \subseteq {"late"}

(* When the session is over every handler returns: Cleanup closes the      *)
(* pipes they read, and those not in the table any more are closed already *)
(* (cleanup, mux.go:71; localClose, mux.go:336).                           *)
StreamsEndWithSession ==
    recv.pc = "done" ~> \A i \in Streams : handler[i] \in {"none", "done"}

=============================================================================
