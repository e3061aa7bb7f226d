----------------------------- MODULE MCSnapshot ------------------------------
(***************************************************************************)
(* The snapshot consumer on small chunk streams over three placements, the *)
(* first of them with two versions.  The table starts with any rows that   *)
(* commands may have left.                                                 *)
(***************************************************************************)
EXTENDS SnapshotConsumer

CONSTANTS p1, p2, p3, u1, b1, s1, s2

Cmd(p, o) ==
    [pid |-> p, op |-> o, desired |-> "active", revoked |-> FALSE, client |-> u1, backend |-> b1]

MCCommands == {Cmd(p1, 1), Cmd(p1, 2), Cmd(p2, 1), Cmd(p3, 1)}

ChunkOf(kind, s, last, items) == [kind |-> kind, snap |-> s, last |-> last, items |-> items]

(* Snapshots of one chunk each, between a foreign and an undecodable one.  *)
WholeSnapshots ==
    {<<ChunkOf("garbage", s1, TRUE, {}),
       ChunkOf("chunk", s1, TRUE, {Cmd(p1, 1), Cmd(p2, 1)}),
       ChunkOf("foreign", s1, TRUE, {Cmd(p3, 1)}),
       ChunkOf("chunk", s2, TRUE, {Cmd(p1, 2), Cmd(p3, 1)})>>}

(* A snapshot cut into two chunks, followed by another one or by an empty  *)
(* one, and one whose last chunk is empty.                                 *)
CutSnapshots ==
    {<<ChunkOf("chunk", s1, FALSE, {Cmd(p1, 1)}),
       ChunkOf("chunk", s1, TRUE, {Cmd(p2, 1)}),
       ChunkOf("chunk", s2, TRUE, {Cmd(p1, 2), Cmd(p3, 1)})>>,
     <<ChunkOf("chunk", s1, FALSE, {Cmd(p1, 2), Cmd(p2, 1)}),
       ChunkOf("chunk", s1, TRUE, {}),
       ChunkOf("chunk", s2, TRUE, {})>>}

(* Two snapshots whose chunks are mixed.                                   *)
MixedSnapshots ==
    {<<ChunkOf("chunk", s1, FALSE, {Cmd(p1, 2)}),
       ChunkOf("chunk", s2, TRUE, {Cmd(p2, 1)}),
       ChunkOf("chunk", s1, TRUE, {Cmd(p3, 1)})>>}

(* A snapshot without an ID.                                               *)
Unnamed == {<<ChunkOf("chunk", NoSnapshot, TRUE, {Cmd(p1, 2), Cmd(p2, 1)})>>}

AllStreams == WholeSnapshots \cup CutSnapshots \cup MixedSnapshots \cup Unnamed

OneCutSnapshot ==
    {<<ChunkOf("chunk", s1, FALSE, {Cmd(p1, 1)}),
       ChunkOf("chunk", s1, TRUE, {Cmd(p2, 1)})>>}
=============================================================================
