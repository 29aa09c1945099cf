---------------------------- MODULE MCRecvPath ----------------------------
(***************************************************************************)
(* RecvPath with a ring of 12 bytes for the 30000 of the code, frames of   *)
(* at least 4 bytes and tags of 2, so that a tag can be split by the end   *)
(* of a read and by the end of the ring.  Every stream is a few segments.  *)
(***************************************************************************)
EXTENDS RecvPath, TLC

\* Segments, as a kind and a length.
F(n) == <<"frame", n>>
BadTail(n) == <<"badtail", n>>
BadLen(n) == <<"badlen", n>>
Garbage(n) == <<"garbage", n>>

\* The bytes of the segments, one segment after the other.
StreamOf(segs) ==
    LET Total[k \in 0 .. Len(segs)] == IF k = 0 THEN 0 ELSE Total[k - 1] + segs[k][2]
        SegAt(p) == CHOOSE k \in 1 .. Len(segs) : Total[k - 1] < p /\ p <= Total[k]
    IN  [p \in 1 .. Total[Len(segs)] |->
            LET k == SegAt(p)
            IN  [seg |-> k, off |-> p - Total[k - 1] - 1, len |-> segs[k][2],
                 kind |-> segs[k][1]]]

\* Frames of at most half of the ring or longer than the ring, in every
\* position relative to the ring's end, among broken frames and garbage.
MCDrainStreams == {StreamOf(s) : s \in {
    <<F(6), F(6), F(5), F(6)>>,
    <<F(6), F(4), F(14), F(5)>>,
    <<Garbage(1), F(5), BadTail(5), F(6)>>,
    <<F(4), Garbage(3), F(6), Garbage(5), F(5)>>,
    <<BadLen(5), F(6), BadLen(14), F(4)>>,
    <<F(6), BadTail(13), Garbage(2), F(4)>> }}

\* The same with frames for which the ring can get stuck, and frames of
\* exactly its length.
MCStreams == MCDrainStreams \union {StreamOf(s) : s \in {
    <<F(4), F(5), F(6), F(4), F(5)>>,
    <<F(5), F(13), F(14), F(4)>>,
    <<Garbage(7), F(14), BadLen(4), F(4)>>,
    <<F(4), F(4), F(11)>>,
    <<F(5), F(12), F(7), F(4)>>,
    <<F(4), BadTail(10), F(8), F(13)>> }}

\* A frame that fits the ring but is longer than half of it.
MCLongFrameStreams == {StreamOf(<<F(4), F(4), F(11)>>)}

\* A frame longer than the ring.
MCLargeFrameStreams == {StreamOf(<<F(5), F(13), F(4)>>)}
=============================================================================
