----------------------------- MODULE BipStream -----------------------------
(***************************************************************************)
(* One bip buffer between a writer that reserves, fills and commits and a  *)
(* reader that compacts and releases, as the header of osnet/bipbuffer.c   *)
(* allows them to be called: Reserve and Commit come in pairs, and the     *)
(* reader may release bytes between the two.  Only Compact, Clear and      *)
(* AllocateBuffer, which move or drop the committed bytes, need that no    *)
(* reservation is outstanding (epFUI_OnRecv never calls them in between).  *)
(***************************************************************************)
EXTENDS BipBuffer

CONSTANTS Byte,     \* the values a byte may have
          BUFLEN    \* the length the buffer is allocated with

ASSUME BufferAssumption == /\ BUFLEN \in Nat \ {0}
                           /\ ZeroByte \in Byte

VARIABLES bb,       \* the struct bipbuffer
          pending   \* a successful Reserve has not been followed by its Commit

vars == <<bb, pending>>

Init == /\ bb = AllocateBuffer(InitBuffer, BUFLEN)
        /\ pending = FALSE

\* The writer asks for size bytes; NULL leaves the buffer as it was.
DoReserve(size) ==
    /\ ~pending
    /\ bb' = Reserve(bb, size)
    /\ pending' = (FreeSpace(bb) # 0)

\* recv() put s into the reserved region, and size is committed.  A size that
\* is larger than the reservation is clipped to it.
DoCommit(size, s) ==
    /\ pending
    /\ bb' = Commit(Fill(bb, s), size)
    /\ pending' = FALSE

\* recv() failed: Commit(-1) keeps the reservation, which is never used again.
DoCommitFailed ==
    /\ pending
    /\ bb' = Commit(bb, -1)
    /\ pending' = FALSE

DoDecommitBlock(size) ==
    /\ bb' = DecommitBlock(bb, size)
    /\ UNCHANGED pending

DoDecommitMulti(size) ==
    /\ bb' = DecommitMulti(bb, size)
    /\ UNCHANGED pending

DoDecommitTo(k) ==
    /\ k < GetUsedSize(bb)
    /\ bb' = DecommitTo(bb, k)
    /\ UNCHANGED pending

\* bipbuffer_GetUnContiguousBlock.
DoCompact ==
    /\ ~pending
    /\ bb' = GetUnContiguousBlock(bb)
    /\ UNCHANGED pending

DoClear ==
    /\ ~pending
    /\ bb' = Clear(bb)
    /\ UNCHANGED pending

DoFree ==
    /\ ~pending
    /\ bb' = FreeBuffer(bb)
    /\ UNCHANGED pending

DoAllocate ==
    /\ ~pending
    /\ bb' = AllocateBuffer(bb, BUFLEN)
    /\ UNCHANGED pending

\* What recv() may write for a commit of size bytes.
Received(size) == [1 .. Smaller(size, bb.szResrv) -> Byte]

Next ==
    \/ \E size \in 1 .. BUFLEN : DoReserve(size)
    \/ \E size \in 0 .. BUFLEN : \E s \in Received(size) : DoCommit(size, s)
    \/ DoCommitFailed
    \/ \E size \in 0 .. BUFLEN + 1 : DoDecommitBlock(size)
    \/ \E size \in 0 .. BUFLEN + 1 : DoDecommitMulti(size)
    \/ \E k \in 0 .. BUFLEN - 1 : DoDecommitTo(k)
    \/ DoCompact
    \/ DoClear
    \/ DoFree
    \/ DoAllocate

Spec == Init /\ [][Next]_vars

-----------------------------------------------------------------------------

Memory == [{} -> Byte] \cup [0 .. BUFLEN - 1 -> Byte]

BufferType ==
    [mem : Memory, buflen : {0, BUFLEN},
     ixa : 0 .. BUFLEN, sza : 0 .. BUFLEN, ixb : {0}, szb : 0 .. BUFLEN,
     ixResrv : 0 .. BUFLEN, szResrv : 0 .. BUFLEN]

\* The buffer's fields stay in their ranges, its memory is as long as buflen
\* says, and ixb never leaves 0.
TypeOK == /\ bb \in BufferType
          /\ DOMAIN bb.mem = 0 .. bb.buflen - 1
          /\ pending \in BOOLEAN

\* Commit and DecommitBlock keep the two blocks apart and inside the memory,
\* and bring an emptied buffer back to offset 0, over any sequence of calls.
BlocksDisjoint == BlocksOK(bb)

\* While the writer holds a reservation recv() may write anywhere in it: it
\* touches no live byte, and Commit will find it exactly behind the youngest
\* block, however much the reader has released since Reserve.
ReservationSafe == pending => ReservationOK(bb)

\* bipbuffer_DecommitMulti releases exactly the bytes asked for, counted over
\* both blocks, however the contents are split between A and B.
DecommitMultiExact ==
    \A n \in 0 .. BUFLEN :
        Contents(DecommitMulti(bb, n)) = SubSeq(Contents(bb), n + 1, GetUsedSize(bb))

\* Free space is never lost for good: when two blocks exist, compaction makes
\* every byte that is not in use available to the next Reserve, and an empty
\* buffer offers its whole length.
FreeSpaceRecoverable ==
    bb.sza = 0 \/ bb.szb > 0 =>
        FreeSpace(GetUnContiguousBlock(bb)) = bb.buflen - GetUsedSize(bb)

-----------------------------------------------------------------------------

Fifo == INSTANCE ByteFifo WITH q <- Contents(bb), Capacity <- BUFLEN

\* The bip buffer is a byte queue: the committed bytes, A's then B's, are at
\* every step extended at the end, cut at the front or left as they are; in
\* particular compaction and the promotion of B to A change nothing a reader
\* can see.
FifoSpec == Fifo!Spec
=============================================================================
