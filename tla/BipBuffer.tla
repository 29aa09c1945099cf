----------------------------- MODULE BipBuffer -----------------------------
(***************************************************************************)
(* The bip buffer of osnet/bipbuffer.c: a ring buffer whose live bytes are *)
(* always one or two contiguous blocks.  Block A starts at ixa and holds   *)
(* the older bytes; block B, when there is one, starts at ixb and holds    *)
(* the younger bytes.  A writer first reserves a contiguous region, lets   *)
(* recv() write into it, and then commits what was written.                *)
(*                                                                         *)
(* A struct bipbuffer is a record value with the fields of the C struct;   *)
(* mem is the memory behind pBuffer, a function on 0 .. buflen-1 (the      *)
(* empty function when pBuffer is NULL).  Every bipbuffer_X of the source  *)
(* that changes the struct is an operator X that returns the new record.   *)
(***************************************************************************)
EXTENDS Integers, Sequences

\* The byte that memset() fills fresh memory with.
ZeroByte == 0

Smaller(x, y) == IF x <= y THEN x ELSE y

-----------------------------------------------------------------------------
(* Creation and release. *)

\* bipbuffer_Init: memset of the whole struct.
InitBuffer ==
    [mem |-> [i \in {} |-> ZeroByte], buflen |-> 0,
     ixa |-> 0, sza |-> 0, ixb |-> 0, szb |-> 0, ixResrv |-> 0, szResrv |-> 0]

\* bipbuffer_Clear: the struct's indices only, the memory keeps its bytes.
Clear(b) ==
    [b EXCEPT !.ixa = 0, !.sza = 0, !.ixb = 0, !.szb = 0,
              !.ixResrv = 0, !.szResrv = 0]

\* bipbuffer_FreeBuffer: a reservation (ixResrv, szResrv) is left as it is.
FreeBuffer(b) ==
    IF b.buflen = 0
    THEN b
    ELSE [b EXCEPT !.mem = [i \in {} |-> ZeroByte], !.buflen = 0,
                   !.ixa = 0, !.sza = 0, !.ixb = 0, !.szb = 0]

\* bipbuffer_AllocateBuffer, which frees the memory the buffer already has.
AllocateBuffer(b, buffersize) ==
    IF buffersize <= 0
    THEN b
    ELSE [FreeBuffer(b) EXCEPT !.buflen = buffersize,
                               !.mem = [i \in 0 .. buffersize - 1 |-> ZeroByte]]

-----------------------------------------------------------------------------
(* What the getters report. *)

GetSpaceAfterA(b) == b.buflen - b.ixa - b.sza

GetBFreeSpace(b) == b.ixa - b.ixb - b.szb

GetUsedSize(b) == b.sza + b.szb

\* bipbuffer_GetContiguousBlock: the bytes of block A.
ContiguousBlock(b) == [i \in 1 .. b.sza |-> b.mem[b.ixa + i - 1]]

\* All committed bytes, oldest first: block A followed by block B.
Contents(b) ==
    [i \in 1 .. b.sza + b.szb |->
        IF i <= b.sza THEN b.mem[b.ixa + i - 1] ELSE b.mem[b.ixb + i - 1 - b.sza]]

-----------------------------------------------------------------------------
(* Writing: Reserve, recv() into the reserved region, Commit. *)

\* The most bytes a reservation can get now: the rest of the gap before A
\* when B exists, else the larger of the gaps after and before A.
FreeSpace(b) ==
    IF b.szb # 0
    THEN GetBFreeSpace(b)
    ELSE IF GetSpaceAfterA(b) >= b.ixa THEN GetSpaceAfterA(b) ELSE b.ixa

ReserveAt(b) ==
    IF b.szb # 0
    THEN b.ixb + b.szb
    ELSE IF GetSpaceAfterA(b) >= b.ixa THEN b.ixa + b.sza ELSE 0

\* Faulty variants of Reserve: the reservation is not limited to the gap it lies
\* in; it is limited to the free bytes of the whole buffer.
ReserveUnlimited(b, size) ==
    IF FreeSpace(b) = 0
    THEN b
    ELSE [b EXCEPT !.ixResrv = ReserveAt(b), !.szResrv = size]
ReserveAllFreeBytes(b, size) ==
    IF FreeSpace(b) = 0
    THEN b
    ELSE [b EXCEPT !.ixResrv = ReserveAt(b),
                   !.szResrv = Smaller(size, b.buflen - GetUsedSize(b))]

\* bipbuffer_Reserve returns NULL, and changes nothing, when FreeSpace(b) = 0.
Reserve(b, size) ==
    IF FreeSpace(b) = 0
    THEN b
    ELSE [b EXCEPT !.ixResrv = ReserveAt(b),
                   !.szResrv = Smaller(size, FreeSpace(b))]

\* What recv() does to the memory: s is written at the reserved address.
Fill(b, s) ==
    [b EXCEPT !.mem = [i \in DOMAIN b.mem |->
        IF i - b.ixResrv + 1 \in 1 .. Len(s) THEN s[i - b.ixResrv + 1] ELSE b.mem[i]]]

\* A faulty variant of Commit: new bytes are always put on A's account.
CommitAlwaysToA(b, size) ==
    IF size < 0
    THEN b
    ELSE LET t == Smaller(size, b.szResrv)
             done == [b EXCEPT !.ixResrv = 0, !.szResrv = 0]
         IN  IF b.sza = 0 /\ b.szb = 0
             THEN [done EXCEPT !.ixa = b.ixResrv, !.sza = t]
             ELSE [done EXCEPT !.sza = b.sza + t]

\* bipbuffer_Commit: a negative size (a failed recv) keeps the reservation, 0
\* drops it, and more than was reserved is clipped.
Commit(b, size) ==
    LET t    == Smaller(size, b.szResrv)
        done == [b EXCEPT !.ixResrv = 0, !.szResrv = 0]
    IN  IF size < 0
        THEN b
        ELSE IF size = 0
        THEN done
        ELSE IF b.sza = 0 /\ b.szb = 0
        THEN [done EXCEPT !.ixa = b.ixResrv, !.sza = t]
        ELSE IF b.ixResrv = b.sza + b.ixa
        THEN [done EXCEPT !.sza = b.sza + t]
        ELSE [done EXCEPT !.szb = b.szb + t]

-----------------------------------------------------------------------------
(* Reading: compaction and release of the oldest bytes. *)

\* A faulty variant: the bytes of B are put before those of A.
CompactBFirst(b) ==
    IF b.sza = 0 \/ b.szb = 0
    THEN b
    ELSE [b EXCEPT !.ixa = 0, !.sza = b.sza + b.szb, !.ixb = 0, !.szb = 0,
                   !.mem = [i \in DOMAIN b.mem |->
                       IF i < b.szb THEN b.mem[b.ixb + i]
                       ELSE IF i < b.sza + b.szb THEN b.mem[b.ixa + i - b.szb]
                       ELSE b.mem[i]]]

\* bipbuffer_GetUnContiguousBlock: A and B are copied to the buffer's start and
\* become one block; with only one block nothing moves.
GetUnContiguousBlock(b) ==
    IF b.sza = 0 \/ b.szb = 0
    THEN b
    ELSE [b EXCEPT !.ixa = 0, !.sza = b.sza + b.szb, !.ixb = 0, !.szb = 0,
                   !.mem = [i \in DOMAIN b.mem |->
                       IF i < b.sza + b.szb THEN Contents(b)[i + 1] ELSE b.mem[i]]]

\* A faulty variant of DecommitBlock: a size equal to A's leaves an empty A.
DecommitKeepsEmptyA(b, size) ==
    IF size < 0 \/ size > b.sza
    THEN [b EXCEPT !.ixa = b.ixb, !.sza = b.szb, !.ixb = 0, !.szb = 0]
    ELSE [b EXCEPT !.sza = b.sza - size, !.ixa = b.ixa + size]

\* bipbuffer_DecommitBlock compares as unsigned: a negative size is larger
\* than every block.  At most block A is released; then B becomes A.
DecommitBlock(b, size) ==
    IF size < 0 \/ size >= b.sza
    THEN [b EXCEPT !.ixa = b.ixb, !.sza = b.szb, !.ixb = 0, !.szb = 0]
    ELSE [b EXCEPT !.sza = b.sza - size, !.ixa = b.ixa + size]

\* A faulty variant: the part of size that A satisfied is released from B again.
DecommitMultiTwice(b, size) ==
    IF size > b.sza THEN DecommitBlock(DecommitBlock(b, size), size)
                    ELSE DecommitBlock(b, size)

\* bipbuffer_DecommitMulti: what A does not satisfy is released from B.
DecommitMulti(b, size) ==
    IF size > b.sza THEN DecommitBlock(DecommitBlock(b, size), size - b.sza)
                    ELSE DecommitBlock(b, size)

\* bipbuffer_FrameLen from A's first byte to the k-th byte of the contents
\* (counted from 0): the pointers are equal when k = 0, and the branch written
\* for a frame that wraps from A into B computes the distance.
FrameLen(b, k) == IF k = 0 THEN b.ixa - b.ixb + b.sza ELSE k

\* bipbuffer_DecommitTo, with the pointer given as an offset in the contents.
DecommitTo(b, k) == DecommitMulti(b, FrameLen(b, k))

-----------------------------------------------------------------------------
(* The shape every sequence of legal calls leaves a buffer in. *)

\* The live blocks lie inside the memory and do not overlap; B exists only
\* beside a live A and only before it, and an empty buffer is back at offset 0.
BlocksOK(b) ==
    /\ b.ixa + b.sza <= b.buflen
    /\ b.szb > 0 => b.sza > 0 /\ b.ixb + b.szb <= b.ixa
    /\ b.sza = 0 => b.ixa = 0

\* The reserved region lies inside the memory, touches no live byte and is
\* where Commit looks for the bytes that follow the youngest block.
ReservationOK(b) ==
    /\ b.szResrv > 0
    /\ b.ixResrv + b.szResrv <= b.buflen
    /\ \/ b.sza = 0
       \/ b.szb = 0 /\ b.ixResrv = b.ixa + b.sza
       \/ b.ixResrv = b.ixb + b.szb /\ b.ixResrv + b.szResrv <= b.ixa
=============================================================================
