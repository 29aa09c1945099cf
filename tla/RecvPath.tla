------------------------------ MODULE RecvPath ------------------------------
(***************************************************************************)
(* How the bytes of one TCP connection become glink frames:                *)
(* epFUI_OnRecv of src/ep_app.c, called by ep_Recv of osnet/epollserver.c  *)
(* whenever the (level triggered) epoll set reports the socket readable,   *)
(* glink_FindFrame of protocol/glink.c, and the two bip buffers of struct  *)
(* tmsxx_app: bb, of fixed length, and lbb, allocated for one frame that   *)
(* is longer than bb.                                                      *)
(*                                                                         *)
(* A byte of the stream is a record: the segment it belongs to, its offset *)
(* there, the segment's length and its kind.  A "frame" is a correct glink *)
(* frame; "badtail" has a wrong tail tag and "badlen" a data length that   *)
(* does not match; "garbage" has no head tag.  The buffers hold positions  *)
(* in the stream, so a lost, repeated or reordered byte is visible.        *)
(***************************************************************************)
EXTENDS BipBuffer

CONSTANTS
    Streams,         \* the byte sequences the peer may send
    BIPBUFFER_LEN,   \* length of bb (30000)
    MINFRAME,        \* head tag, glink_base and tail tag (40)
    TAG,             \* length of a head or tail tag (4)
    FIRSTBYTES,      \* what the first Reserve of a connection asks for (400)
    MOREBYTES,       \* what every later one asks for (40)
    SOCKETBUF,       \* how many unread bytes the socket holds
    MAXSPURIOUS,     \* bound: how often recv() may find nothing to read ...
    SpuriousModes    \* ... and whether while receiving to "bb" or to "lbb"

\* A sequence of bytes that is cut into segments, one behind the other.
Segmented(s) ==
    /\ s \in Seq([seg : Nat \ {0}, off : Nat, len : Nat,
                 kind : {"frame", "badtail", "badlen", "garbage"}])
    /\ \A p \in 1 .. Len(s) :
        LET first == p - s[p].off
            last  == first + s[p].len - 1
        IN  /\ p \in first .. last /\ first >= 1 /\ last <= Len(s)
            /\ \A q \in first .. last : s[q] = [s[p] EXCEPT !.off = q - first]
            /\ \A q \in last + 1 .. Len(s) : s[q].seg > s[p].seg
            /\ s[p].kind \in {"frame", "badtail"} => s[p].len >= MINFRAME

\* In the code: 30000, 40, 4, 400 and 40 bytes.
ASSUME RecvAssumption ==
    /\ BIPBUFFER_LEN \in Nat
    /\ TAG \in Nat \ {0} /\ MINFRAME \in Nat /\ MINFRAME >= 2 * TAG
    /\ FIRSTBYTES \in Nat \ {0} /\ MOREBYTES \in Nat \ {0}
    /\ MINFRAME + FIRSTBYTES <= BIPBUFFER_LEN /\ MINFRAME + MOREBYTES <= BIPBUFFER_LEN
    /\ 2 * MINFRAME <= BIPBUFFER_LEN
    /\ \A s \in Streams : Segmented(s)
    /\ SOCKETBUF \in Nat \ {0} /\ MAXSPURIOUS \in Nat /\ SpuriousModes \subseteq {"bb", "lbb"}

VARIABLES
    stream,          \* what the peer sends over the connection's life
    sent,            \* how many bytes of it have reached the socket
    fin,             \* the peer has closed its end
    rcvd,            \* how many bytes recv() has returned
    conn,            \* "open", or "closed" once ep_Recv removed the node
    bb, lbb,         \* the two buffers
    enable_lbb,      \* lbb is being filled
    lbyte,           \* bytes of the large frame still to come
    morebyte,        \* size of the next Reserve of bb
    retRecv,         \* the value epFUI_OnRecv will return
    pc,              \* "wait": in epoll_wait; "again": at label _Again
    delivered,       \* the segments handed to tms_Analyse, in order
    spurious         \* how often recv() has returned EAGAIN

netvars == <<stream, sent, fin>>
vars == <<stream, sent, fin, rcvd, conn, bb, lbb, enable_lbb, lbyte, morebyte,
          retRecv, pc, delivered, spurious>>

Init ==
    /\ stream \in Streams
    /\ sent = 0 /\ fin = FALSE /\ rcvd = 0
    /\ conn = "open"
    /\ bb = AllocateBuffer(InitBuffer, BIPBUFFER_LEN)
    /\ lbb = InitBuffer
    /\ enable_lbb = FALSE /\ lbyte = 0
    /\ morebyte = FIRSTBYTES
    /\ retRecv = 0
    /\ pc = "wait"
    /\ delivered = <<>>
    /\ spurious = 0

-----------------------------------------------------------------------------
(* glink_FindFrame on a block of received positions. *)

\* The TAG bytes from the i-th on are the head tag of a segment that has one.
HeadAt(blk, i) ==
    /\ i + TAG - 1 <= Len(blk)
    /\ stream[blk[i]].kind # "garbage"
    /\ \A j \in 0 .. TAG - 1 : /\ stream[blk[i + j]].seg = stream[blk[i]].seg
                               /\ stream[blk[i + j]].off = j

\* A faulty variant: the tail tag is not looked at.
TailUnchecked(blk, pklen) == TRUE

\* The last TAG bytes of a segment of length pklen at the block's start.
TailOK(blk, pklen) ==
    /\ stream[blk[1]].kind = "frame"
    /\ \A i \in pklen - TAG + 1 .. pklen : /\ stream[blk[i]].seg = stream[blk[1]].seg
                                           /\ stream[blk[i]].off = i - 1

\* The offsets at which the search for a head tag looks.
SearchRange(blk) == 0 .. Len(blk) - TAG - 1

\* Where the first head tag is, if there is one.
FirstHead(blk) ==
    {i \in SearchRange(blk) : /\ HeadAt(blk, i + 1)
                              /\ \A j \in 0 .. i - 1 : ~HeadAt(blk, j + 1)}

\* A faulty variant: a block without a head tag is released completely.
ReleaseAll(blk) == IF FirstHead(blk) = {} THEN Len(blk) ELSE CHOOSE i \in FirstHead(blk) : TRUE

\* How many bytes to release when the block does not start with a head tag:
\* those before the first tag, or all but the last TAG bytes.
ReleaseBeforeHead(blk) ==
    IF FirstHead(blk) = {} THEN Len(blk) - TAG ELSE CHOOSE i \in FirstHead(blk) : TRUE

\* 0: a frame of length len; -2: release len bytes; -3: len bytes are missing.
FindFrame(blk) ==
    LET pklen == stream[blk[1]].len
    IN  IF Len(blk) < MINFRAME
        THEN [ret |-> -2, len |-> MINFRAME - Len(blk)]
        ELSE IF ~HeadAt(blk, 1)
        THEN [ret |-> -2, len |-> ReleaseBeforeHead(blk)]
        ELSE IF stream[blk[1]].kind = "badlen"
        THEN [ret |-> -2, len |-> TAG]
        ELSE IF Len(blk) < pklen
        THEN [ret |-> -3, len |-> pklen - Len(blk)]
        ELSE IF ~TailOK(blk, pklen)
        THEN [ret |-> -2, len |-> pklen]
        ELSE [ret |-> 0, len |-> pklen]

-----------------------------------------------------------------------------
(* The peer. *)

PeerSend ==
    /\ ~fin
    /\ \E n \in sent + 1 .. Smaller(Len(stream), rcvd + SOCKETBUF) : sent' = n
    /\ UNCHANGED <<stream, fin, rcvd, conn, bb, lbb, enable_lbb, lbyte, morebyte,
                   retRecv, pc, delivered, spurious>>

PeerClose ==
    /\ ~fin
    /\ fin' = TRUE
    /\ UNCHANGED <<stream, sent, rcvd, conn, bb, lbb, enable_lbb, lbyte, morebyte,
                   retRecv, pc, delivered, spurious>>

-----------------------------------------------------------------------------
(* epFUI_OnRecv up to the label _Again. *)

Readable == conn = "open" /\ (sent > rcvd \/ fin)

\* What recv(fd, reserved) returns: 0 only at the end of the stream.
RecvCount(reserved) == Smaller(reserved, sent - rcvd)

\* The positions recv() delivers.
RecvBytes(n) == [i \in 1 .. n |-> rcvd + i]

\* epFUI_OnRecv returns ret to ep_Recv, which removes the connection when it
\* is 0: epFUI_OnRemoveClose frees bb (FreeSocketStruct), and only bb.
Return(ret) ==
    /\ pc' = "wait"
    /\ retRecv' = ret
    /\ conn' = IF ret = 0 THEN "closed" ELSE conn

\* The event finds the buffer it must fill without space.
RecvNoSpace ==
    /\ pc = "wait" /\ Readable
    /\ IF enable_lbb THEN FreeSpace(lbb) = 0 ELSE FreeSpace(bb) = 0
    /\ retRecv' = 1
    /\ pc' = "again"
    /\ UNCHANGED <<netvars, rcvd, conn, bb, lbb, enable_lbb, lbyte, morebyte,
                   delivered, spurious>>

RecvToBB ==
    /\ pc = "wait" /\ Readable
    /\ ~enable_lbb /\ FreeSpace(bb) # 0
    /\ \E r \in {Reserve(bb, morebyte)} : \E n \in {RecvCount(r.szResrv)} :
           \E filled \in {Fill(r, RecvBytes(n))} :
               /\ bb' = Commit(filled, n)
               /\ rcvd' = rcvd + n
               /\ retRecv' = n
    /\ pc' = "again"
    /\ UNCHANGED <<netvars, conn, lbb, enable_lbb, lbyte, morebyte, delivered, spurious>>

\* recv() put n bytes (or failed, n = -1) and Commit was called: the handler
\* returns while the frame is incomplete, else the full lbb becomes bb.
AfterRecvToLBB(b, n) ==
    /\ lbyte' = lbyte - n
    /\ IF lbyte' > 0
       THEN /\ lbb' = b
            /\ bb' = IF n = 0 THEN FreeBuffer(bb) ELSE bb
            /\ Return(n)
       ELSE /\ lbb' = bb /\ bb' = b
            /\ retRecv' = n /\ pc' = "again"
            /\ UNCHANGED conn
    /\ UNCHANGED <<enable_lbb, morebyte, delivered>>

RecvToLBB ==
    /\ pc = "wait" /\ Readable
    /\ enable_lbb /\ FreeSpace(lbb) # 0
    /\ \E r \in {Reserve(lbb, lbyte)} : \E n \in {RecvCount(r.szResrv)} :
           \E filled \in {Fill(r, RecvBytes(n))} :
               /\ AfterRecvToLBB(Commit(filled, n), n)
               /\ rcvd' = rcvd + n
    /\ UNCHANGED <<netvars, spurious>>

\* A readable event for which recv() fails with EAGAIN.
RecvSpurious ==
    /\ pc = "wait" /\ conn = "open" /\ ~fin /\ sent = rcvd
    /\ spurious < MAXSPURIOUS
    /\ spurious' = spurious + 1
    /\ \/ /\ ~enable_lbb /\ "bb" \in SpuriousModes /\ FreeSpace(bb) # 0
          /\ bb' = Commit(Reserve(bb, morebyte), -1)
          /\ retRecv' = -1 /\ pc' = "again"
          /\ UNCHANGED <<conn, lbb, enable_lbb, lbyte, morebyte, delivered>>
       \/ /\ enable_lbb /\ "lbb" \in SpuriousModes /\ FreeSpace(lbb) # 0
          /\ AfterRecvToLBB(Commit(Reserve(lbb, lbyte), -1), -1)
    /\ UNCHANGED <<netvars, rcvd>>

-----------------------------------------------------------------------------
(* One pass of the loop at _Again. *)

\* Block A of bb.
Block == SubSeq(Contents(bb), 1, bb.sza)

\* What glink_FindFrame says of block A, as a set of one element.
Found == {FindFrame(blk) : blk \in {Block}}

\* Reaching the end of epFUI_OnRecv with the buffers b and l: the large buffer
\* is released when it has been filled, whether a frame was found or not.
Finish(b, l, enabled, left) ==
    LET done == enabled /\ left <= 0
        ring == IF done THEN l ELSE b
    IN  /\ enable_lbb' = (enabled /\ ~done)
        /\ lbb' = IF done THEN FreeBuffer(b) ELSE l
        /\ bb' = IF retRecv = 0 THEN FreeBuffer(ring) ELSE ring
        /\ lbyte' = left
        /\ Return(retRecv)

\* A faulty variant: the two blocks stay as they are.
JoinedNever(needed) == bb

\* bb with B joined to A if that gives needed contiguous bytes.
Joined(needed) == IF needed <= GetUsedSize(bb) THEN GetUnContiguousBlock(bb) ELSE bb

\* Fewer than MINFRAME bytes in block A: B is joined to it if that helps, but
\* the handler still returns without looking for a frame.
TooShort ==
    /\ pc = "again" /\ bb.sza < MINFRAME
    /\ Finish(Joined(MINFRAME), lbb, enable_lbb, lbyte)
    /\ UNCHANGED <<netvars, rcvd, morebyte, delivered, spurious>>

\* The loop goes on with the bytes in b.
Again(b) == bb' = b /\ UNCHANGED <<lbb, enable_lbb, lbyte, conn, retRecv, pc>>

\* A faulty variant: the handler returns after one frame.
AfterFrameReturn(b) == Finish(b, lbb, enable_lbb, lbyte)

\* The large buffer holds only one frame; in the ring more may follow.
AfterFrame(b) == IF enable_lbb THEN Finish(b, lbb, enable_lbb, lbyte) ELSE Again(b)

\* The segment whose bytes are exactly bytes, in order, or 0.
SegmentOf(bytes) ==
    IF \A i \in 1 .. Len(bytes) : /\ stream[bytes[i]].seg = stream[bytes[1]].seg
                                  /\ stream[bytes[i]].off = i - 1
    THEN stream[bytes[1]].seg ELSE 0

\* A frame at the block's start is released and handed to tms_Analyse.
Deliver ==
    /\ pc = "again" /\ bb.sza >= MINFRAME
    /\ \E found \in Found :
        /\ found.ret = 0
        /\ delivered' = Append(delivered, SegmentOf(SubSeq(Block, 1, found.len)))
        /\ AfterFrame(DecommitBlock(bb, found.len))
    /\ morebyte' = MOREBYTES
    /\ UNCHANGED <<netvars, rcvd, spurious>>

\* Bytes that cannot start a frame are released.
Skip ==
    /\ pc = "again" /\ bb.sza >= MINFRAME
    /\ \E found \in Found : found.ret = -2 /\ Again(DecommitBlock(bb, found.len))
    /\ morebyte' = MOREBYTES
    /\ UNCHANGED <<netvars, rcvd, delivered, spurious>>

\* A faulty variant: what was copied to the large buffer stays in the ring.
WithoutBlockKept(b) == b

\* b without its block A, which was copied to the large buffer.
WithoutBlock(b) == DecommitBlock(b, b.sza)

\* A faulty variant: the copied bytes are still counted.
BytesLeftAll(b, pklen) == pklen

\* How much of the frame is missing in the large buffer.
BytesLeft(b, pklen) == pklen - b.sza

\* A faulty variant: the joined block is not looked at.
CompleteNever(b, pklen) == FALSE

Complete(b, pklen) == b.sza >= pklen

\* A large buffer in which block A of b is reserved, before it is copied.
LargeBuffer(b, pklen) == Reserve(AllocateBuffer(InitBuffer, pklen), b.sza)

\* pklen bytes of a frame are not all in block A: B is joined to A when that
\* completes it, and a frame longer than bb moves to a large buffer.
Extend(pklen) ==
    \E b \in {Joined(pklen)} :
        \/ Complete(b, pklen) /\ Again(b)
        \/ /\ ~Complete(b, pklen) /\ pklen > BIPBUFFER_LEN
           /\ \E l \in {LargeBuffer(b, pklen)} :
                Finish(WithoutBlock(b), Commit(Fill(l, ContiguousBlock(b)), b.sza),
                       TRUE, BytesLeft(b, pklen))
        \/ /\ ~Complete(b, pklen) /\ pklen <= BIPBUFFER_LEN
           /\ Finish(b, lbb, enable_lbb, lbyte)

\* The block starts with an incomplete frame.
Incomplete ==
    /\ pc = "again" /\ bb.sza >= MINFRAME
    /\ \E found \in Found : found.ret = -3 /\ Extend(bb.sza + found.len)
    /\ morebyte' = MOREBYTES
    /\ UNCHANGED <<netvars, rcvd, delivered, spurious>>

OnRecv == RecvNoSpace \/ RecvToBB \/ RecvToLBB \/ TooShort \/ Deliver \/ Skip \/ Incomplete

Next == PeerSend \/ PeerClose \/ OnRecv \/ RecvSpurious

\* The worker thread handles a readable socket; the peer owes nothing.
Spec == Init /\ [][Next]_vars /\ WF_vars(OnRecv)

-----------------------------------------------------------------------------
(* Properties. *)

RangeOf(s) == {s[i] : i \in 1 .. Len(s)}

\* The received positions still held, those of the large buffer first.
Held == Contents(lbb) \o Contents(bb)

\* The segments that are correct frames, and the positions of one of them.
FramesOf(str) == {str[p].seg : p \in {q \in 1 .. Len(str) : str[q].kind = "frame"}}
Positions(f) == {p \in 1 .. Len(stream) : stream[p].seg = f}

BufferOK(b) ==
    /\ BlocksOK(b)
    /\ b.buflen \in Nat /\ DOMAIN b.mem = 0 .. b.buflen - 1
    /\ b.sza \in Nat /\ b.szb \in Nat /\ b.ixa \in Nat /\ b.ixb \in Nat
    /\ b.szResrv \in 0 .. b.buflen \/ b.buflen = 0

\* What tms_Analyse is handed are correct frames of the stream, byte for byte,
\* in the order they were sent and each once, wherever the stream is split by
\* recv(), wraps in the ring, moves to the large buffer or holds garbage.
DeliveredInOrder ==
    /\ RangeOf(delivered) \subseteq FramesOf(stream)
    /\ \A i, j \in 1 .. Len(delivered) : i < j => delivered[i] < delivered[j]

\* No byte of a correct frame is released before the frame was handed on: the
\* resynchronisation after a broken frame never eats into its successors.
NoFrameLost ==
    conn = "open" =>
        {p \in 1 .. rcvd : /\ stream[p].kind = "frame"
                           /\ stream[p].seg \notin RangeOf(delivered)}
            \subseteq RangeOf(Held)

\* The bytes held, those of lbb before those of bb, are the last ones received,
\* without a gap: a frame that moves to lbb leaves nothing behind in block B;
\* and both buffers keep the shape osnet/bipbuffer.c relies on.
HeldInOrder ==
    /\ BufferOK(bb) /\ BufferOK(lbb)
    /\ conn = "open" =>
         LET held == Held
         IN  \A i \in 1 .. Len(held) : held[i] = rcvd - Len(held) + i

\* While lbb is filled, lbyte is never less than the room left in it (else a
\* frame would be cut short), and is exactly that unless recv() failed; bb stays
\* empty, so that nothing overtakes the frame.
LargeBufferExact ==
    enable_lbb /\ pc = "wait" =>
        /\ LET room == lbb.buflen - GetUsedSize(lbb)
           IN  lbyte >= room /\ lbyte <= room + spurious
        /\ lbb.szb = 0 /\ lbb.ixa = 0
        /\ GetUsedSize(bb) = 0

\* A connection that is receiving into bb has no room left only when the bytes
\* at the head of bb start a frame longer than half of bb.
NoSpaceOnlyForLongFrame ==
    pc = "wait" /\ conn = "open" /\ ~enable_lbb /\ FreeSpace(bb) = 0
        => /\ HeadAt(Block, 1)
           /\ 2 * stream[Block[1]].len > BIPBUFFER_LEN

\* The oldest byte in bb starts a correct frame, all of which is in bb.
FrameWaiting ==
    /\ bb.sza > 0
    /\ LET head == stream[bb.mem[bb.ixa]]
       IN  head.kind = "frame" /\ head.off = 0 /\ head.len <= GetUsedSize(bb)

\* epFUI_OnRecv goes back to epoll_wait with a complete frame at the head of bb
\* only when it has just joined a block A shorter than MINFRAME with B: it does
\* not look at the joined block (recvTotal is not read again).
LateOnlyAfterJoin ==
    [][pc = "again" /\ pc' = "wait" /\ conn' = "open" /\ FrameWaiting'
            => bb.sza < MINFRAME /\ bb.szb > 0 /\ bb'.sza >= MINFRAME]_vars

\* Every frame the peer sent completely before it closed its end has been
\* handed on when the connection is removed.
ClosedDelivers ==
    conn = "closed" =>
        \A f \in FramesOf(stream) :
            (\A p \in Positions(f) : p <= sent) => f \in RangeOf(delivered)

\* A connection that the peer has closed is drained and removed, and the worker
\* does not spin on it for ever, when what was sent is cut into pieces of at
\* most half of bb or longer than bb, unless a recv() into lbb failed.
FinRemoves ==
    (fin /\ \A p \in 1 .. Len(stream) :
        2 * stream[p].len <= BIPBUFFER_LEN \/ stream[p].len > BIPBUFFER_LEN)
        ~> (conn = "closed" \/ (enable_lbb /\ spurious > 0))

\* struct tmsxx_app, protocol/tmsxx.h:1507: lbb is only for frames longer than
\* bb.  So frames that fit bb and were sent completely are handed on from bb.
FramesThatFitAreDelivered ==
    (/\ fin /\ sent = Len(stream)
     /\ \A p \in 1 .. sent : stream[p].len <= BIPBUFFER_LEN)
        ~> (FramesOf(stream) \subseteq RangeOf(delivered))

\* src/ep_app.c:268-269: lbb holds one frame; once it is full it is released,
\* whether a correct frame was found in it or not.
FullLargeBufferIsReleased ==
    ~(pc = "wait" /\ enable_lbb /\ GetUsedSize(lbb) = lbb.buflen)
=============================================================================
