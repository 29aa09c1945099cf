--------------------------- MODULE RecvPathProofs ---------------------------
(***************************************************************************)
(* What epFUI_OnRecv keeps true for rings, tags, frames and reads of any   *)
(* size and any stream that is cut into segments.                          *)
(*                                                                         *)
(* None of the properties of RecvPath is inductive.  What they rest on is  *)
(* where the oldest byte that is still held lies in the stream: everything *)
(* before it has been handed on or is no part of a correct frame, and when *)
(* a second block, a large buffer or an unfinished frame exists the oldest *)
(* byte is the first of a segment that glink_FindFrame takes for a packet. *)
(***************************************************************************)
EXTENDS RecvPath, CommonLemmas

-----------------------------------------------------------------------------
(* The inductive invariant: the buffers. *)

Memories == UNION {[0 .. n - 1 -> Nat] : n \in Nat}

Buffers == [mem : Memories, buflen : Nat, ixa : Nat, sza : Nat, ixb : {0}, szb : Nat,
            ixResrv : Nat, szResrv : Nat]

\* The shape of a struct bipbuffer between two calls.
Sound(b) ==
    /\ b \in Buffers /\ b.mem \in [0 .. b.buflen - 1 -> Nat]
    /\ BlocksOK(b)
    /\ b.szResrv \in 0 .. b.buflen \/ b.buflen = 0

TypeOK ==
    /\ stream \in Streams
    /\ sent \in 0 .. Len(stream) /\ rcvd \in 0 .. sent /\ fin \in BOOLEAN
    /\ conn \in {"open", "closed"} /\ pc \in {"wait", "again"}
    /\ pc = "again" => conn = "open"
    /\ Sound(bb) /\ Sound(lbb)
    /\ enable_lbb \in BOOLEAN /\ lbyte \in Int
    /\ morebyte \in {FIRSTBYTES, MOREBYTES} /\ retRecv \in Int
    /\ delivered \in Seq(Nat) /\ spurious \in Nat

\* b holds the positions behind base, in order: those of block A, then those of B.
Holds(b, base) ==
    /\ \A i \in 0 .. b.sza - 1 : b.mem[b.ixa + i] = base + 1 + i
    /\ \A i \in 0 .. b.szb - 1 : b.mem[i] = base + b.sza + 1 + i

\* The positions before bb's oldest byte, and before the oldest byte of both buffers.
Base == rcvd - GetUsedSize(bb)
Low == Base - GetUsedSize(lbb)

BytesOK == conn = "open" => Low >= 0 /\ Holds(bb, Base) /\ Holds(lbb, Low)

\* What glink_FindFrame takes for a head tag, and for the start of a packet of len bytes.
TagIn(st, p) ==
    /\ st[p].kind # "garbage"
    /\ \A j \in 0 .. TAG - 1 : st[p + j].seg = st[p].seg /\ st[p + j].off = j
PacketIn(st, p, len) == TagIn(st, p) /\ st[p].kind # "badlen" /\ st[p].len = len
Tag(p) == TagIn(stream, p)
Packet(p, len) == PacketIn(stream, p, len)

\* The large buffer is being filled, or it is full and has become bb.
Filling == enable_lbb /\ lbyte > 0
Full == enable_lbb /\ lbyte <= 0

Room(b) == b.buflen - GetUsedSize(b)

FillingOK ==
    Filling =>
        /\ GetUsedSize(bb) = 0
        /\ lbb.szb = 0 /\ lbb.ixa = 0 /\ lbb.sza > 0
        /\ lbyte >= Room(lbb) /\ lbyte <= Room(lbb) + spurious
        /\ conn = "open" => /\ bb.buflen = BIPBUFFER_LEN
                            /\ Packet(Low + 1, lbb.buflen)

FullOK ==
    Full =>
        /\ pc = "again" /\ retRecv > 0
        /\ GetUsedSize(lbb) = 0 /\ lbb.buflen = BIPBUFFER_LEN
        /\ bb.szb = 0
        /\ bb.sza = 0 \/ (bb.sza >= MINFRAME /\ Packet(Base + 1, bb.sza))

\* Block A of the ring b, whose oldest byte is behind base, starts an incomplete
\* packet that fits bb.
Opens(st, b, base) ==
    /\ b.sza >= MINFRAME /\ PacketIn(st, base + 1, st[base + 1].len)
    /\ b.sza < st[base + 1].len /\ st[base + 1].len <= BIPBUFFER_LEN

\* A second block exists only behind a block A that is shorter than MINFRAME or
\* starts a packet.
Shape(st, b, base) ==
    b.szb > 0 => /\ GetSpaceAfterA(b) < b.ixa
                 /\ \/ b.sza < MINFRAME /\ GetUsedSize(b) < BIPBUFFER_LEN
                    \/ Opens(st, b, base)

\* In epoll_wait: what TooShort has just joined, too few bytes, or an incomplete packet.
Rest(st, b, base) ==
    \/ b.szb = 0 /\ b.ixa = 0 /\ b.sza < BIPBUFFER_LEN
    \/ GetUsedSize(b) < MINFRAME
    \/ Opens(st, b, base) /\ GetUsedSize(b) < st[base + 1].len

\* bb in use for the ring.
RingOK ==
    conn = "open" /\ ~enable_lbb =>
        /\ GetUsedSize(lbb) = 0 /\ bb.buflen = BIPBUFFER_LEN
        /\ Shape(stream, bb, Base)

WaitOK == conn = "open" /\ ~enable_lbb /\ pc = "wait" => Rest(stream, bb, Base)

BuffersOK == BytesOK /\ FillingOK /\ FullOK /\ RingOK /\ WaitOK

-----------------------------------------------------------------------------
(* The inductive invariant: the frames. *)

\* Every frame byte of st up to low was handed on with its frame, and of what was
\* handed on nothing lies behind low.
HandedOn(st, low, handed) ==
    /\ \A p \in 1 .. low : st[p].kind = "frame" => st[p].seg \in RangeOf(handed)
    /\ \A p \in low + 1 .. Len(st) : st[p].seg \notin RangeOf(handed)

\* What is no longer held was handed on, or is no part of a correct frame.
ReleasedOK == conn = "open" => HandedOn(stream, Low, delivered)

\* epFUI_OnRecv is about to return 0, or has done so.
EndOK ==
    /\ pc = "again" /\ retRecv = 0 =>
        /\ fin /\ sent = rcvd /\ ~enable_lbb
        /\ bb.szb > 0 => \/ GetUsedSize(bb) < MINFRAME
                         \/ /\ Opens(stream, bb, Base)
                            /\ GetUsedSize(bb) < stream[Base + 1].len
    /\ conn = "closed" => fin

FramesOK == ReleasedOK /\ EndOK /\ DeliveredInOrder /\ ClosedDelivers

IInv == TypeOK /\ BuffersOK /\ FramesOK

-----------------------------------------------------------------------------
(* The operations of a bip buffer of any length. *)

\* What the shape of a buffer says of its fields, one by one.
LEMMA Parts ==
    ASSUME NEW b, Sound(b)
    PROVE  /\ b.buflen \in Nat /\ b.ixa \in Nat /\ b.sza \in Nat /\ b.szb \in Nat /\ b.ixb = 0
           /\ b.ixResrv \in Nat /\ b.szResrv \in Nat
           /\ b.mem \in [0 .. b.buflen - 1 -> Nat]
           /\ b.ixa + b.sza <= b.buflen
           /\ b.szb > 0 => b.sza > 0 /\ b.szb <= b.ixa
           /\ b.sza = 0 => b.ixa = 0 /\ b.szb = 0
           /\ GetUsedSize(b) = b.sza + b.szb
<1>1. /\ b.buflen \in Nat /\ b.ixa \in Nat /\ b.sza \in Nat /\ b.szb \in Nat /\ b.ixb = 0
      /\ b.ixResrv \in Nat /\ b.szResrv \in Nat
    BY DEF Sound, Buffers
<1>2. b.mem \in [0 .. b.buflen - 1 -> Nat]
    BY DEF Sound
<1> QED BY <1>1, <1>2 DEF Sound, BlocksOK, GetUsedSize

\* The memory of a buffer of n bytes is one of the memories of all lengths.
LEMMA MemoryIs ==
    ASSUME NEW n \in Nat, NEW m \in [0 .. n - 1 -> Nat]
    PROVE  m \in Memories
BY DEF Memories

\* bipbuffer_Reserve: where the reservation lies, and what it leaves alone.
LEMMA ReserveIs ==
    ASSUME NEW b, Sound(b), NEW size \in Nat \ {0}, FreeSpace(b) # 0
    PROVE  LET r == Reserve(b, size)
           IN  /\ r \in Buffers /\ r.mem = b.mem /\ r.buflen = b.buflen
               /\ r.ixa = b.ixa /\ r.sza = b.sza /\ r.ixb = 0 /\ r.szb = b.szb
               /\ r.szResrv = Smaller(size, FreeSpace(b))
               /\ r.szResrv \in 1 .. FreeSpace(b) /\ r.szResrv <= size
               /\ r.ixResrv \in Nat /\ r.ixResrv + r.szResrv <= b.buflen
               /\ \/ b.szb = 0 /\ r.ixResrv = b.ixa + b.sza
                  \/ /\ r.ixResrv = b.szb /\ r.ixResrv + r.szResrv <= b.ixa
                     /\ b.sza > 0
                     /\ b.szb = 0 => GetSpaceAfterA(b) < b.ixa
<1> DEFINE r == Reserve(b, size)
           n == Smaller(size, FreeSpace(b))
<1>1. /\ b.buflen \in Nat /\ b.ixa \in Nat /\ b.sza \in Nat /\ b.szb \in Nat /\ b.ixb = 0
      /\ b.ixa + b.sza <= b.buflen
      /\ b.szb > 0 => b.sza > 0 /\ b.szb <= b.ixa
      /\ b.sza = 0 => b.ixa = 0 /\ b.szb = 0
    BY Parts
<1>2. r = [b EXCEPT !.ixResrv = ReserveAt(b), !.szResrv = n]
    BY DEF Reserve
<1>3. /\ FreeSpace(b) \in Nat \ {0}
      /\ ReserveAt(b) \in Nat
      /\ ReserveAt(b) + FreeSpace(b) <= b.buflen
      /\ \/ b.szb = 0 /\ ReserveAt(b) = b.ixa + b.sza
         \/ /\ ReserveAt(b) = b.szb /\ ReserveAt(b) + FreeSpace(b) <= b.ixa
            /\ b.sza > 0
            /\ b.szb = 0 => GetSpaceAfterA(b) < b.ixa
  <2>1. CASE b.szb # 0
      BY <1>1, <2>1 DEF ReserveAt, FreeSpace, GetBFreeSpace
  <2>2. CASE b.szb = 0 /\ GetSpaceAfterA(b) >= b.ixa
      BY <1>1, <2>2 DEF ReserveAt, FreeSpace, GetSpaceAfterA
  <2>3. CASE b.szb = 0 /\ ~(GetSpaceAfterA(b) >= b.ixa)
      BY <1>1, <2>3 DEF ReserveAt, FreeSpace, GetSpaceAfterA
  <2> QED BY <2>1, <2>2, <2>3
<1>4. n \in 1 .. FreeSpace(b) /\ n <= size
    BY <1>3 DEF Smaller
<1>5. n \in Nat
    BY <1>3, <1>4
<1> HIDE DEF n
<1>6. r \in Buffers
    BY <1>2, <1>3, <1>5 DEF Sound, Buffers
<1>7. /\ r.mem = b.mem /\ r.buflen = b.buflen
      /\ r.ixa = b.ixa /\ r.sza = b.sza /\ r.ixb = b.ixb /\ r.szb = b.szb
      /\ r.ixResrv = ReserveAt(b) /\ r.szResrv = n
    BY <1>2 DEF Sound, Buffers
<1> HIDE DEF r
<1>8. r.ixResrv + r.szResrv <= b.buflen
    BY <1>1, <1>3, <1>4, <1>5, <1>7
<1>9. \/ b.szb = 0 /\ r.ixResrv = b.ixa + b.sza
      \/ /\ r.ixResrv = b.szb /\ r.ixResrv + r.szResrv <= b.ixa
         /\ b.sza > 0
         /\ b.szb = 0 => GetSpaceAfterA(b) < b.ixa
    BY <1>1, <1>3, <1>4, <1>5, <1>7
<1>10. r.szResrv = Smaller(size, FreeSpace(b))
    BY <1>7 DEF n
<1>11. r.szResrv \in 1 .. FreeSpace(b) /\ r.szResrv <= size /\ r.ixResrv \in Nat /\ r.ixb = 0
    BY <1>1, <1>3, <1>4, <1>7
<1> QED BY <1>6, <1>7, <1>8, <1>9, <1>10, <1>11 DEF r

\* A recv() that fails keeps the reservation.
LEMMA ReserveSound ==
    ASSUME NEW b, Sound(b), NEW size \in Nat \ {0}, FreeSpace(b) # 0, NEW base
    PROVE  LET r == Commit(Reserve(b, size), -1)
           IN  /\ Sound(r) /\ r.buflen = b.buflen
               /\ r.ixa = b.ixa /\ r.sza = b.sza /\ r.szb = b.szb
               /\ Holds(b, base) => Holds(r, base)
<1> DEFINE r == Reserve(b, size)
<1>1. Commit(r, -1) = r
    BY DEF Commit
<1>2. /\ r \in Buffers /\ r.mem = b.mem /\ r.buflen = b.buflen
      /\ r.ixa = b.ixa /\ r.sza = b.sza /\ r.ixb = 0 /\ r.szb = b.szb
      /\ r.szResrv \in 1 .. FreeSpace(b)
      /\ r.ixResrv \in Nat /\ r.ixResrv + r.szResrv <= b.buflen
    BY ReserveIs
<1> HIDE DEF r
<1>3. r.szResrv \in Nat
    BY <1>2 DEF Buffers
<1>4. b.buflen \in Nat /\ b.ixb = 0
    BY Parts
<1>5. r.szResrv \in 0 .. r.buflen
    BY <1>2, <1>3, <1>4
<1>6. BlocksOK(r)
    BY <1>2, <1>4 DEF Sound, BlocksOK
<1>7. Sound(r)
    BY <1>2, <1>5, <1>6 DEF Sound
<1>8. Holds(b, base) => Holds(r, base)
    BY <1>2 DEF Holds
<1> QED BY <1>1, <1>2, <1>7, <1>8 DEF r

\* c is b with n more bytes behind those it had.
Received(b, c, n) ==
    /\ Sound(c) /\ c.buflen = b.buflen
    /\ GetUsedSize(c) = GetUsedSize(b) + n
    /\ c.szb = 0 => b.szb = 0
    /\ c.szb > 0 => /\ c.sza = b.sza /\ c.ixa = b.ixa /\ b.sza > 0
                    /\ b.szb = 0 => GetSpaceAfterA(b) < b.ixa
    /\ b.szb = 0 /\ b.ixa = 0 => c.szb = 0 /\ c.ixa = 0

\* s is the n numbers behind from.
Follow(s, n, from) ==
    /\ s \in Seq(Nat) /\ Len(s) = n
    /\ \A i \in 1 .. n : s[i] = from + i


\* The memory m after s was written at x.
Overwritten(m, x, s) ==
    [i \in DOMAIN m |-> IF i - x + 1 \in 1 .. Len(s) THEN s[i - x + 1] ELSE m[i]]

\* s, which is the n numbers behind from, fits a memory m of len bytes at x.
Write(len, m, x, n, from, s) ==
    /\ len \in Nat /\ m \in [0 .. len - 1 -> Nat]
    /\ x \in Nat /\ n \in Nat /\ x + n <= len
    /\ from \in Int /\ Follow(s, n, from)

\* w is m with the n numbers behind from at x.
IsWritten(len, m, x, n, from, w) ==
    /\ w \in [0 .. len - 1 -> Nat]
    /\ \A i \in 0 .. n - 1 : w[x + i] = from + 1 + i
    /\ \A i \in 0 .. len - 1 : i < x \/ i >= x + n => w[i] = m[i]

\* recv() writes s at x and nothing else.
LEMMA Written ==
    ASSUME NEW len, NEW m, NEW x, NEW n, NEW from, NEW s, Write(len, m, x, n, from, s)
    PROVE  IsWritten(len, m, x, n, from, Overwritten(m, x, s))
<1> DEFINE w == Overwritten(m, x, s)
<1> USE DEF Write
<1>1. s \in Seq(Nat) /\ Len(s) = n
    BY DEF Follow
<1>2. \A i \in 1 .. n : s[i] = from + i
    BY DEF Follow
<1>3. \A i \in 1 .. n : s[i] \in Nat
    BY <1>1
<1>4. DOMAIN m = 0 .. len - 1 /\ \A i \in 0 .. len - 1 : m[i] \in Nat
    OBVIOUS
<1>5. w = [i \in 0 .. len - 1 |-> IF i - x + 1 \in 1 .. n THEN s[i - x + 1] ELSE m[i]]
    BY <1>1, <1>4 DEF Overwritten
<1> HIDE DEF w
<1>6. w \in [0 .. len - 1 -> Nat]
    BY <1>3, <1>4, <1>5
<1>7. ASSUME NEW i \in 0 .. n - 1
      PROVE  w[x + i] = from + 1 + i
  <2>1. x + i \in 0 .. len - 1 /\ (x + i) - x + 1 = i + 1 /\ i + 1 \in 1 .. n
      OBVIOUS
  <2>2. w[x + i] = s[i + 1]
      BY <1>5, <2>1
  <2>3. s[i + 1] = from + (i + 1)
      BY <1>2, <2>1
  <2> QED BY <2>2, <2>3
<1>8. ASSUME NEW i \in 0 .. len - 1, i < x \/ i >= x + n
      PROVE  w[i] = m[i]
  <2>1. i - x + 1 \notin 1 .. n
      BY <1>8
  <2> QED BY <1>5, <2>1
<1> QED BY <1>6, <1>7, <1>8 DEF w, IsWritten

\* recv() writes behind the youngest byte and over none that is live, and Commit
\* counts what it wrote.
LEMMA ReceiveSound ==
    ASSUME NEW b, Sound(b), NEW size \in Nat \ {0}, FreeSpace(b) # 0,
           NEW n \in Nat, n <= size, n <= FreeSpace(b), NEW base \in Int, Holds(b, base),
           NEW s, Follow(s, n, base + GetUsedSize(b))
    PROVE  LET c == Commit(Fill(Reserve(b, size), s), n)
           IN  Received(b, c, n) /\ Holds(c, base)
<1> DEFINE r == Reserve(b, size)
           memory == Overwritten(r.mem, r.ixResrv, s)
           f == Fill(r, s)
           c == Commit(f, n)
<1>1. /\ b.buflen \in Nat /\ b.ixa \in Nat /\ b.sza \in Nat /\ b.szb \in Nat /\ b.ixb = 0
      /\ b.mem \in [0 .. b.buflen - 1 -> Nat]
      /\ b.ixa + b.sza <= b.buflen
      /\ b.szb > 0 => b.sza > 0 /\ b.szb <= b.ixa
      /\ b.sza = 0 => b.ixa = 0 /\ b.szb = 0
      /\ GetUsedSize(b) = b.sza + b.szb
    BY Parts
<1>2. /\ r \in Buffers /\ r.mem = b.mem /\ r.buflen = b.buflen
      /\ r.ixa = b.ixa /\ r.sza = b.sza /\ r.ixb = 0 /\ r.szb = b.szb
    BY ReserveIs
<1>3. \/ b.szb = 0 /\ r.ixResrv = b.ixa + b.sza
      \/ /\ r.ixResrv = b.szb /\ r.ixResrv + r.szResrv <= b.ixa
         /\ b.sza > 0
         /\ b.szb = 0 => GetSpaceAfterA(b) < b.ixa
    BY ReserveIs
<1>4. /\ r.szResrv = Smaller(size, FreeSpace(b)) /\ r.szResrv \in 1 .. FreeSpace(b)
      /\ r.ixResrv \in Nat /\ r.ixResrv + r.szResrv <= b.buflen
    BY ReserveIs
<1> HIDE DEF r
<1>5. /\ r.szResrv \in Nat /\ r.ixResrv \in Nat /\ n <= r.szResrv
      /\ r.ixResrv + r.szResrv <= b.buflen
    BY <1>2, <1>4 DEF Buffers, Smaller
<1>6. r.ixResrv + n <= b.buflen /\ base + GetUsedSize(b) \in Int
    BY SMTT(30), <1>1, <1>5
<1> DEFINE from == base + GetUsedSize(b)
<1>7. /\ memory \in [0 .. b.buflen - 1 -> Nat]
      /\ \A i \in 0 .. n - 1 : memory[r.ixResrv + i] = from + 1 + i
      /\ \A i \in 0 .. b.buflen - 1 : i < r.ixResrv \/ i >= r.ixResrv + n => memory[i] = b.mem[i]
  <2>1. PICK x \in Nat : x = r.ixResrv
      BY <1>5
  <2>2. PICK m \in [0 .. b.buflen - 1 -> Nat] : m = r.mem
      BY <1>1, <1>2
  <2>3. x + n <= b.buflen
      BY <1>6, <2>1
  <2>6. PICK fr \in Int : fr = from
      BY <1>6
  <2> HIDE DEF from
  <2>8. PICK len \in Nat : len = b.buflen
      BY <1>1
  <2>9. Write(len, m, x, n, fr, s)
      BY <2>3, <2>6, <2>8 DEF from, Write
  <2>10. IsWritten(len, m, x, n, fr, Overwritten(m, x, s))
      BY <2>9, Written, Zenon
  <2>11. b.mem = m /\ memory = Overwritten(m, x, s)
      BY <1>2, <2>1, <2>2
  <2> HIDE DEF memory
  <2> QED BY <2>1, <2>6, <2>8, <2>10, <2>11 DEF IsWritten
<1>8. f = [r EXCEPT !.mem = memory]
    BY DEF Fill, Overwritten
<1>9. \A i \in 0 .. n - 1 : memory[r.ixResrv + i] = base + GetUsedSize(b) + 1 + i
    BY <1>7
<1>10. \A i \in 0 .. b.buflen - 1 :
          i < r.ixResrv \/ i >= r.ixResrv + n => memory[i] = b.mem[i]
    BY <1>7
<1> HIDE DEF memory
<1>21. memory \in Memories
    BY <1>1, <1>7, MemoryIs
<1>11. /\ f \in Buffers /\ f.mem = memory /\ f.buflen = b.buflen
       /\ f.ixa = b.ixa /\ f.sza = b.sza /\ f.ixb = 0 /\ f.szb = b.szb
       /\ f.ixResrv = r.ixResrv /\ f.szResrv = r.szResrv
    BY <1>2, <1>8, <1>21 DEF Buffers
<1> HIDE DEF f
<1>12. \A i \in 0 .. b.sza - 1 : memory[b.ixa + i] = base + 1 + i
  <2>1. SUFFICES ASSUME NEW i \in 0 .. b.sza - 1
                 PROVE  memory[b.ixa + i] = base + 1 + i
      OBVIOUS
  <2>2. b.ixa + i \in 0 .. b.buflen - 1
      BY SMTT(30), <1>1
  <2>3. b.ixa + i < r.ixResrv \/ b.ixa + i >= r.ixResrv + n
      BY SMTT(30), <1>1, <1>2, <1>3, <1>4, <1>5
  <2>4. b.mem[b.ixa + i] = base + 1 + i
      BY DEF Holds
  <2> QED BY <1>10, <2>2, <2>3, <2>4
<1>13. \A i \in 0 .. b.szb - 1 : memory[i] = base + b.sza + 1 + i
  <2>1. SUFFICES ASSUME NEW i \in 0 .. b.szb - 1
                 PROVE  memory[i] = base + b.sza + 1 + i
      OBVIOUS
  <2>2. i \in 0 .. b.buflen - 1 /\ b.szb > 0
      BY <1>1
  <2>3. i < r.ixResrv
      BY <1>1, <1>3, <2>2
  <2>4. b.mem[i] = base + b.sza + 1 + i
      BY DEF Holds
  <2> QED BY <1>10, <2>2, <2>3, <2>4
<1> DEFINE done == [f EXCEPT !.ixResrv = 0, !.szResrv = 0]
<1>14. /\ done \in Buffers /\ done.mem = memory /\ done.buflen = b.buflen
       /\ done.ixa = b.ixa /\ done.sza = b.sza /\ done.ixb = 0 /\ done.szb = b.szb
       /\ done.szResrv = 0
    BY <1>11 DEF Buffers
<1>15. /\ c \in Buffers /\ c.mem = memory /\ c.buflen = b.buflen /\ c.szResrv = 0 /\ c.ixb = 0
       /\ \/ n = 0 /\ c.ixa = b.ixa /\ c.sza = b.sza /\ c.szb = b.szb
          \/ /\ n > 0 /\ b.sza = 0 /\ b.szb = 0 /\ c.szb = 0
             /\ c.ixa = r.ixResrv /\ c.sza = n
          \/ /\ n > 0 /\ b.sza > 0 /\ r.ixResrv = b.sza + b.ixa
             /\ c.ixa = b.ixa /\ c.sza = b.sza + n /\ c.szb = b.szb
          \/ /\ n > 0 /\ b.sza > 0 /\ r.ixResrv # b.sza + b.ixa
             /\ c.ixa = b.ixa /\ c.sza = b.sza /\ c.szb = b.szb + n
  <2>1. Smaller(n, f.szResrv) = n
      BY <1>4, <1>5, <1>11 DEF Smaller
  <2>2. ~(n < 0)
      BY <1>5
  <2>3. CASE n = 0
    <3>1. c = done
        BY <2>3 DEF Commit
    <3> QED BY <1>14, <2>3, <3>1
  <2>4. CASE n # 0 /\ b.sza = 0 /\ b.szb = 0
    <3>1. c = [done EXCEPT !.ixa = f.ixResrv, !.sza = n]
        BY <1>11, <2>1, <2>2, <2>4 DEF Commit
    <3>2. f.ixResrv = r.ixResrv /\ n > 0
        BY <1>5, <1>11, <2>4
    <3> HIDE DEF done, c
    <3>3. c \in Buffers
        BY <1>2, <1>5, <1>14, <3>1, <3>2 DEF Buffers
    <3>4. /\ c.mem = memory /\ c.buflen = b.buflen /\ c.szResrv = 0 /\ c.ixb = 0
          /\ c.szb = 0 /\ c.ixa = r.ixResrv /\ c.sza = n
        BY <1>14, <2>4, <3>1, <3>2 DEF Buffers
    <3> QED BY <2>4, <3>2, <3>3, <3>4
  <2>5. CASE n # 0 /\ ~(b.sza = 0 /\ b.szb = 0) /\ r.ixResrv = b.sza + b.ixa
    <3>1. c = [done EXCEPT !.sza = b.sza + n]
        BY <1>11, <2>1, <2>2, <2>5 DEF Commit
    <3>2. b.sza > 0 /\ n > 0 /\ b.sza + n \in Nat
        BY SMTT(30), <1>1, <1>5, <2>5
    <3> HIDE DEF done, c
    <3>3. c \in Buffers
        BY <1>14, <3>1, <3>2 DEF Buffers
    <3>4. /\ c.mem = memory /\ c.buflen = b.buflen /\ c.szResrv = 0 /\ c.ixb = 0
          /\ c.ixa = b.ixa /\ c.sza = b.sza + n /\ c.szb = b.szb
        BY <1>14, <3>1 DEF Buffers
    <3> QED BY <2>5, <3>2, <3>3, <3>4
  <2>6. CASE n # 0 /\ ~(b.sza = 0 /\ b.szb = 0) /\ r.ixResrv # b.sza + b.ixa
    <3>1. c = [done EXCEPT !.szb = b.szb + n]
        BY <1>11, <2>1, <2>2, <2>6 DEF Commit
    <3>2. b.sza > 0 /\ n > 0 /\ b.szb + n \in Nat
        BY SMTT(30), <1>1, <1>5, <2>6
    <3> HIDE DEF done, c
    <3>3. c \in Buffers
        BY <1>14, <3>1, <3>2 DEF Buffers
    <3>4. /\ c.mem = memory /\ c.buflen = b.buflen /\ c.szResrv = 0 /\ c.ixb = 0
          /\ c.ixa = b.ixa /\ c.sza = b.sza /\ c.szb = b.szb + n
        BY <1>14, <3>1 DEF Buffers
    <3> QED BY <2>6, <3>2, <3>3, <3>4
  <2> QED BY <2>3, <2>4, <2>5, <2>6
<1> HIDE DEF c, done
<1>22. /\ b.buflen \in Nat /\ b.ixa \in Nat /\ b.sza \in Nat /\ b.szb \in Nat
       /\ r.ixResrv \in Nat /\ r.szResrv \in Nat
       /\ b.ixa + b.sza <= b.buflen
       /\ b.szb > 0 => b.sza > 0 /\ b.szb <= b.ixa
       /\ b.sza = 0 => b.ixa = 0 /\ b.szb = 0
       /\ n <= r.szResrv /\ r.ixResrv + r.szResrv <= b.buflen
    BY <1>1, <1>5
<1>23. n > 0 /\ b.sza > 0 /\ r.ixResrv = b.sza + b.ixa => b.szb = 0
    BY <1>3, <1>22
<1>24. n > 0 /\ b.sza > 0 /\ r.ixResrv # b.sza + b.ixa =>
         /\ r.ixResrv = b.szb /\ b.szb + n <= b.ixa
         /\ b.szb = 0 => GetSpaceAfterA(b) < b.ixa
    BY <1>3, <1>22
<1>16. /\ c.ixa + c.sza <= c.buflen
       /\ c.szb > 0 => c.sza > 0 /\ c.szb <= c.ixa
       /\ c.sza = 0 => c.ixa = 0
       /\ c.sza \in Nat /\ c.szb \in Nat
       /\ c.sza + c.szb = b.sza + b.szb + n
  <2>1. CASE n = 0 /\ c.ixa = b.ixa /\ c.sza = b.sza /\ c.szb = b.szb
      BY <1>15, <1>22, <2>1
  <2>2. CASE n > 0 /\ b.sza = 0 /\ b.szb = 0 /\ c.szb = 0 /\ c.ixa = r.ixResrv /\ c.sza = n
      BY <1>15, <1>22, <2>2
  <2>3. CASE /\ n > 0 /\ b.sza > 0 /\ r.ixResrv = b.sza + b.ixa
             /\ c.ixa = b.ixa /\ c.sza = b.sza + n /\ c.szb = b.szb
      BY <1>15, <1>22, <1>23, <2>3
  <2>4. CASE /\ n > 0 /\ b.sza > 0 /\ r.ixResrv # b.sza + b.ixa
             /\ c.ixa = b.ixa /\ c.sza = b.sza /\ c.szb = b.szb + n
      BY <1>15, <1>22, <1>24, <2>4
  <2> QED BY <1>15, <2>1, <2>2, <2>3, <2>4
<1>17. Sound(c)
  <2>1. BlocksOK(c)
      BY <1>15, <1>16 DEF BlocksOK
  <2>2. c.szResrv \in 0 .. c.buflen
      BY <1>1, <1>15
  <2> QED BY <1>7, <1>15, <2>1, <2>2 DEF Sound
<1>18. /\ c.szb = 0 => b.szb = 0
       /\ c.szb > 0 => /\ c.sza = b.sza /\ c.ixa = b.ixa /\ b.sza > 0
                       /\ b.szb = 0 => GetSpaceAfterA(b) < b.ixa
       /\ b.szb = 0 /\ b.ixa = 0 => c.szb = 0 /\ c.ixa = 0
  <2>1. CASE n = 0 /\ c.ixa = b.ixa /\ c.sza = b.sza /\ c.szb = b.szb
      BY <1>22, <2>1
  <2>2. CASE n > 0 /\ b.sza = 0 /\ b.szb = 0 /\ c.szb = 0 /\ c.ixa = r.ixResrv /\ c.sza = n
      BY <1>3, <1>22, <2>2
  <2>3. CASE /\ n > 0 /\ b.sza > 0 /\ r.ixResrv = b.sza + b.ixa
             /\ c.ixa = b.ixa /\ c.sza = b.sza + n /\ c.szb = b.szb
      BY <1>22, <1>23, <2>3
  <2>4. CASE /\ n > 0 /\ b.sza > 0 /\ r.ixResrv # b.sza + b.ixa
             /\ c.ixa = b.ixa /\ c.sza = b.sza /\ c.szb = b.szb + n
    <3>1. b.szb = 0 => b.ixa > 0
        BY <1>22, <1>24, <2>4
    <3>2. c.szb > 0
        BY <1>22, <2>4
    <3> QED BY <1>22, <1>24, <2>4, <3>1, <3>2
  <2> QED BY <1>15, <2>1, <2>2, <2>3, <2>4
<1>19. Received(b, c, n)
    BY <1>1, <1>15, <1>16, <1>17, <1>18 DEF Received, GetUsedSize
<1>20. Holds(c, base)
  <2>1. CASE n = 0
      BY <1>12, <1>13, <1>15, <2>1 DEF Holds
  <2>2. CASE n > 0 /\ b.sza = 0
    <3>1. c.sza = n /\ c.szb = 0 /\ c.ixa = r.ixResrv /\ b.szb = 0
        BY <1>1, <1>15, <2>2
    <3> QED BY <1>1, <1>9, <1>15, <2>2, <3>1 DEF Holds
  <2>3. CASE n > 0 /\ b.sza > 0 /\ r.ixResrv = b.sza + b.ixa
    <3>1. b.szb = 0 /\ c.szb = 0 /\ c.sza = b.sza + n /\ c.ixa = b.ixa
        BY SMTT(30), <1>1, <1>2, <1>3, <1>4, <1>15, <2>3
    <3>2. ASSUME NEW i \in 0 .. c.sza - 1
          PROVE  memory[c.ixa + i] = base + 1 + i
      <4>1. CASE i < b.sza
          BY <1>1, <1>12, <3>1, <4>1
      <4>2. CASE i >= b.sza
        <5>1. i - b.sza \in 0 .. n - 1 /\ r.ixResrv + (i - b.sza) = c.ixa + i
            BY <1>22, <2>3, <3>1, <4>2
        <5>2. memory[r.ixResrv + (i - b.sza)] = base + (b.sza + b.szb) + 1 + (i - b.sza)
            BY <1>1, <1>9, <5>1
        <5>3. i \in Int
            BY <1>22, <3>1
        <5> QED BY <1>22, <3>1, <5>1, <5>2, <5>3
      <4> QED BY <1>1, <4>1, <4>2
    <3> QED BY <1>15, <3>1, <3>2 DEF Holds
  <2>4. CASE n > 0 /\ b.sza > 0 /\ r.ixResrv # b.sza + b.ixa
    <3>1. c.szb = b.szb + n /\ c.sza = b.sza /\ c.ixa = b.ixa /\ r.ixResrv = b.szb
        BY <1>1, <1>3, <1>15, <2>4
    <3>2. ASSUME NEW i \in 0 .. c.szb - 1
          PROVE  memory[i] = base + c.sza + 1 + i
      <4>1. CASE i < b.szb
          BY <1>1, <1>13, <3>1, <4>1
      <4>2. CASE i >= b.szb
        <5>1. i - b.szb \in 0 .. n - 1 /\ r.ixResrv + (i - b.szb) = i
            BY <1>22, <3>1, <4>2
        <5>2. memory[r.ixResrv + (i - b.szb)] = base + (b.sza + b.szb) + 1 + (i - b.szb)
            BY <1>1, <1>9, <5>1
        <5>3. i \in Int
            BY <1>22, <3>1
        <5> QED BY <1>22, <3>1, <5>1, <5>2, <5>3
      <4> QED BY <1>1, <4>1, <4>2
    <3> QED BY <1>12, <1>15, <3>1, <3>2 DEF Holds
  <2> QED BY <1>1, <1>5, <2>1, <2>2, <2>3, <2>4
<1> QED BY <1>19, <1>20 DEF c, f, r

\* d is b without its oldest size bytes, or without block A.
Released(b, d, size, base) ==
    /\ Sound(d) /\ d.buflen = b.buflen
    /\ size >= b.sza => /\ d.ixa = 0 /\ d.sza = b.szb /\ d.szb = 0
                        /\ Holds(d, base + b.sza)
    /\ size < b.sza => /\ d.ixa = b.ixa + size /\ d.sza = b.sza - size /\ d.szb = b.szb
                       /\ Holds(d, base + size)

\* bipbuffer_DecommitBlock keeps the bytes that follow where they are.
LEMMA DecommitSound ==
    ASSUME NEW b, Sound(b), NEW size \in Nat, NEW base \in Int, Holds(b, base)
    PROVE  Released(b, DecommitBlock(b, size), size, base)
<1> DEFINE d == DecommitBlock(b, size)
<1>1. /\ b.buflen \in Nat /\ b.ixa \in Nat /\ b.sza \in Nat /\ b.szb \in Nat /\ b.ixb = 0
      /\ b.ixa + b.sza <= b.buflen
      /\ b.szb > 0 => b.sza > 0 /\ b.szb <= b.ixa
      /\ b.sza = 0 => b.ixa = 0 /\ b.szb = 0
    BY Parts
<1>2. b \in Buffers /\ b.mem \in [0 .. b.buflen - 1 -> Nat]
    BY DEF Sound
<1>3. \A i \in 0 .. b.sza - 1 : b.mem[b.ixa + i] = base + 1 + i
    BY DEF Holds
<1>4. \A i \in 0 .. b.szb - 1 : b.mem[i] = base + b.sza + 1 + i
    BY DEF Holds
<1>5. b.szResrv \in 0 .. b.buflen \/ b.buflen = 0
    BY DEF Sound
<1>6. CASE size >= b.sza
  <2>1. d = [b EXCEPT !.ixa = b.ixb, !.sza = b.szb, !.ixb = 0, !.szb = 0]
      BY <1>1, <1>6 DEF DecommitBlock
  <2>2. /\ d \in Buffers /\ d.mem = b.mem /\ d.buflen = b.buflen /\ d.szResrv = b.szResrv
        /\ d.ixa = 0 /\ d.sza = b.szb /\ d.ixb = 0 /\ d.szb = 0
    <3> HIDE DEF d
    <3>3. b.ixb \in Nat /\ b.szb \in Nat
        BY <1>1
    <3>1. d \in Buffers
        BY <1>2, <2>1, <3>3 DEF Buffers
    <3>2. /\ d.mem = b.mem /\ d.buflen = b.buflen /\ d.szResrv = b.szResrv
          /\ d.ixa = b.ixb /\ d.sza = b.szb /\ d.ixb = 0 /\ d.szb = 0
        BY <1>2, <2>1 DEF Buffers
    <3> QED BY <1>1, <3>1, <3>2
  <2> HIDE DEF d
  <2>3. BlocksOK(d)
      BY <1>1, <2>2 DEF BlocksOK
  <2>4. Sound(d)
      BY <1>2, <1>5, <2>2, <2>3 DEF Sound
  <2>5. Holds(d, base + b.sza)
      BY <1>1, <1>4, <2>2 DEF Holds
  <2> QED BY <1>1, <1>6, <2>2, <2>4, <2>5 DEF Released, d
<1>7. CASE size < b.sza
  <2>1. d = [b EXCEPT !.sza = b.sza - size, !.ixa = b.ixa + size]
      BY <1>1, <1>7 DEF DecommitBlock
  <2>2. b.sza - size \in Nat \ {0} /\ b.ixa + size \in Nat
      BY <1>1, <1>7
  <2>3. /\ d \in Buffers /\ d.mem = b.mem /\ d.buflen = b.buflen /\ d.szResrv = b.szResrv
        /\ d.ixa = b.ixa + size /\ d.sza = b.sza - size /\ d.ixb = 0 /\ d.szb = b.szb
      BY <1>1, <1>2, <2>1, <2>2 DEF Buffers
  <2> HIDE DEF d
  <2>4. BlocksOK(d)
      BY <1>1, <1>7, <2>3 DEF BlocksOK
  <2>5. Sound(d)
      BY <1>2, <1>5, <2>3, <2>4 DEF Sound
  <2>6. ASSUME NEW i \in 0 .. d.sza - 1
        PROVE  d.mem[d.ixa + i] = (base + size) + 1 + i
    <3>1. size + i \in 0 .. b.sza - 1 /\ b.ixa + (size + i) = d.ixa + i /\ i \in Int
        BY <1>1, <2>2, <2>3
    <3>2. b.mem[b.ixa + (size + i)] = base + 1 + (size + i)
        BY <1>3, <3>1
    <3> QED BY <2>3, <3>1, <3>2
  <2>7. ASSUME NEW i \in 0 .. d.szb - 1
        PROVE  d.mem[i] = (base + size) + d.sza + 1 + i
      BY <1>1, <1>4, <2>3
  <2>8. Holds(d, base + size)
      BY <2>6, <2>7 DEF Holds
  <2> QED BY <1>1, <1>7, <2>3, <2>5, <2>8 DEF Released, d
<1> QED BY <1>1, <1>6, <1>7

\* d is b, or b with its two blocks made one.
JoinOf(b, d, base) ==
    /\ Sound(d) /\ d.buflen = b.buflen /\ Holds(d, base)
    /\ b.szb = 0 => d = b
    /\ b.szb > 0 => d.szb = 0 /\ d.ixa = 0 /\ d.sza = b.sza + b.szb

\* bipbuffer_GetUnContiguousBlock puts block B behind block A at the buffer's start and
\* keeps every byte and their order.
LEMMA JoinSound ==
    ASSUME NEW b, Sound(b), NEW base \in Int, Holds(b, base)
    PROVE  JoinOf(b, GetUnContiguousBlock(b), base)
<1> DEFINE d == GetUnContiguousBlock(b)
           u == b.sza + b.szb
           memory == [i \in DOMAIN b.mem |-> IF i < u THEN Contents(b)[i + 1] ELSE b.mem[i]]
<1>1. /\ b.buflen \in Nat /\ b.ixa \in Nat /\ b.sza \in Nat /\ b.szb \in Nat /\ b.ixb = 0
      /\ b.ixa + b.sza <= b.buflen
      /\ b.szb > 0 => b.sza > 0 /\ b.szb <= b.ixa
      /\ b.sza = 0 => b.ixa = 0 /\ b.szb = 0
    BY Parts
<1>2. b \in Buffers /\ b.mem \in [0 .. b.buflen - 1 -> Nat]
    BY DEF Sound
<1>3. \A i \in 0 .. b.sza - 1 : b.mem[b.ixa + i] = base + 1 + i
    BY DEF Holds
<1>4. \A i \in 0 .. b.szb - 1 : b.mem[i] = base + b.sza + 1 + i
    BY DEF Holds
<1>5. CASE b.szb = 0
    BY <1>1, <1>5 DEF GetUnContiguousBlock, JoinOf
<1>6. CASE b.szb > 0
  <2>1. d = [b EXCEPT !.ixa = 0, !.sza = u, !.ixb = 0, !.szb = 0, !.mem = memory]
      BY <1>1, <1>6 DEF GetUnContiguousBlock
  <2>2. u \in Nat /\ u <= b.buflen /\ u > 0
      BY <1>1, <1>6
  <2>3. DOMAIN b.mem = 0 .. b.buflen - 1 /\ \A i \in 0 .. b.buflen - 1 : b.mem[i] \in Nat
      BY <1>2
  <2>4. ASSUME NEW i \in 0 .. u - 1
        PROVE  Contents(b)[i + 1] = base + 1 + i /\ Contents(b)[i + 1] \in Nat
    <3>1. i + 1 \in 1 .. b.sza + b.szb
        BY <1>1
    <3>2. CASE i + 1 <= b.sza
      <4>1. Contents(b)[i + 1] = b.mem[b.ixa + (i + 1) - 1]
          BY <3>1, <3>2 DEF Contents
      <4>2. i \in 0 .. b.sza - 1 /\ b.ixa + (i + 1) - 1 = b.ixa + i /\ b.ixa + i \in 0 .. b.buflen - 1
          BY <1>1, <3>2
      <4> QED BY <1>3, <2>3, <4>1, <4>2
    <3>3. CASE ~(i + 1 <= b.sza)
      <4>1. Contents(b)[i + 1] = b.mem[b.ixb + (i + 1) - 1 - b.sza]
          BY <3>1, <3>3 DEF Contents
      <4>2. /\ i - b.sza \in 0 .. b.szb - 1 /\ b.ixb + (i + 1) - 1 - b.sza = i - b.sza
            /\ i - b.sza \in 0 .. b.buflen - 1
          BY <1>1, <3>3
      <4>3. b.mem[i - b.sza] = base + b.sza + 1 + (i - b.sza)
          BY <1>4, <4>2
      <4>4. Contents(b)[i + 1] = b.mem[i - b.sza] /\ b.mem[i - b.sza] \in Nat
          BY <2>3, <4>1, <4>2
      <4>5. base + b.sza + 1 + (i - b.sza) = base + 1 + i
          BY <1>1
      <4> QED BY <4>3, <4>4, <4>5
    <3> QED BY <3>2, <3>3
  <2>5. memory = [i \in 0 .. b.buflen - 1 |-> IF i < u THEN Contents(b)[i + 1] ELSE b.mem[i]]
      BY <2>3
  <2> HIDE DEF memory
  <2>6. memory \in [0 .. b.buflen - 1 -> Nat]
      BY <2>2, <2>3, <2>4, <2>5
  <2>7. memory \in Memories
      BY <1>1, <2>6, MemoryIs
  <2>8. \A i \in 0 .. u - 1 : memory[i] = base + 1 + i
      BY SMTT(30), <1>1, <2>2, <2>4, <2>5
  <2>9. /\ d \in Buffers /\ d.mem = memory /\ d.buflen = b.buflen /\ d.szResrv = b.szResrv
        /\ d.ixa = 0 /\ d.sza = u /\ d.ixb = 0 /\ d.szb = 0
    <3> HIDE DEF d, u
    <3>1. d \in Buffers
        BY <1>2, <2>1, <2>2, <2>7 DEF Buffers
    <3>2. /\ d.mem = memory /\ d.buflen = b.buflen /\ d.szResrv = b.szResrv
          /\ d.ixa = 0 /\ d.sza = u /\ d.ixb = 0 /\ d.szb = 0
        BY <1>2, <2>1 DEF Buffers
    <3> QED BY <3>1, <3>2
  <2> HIDE DEF d
  <2>10. BlocksOK(d)
      BY <1>1, <2>2, <2>9 DEF BlocksOK
  <2>11. Sound(d)
      BY <2>6, <2>9, <2>10 DEF Sound
  <2>12. Holds(d, base)
      BY <2>2, <2>8, <2>9 DEF Holds
  <2> QED BY <1>6, <2>9, <2>11, <2>12 DEF JoinOf, d
<1> QED BY <1>1, <1>5, <1>6

\* b is empty.
Empty(b) == Sound(b) /\ b.sza = 0 /\ b.szb = 0 /\ b.ixa = 0

\* An empty buffer holds the positions behind any base, of which there are none.
LEMMA EmptyIs ==
    ASSUME NEW b, Sound(b), GetUsedSize(b) = 0
    PROVE  Empty(b) /\ \A base : Holds(b, base)
<1>1. /\ b.sza \in Nat /\ b.szb \in Nat
      /\ b.sza = 0 => b.ixa = 0 /\ b.szb = 0
      /\ GetUsedSize(b) = b.sza + b.szb
    BY Parts
<1>2. b.sza = 0 /\ b.szb = 0 /\ b.ixa = 0
    BY <1>1
<1>3. ASSUME NEW base PROVE Holds(b, base)
    BY <1>2 DEF Holds
<1> QED BY <1>2, <1>3 DEF Empty

\* bipbuffer_Init: a struct without memory is an empty buffer.
LEMMA InitSound == Empty(InitBuffer) /\ InitBuffer.buflen = 0
<1> DEFINE m == [i \in {} |-> ZeroByte]
           b == [mem |-> m, buflen |-> 0, ixa |-> 0, sza |-> 0, ixb |-> 0, szb |-> 0,
                 ixResrv |-> 0, szResrv |-> 0]
<1>1. InitBuffer = b
    BY DEF InitBuffer
<1>2. m \in [0 .. 0 - 1 -> Nat]
    OBVIOUS
<1>3. m \in Memories
    BY <1>2, MemoryIs
<1> HIDE DEF m
<1>4. b \in Buffers
    BY <1>3 DEF Buffers
<1>5. BlocksOK(b)
    BY DEF BlocksOK
<1>6. Sound(b)
    BY <1>2, <1>4, <1>5 DEF Sound
<1> QED BY <1>1, <1>6 DEF Empty

\* bipbuffer_FreeBuffer.
LEMMA FreeSound ==
    ASSUME NEW b, Sound(b)
    PROVE  Empty(FreeBuffer(b))
<1> DEFINE m == [i \in {} |-> ZeroByte]
           d == FreeBuffer(b)
<1>1. CASE b.buflen = 0
  <2>1. /\ b.ixa \in Nat /\ b.sza \in Nat /\ b.szb \in Nat /\ b.ixa + b.sza <= b.buflen
        /\ b.sza = 0 => b.ixa = 0 /\ b.szb = 0
      BY Parts
  <2>2. b.sza = 0 /\ b.ixa = 0 /\ b.szb = 0
      BY <1>1, <2>1
  <2> QED BY <1>1, <2>2 DEF FreeBuffer, Empty
<1>2. CASE b.buflen # 0
  <2>1. d = [b EXCEPT !.mem = m, !.buflen = 0, !.ixa = 0, !.sza = 0, !.ixb = 0, !.szb = 0]
      BY <1>2 DEF FreeBuffer
  <2>2. m \in [0 .. 0 - 1 -> Nat]
      OBVIOUS
  <2>3. m \in Memories
      BY <2>2, MemoryIs
  <2> HIDE DEF m, d
  <2>4. b \in Buffers
      BY DEF Sound
  <2>5. d \in Buffers
      BY <2>1, <2>3, <2>4 DEF Buffers
  <2>6. /\ d.mem = m /\ d.buflen = 0 /\ d.ixa = 0 /\ d.sza = 0 /\ d.ixb = 0 /\ d.szb = 0
      BY <2>1, <2>4 DEF Buffers
  <2>7. BlocksOK(d)
      BY <2>6 DEF BlocksOK
  <2>8. Sound(d)
      BY <2>2, <2>5, <2>6, <2>7 DEF Sound
  <2> QED BY <2>6, <2>8 DEF Empty, d
<1> QED BY <1>1, <1>2

\* bipbuffer_AllocateBuffer on a struct that was only initialised.
LEMMA FreshSound ==
    ASSUME NEW n \in Nat \ {0}
    PROVE  Empty(AllocateBuffer(InitBuffer, n)) /\ AllocateBuffer(InitBuffer, n).buflen = n
<1> DEFINE m == [i \in 0 .. n - 1 |-> ZeroByte]
           d == AllocateBuffer(InitBuffer, n)
<1>1. InitBuffer \in Buffers
    BY InitSound DEF Empty, Sound
<1>2. FreeBuffer(InitBuffer) = InitBuffer
    BY InitSound DEF FreeBuffer
<1>3. d = [InitBuffer EXCEPT !.buflen = n, !.mem = m]
    BY <1>2 DEF AllocateBuffer
<1>4. m \in [0 .. n - 1 -> Nat]
    BY DEF ZeroByte
<1>5. m \in Memories
    BY <1>4, MemoryIs
<1> HIDE DEF m, d
<1>6. InitBuffer.ixa = 0 /\ InitBuffer.sza = 0 /\ InitBuffer.szb = 0 /\ InitBuffer.szResrv = 0
      /\ InitBuffer.ixb = 0
    BY DEF InitBuffer
<1>7. d \in Buffers
    BY <1>1, <1>3, <1>5 DEF Buffers
<1>8. /\ d.mem = m /\ d.buflen = n /\ d.ixa = 0 /\ d.sza = 0 /\ d.ixb = 0 /\ d.szb = 0
      /\ d.szResrv = 0
    BY <1>1, <1>3, <1>6 DEF Buffers
<1>9. BlocksOK(d)
    BY <1>8 DEF BlocksOK
<1>10. Sound(d)
    BY <1>4, <1>7, <1>8, <1>9 DEF Sound
<1> QED BY <1>8, <1>10 DEF Empty, d

\* The large buffer for a packet of len bytes holds what block A of b held.
LargeOf(b, l, len, base) ==
    /\ Sound(l) /\ l.buflen = len /\ l.szb = 0 /\ l.ixa = 0 /\ l.sza = b.sza
    /\ Holds(l, base)

\* Block A of b is copied to a new large buffer, which has room for all of the packet.
LEMMA LargeSound ==
    ASSUME NEW b, Sound(b), NEW base \in Nat, Holds(b, base),
           NEW len \in Nat, 0 < b.sza, b.sza < len
    PROVE  LargeOf(b, Commit(Fill(LargeBuffer(b, len), ContiguousBlock(b)), b.sza), len, base)
<1>1. PICK e : e = AllocateBuffer(InitBuffer, len)
    OBVIOUS
<1>2. PICK n \in Nat : n = b.sza /\ n > 0 /\ n < len
    BY Parts
<1>3. Empty(e) /\ e.buflen = len
    BY <1>1, <1>2, FreshSound
<1>4. PICK s : s = ContiguousBlock(b)
    OBVIOUS
<1>5. Follow(s, n, base)
  <2>1. s = [i \in 1 .. n |-> b.mem[b.ixa + i - 1]]
      BY <1>2, <1>4 DEF ContiguousBlock
  <2>2. b.ixa \in Nat
      BY Parts
  <2>3. ASSUME NEW i \in 1 .. n
        PROVE  s[i] = base + i /\ s[i] \in Nat
    <3>1. i - 1 \in 0 .. n - 1 /\ b.ixa + i - 1 = b.ixa + (i - 1)
        BY <2>2
    <3>2. b.mem[b.ixa + (i - 1)] = base + 1 + (i - 1)
        BY <1>2, <3>1 DEF Holds
    <3> QED BY <2>1, <3>1, <3>2
  <2>4. s = [i \in 1 .. n |-> base + i]
      BY <2>1, <2>3
  <2>5. s \in Seq(Nat) /\ Len(s) = n
      BY <2>4
  <2> QED BY <2>3, <2>5 DEF Follow
<1>6. Sound(e) /\ GetUsedSize(e) = 0 /\ e.szb = 0 /\ e.ixa = 0 /\ e.sza = 0
    BY <1>3 DEF Empty, GetUsedSize
<1>7. Holds(e, base)
    BY <1>6, EmptyIs
<1>8. FreeSpace(e) = len
    BY <1>3, <1>6 DEF FreeSpace, GetSpaceAfterA
<1>9. FreeSpace(e) # 0 /\ n <= n /\ n <= FreeSpace(e) /\ n \in Nat \ {0}
    BY <1>2, <1>8
<1>10. Follow(s, n, base + GetUsedSize(e)) /\ base \in Int
    BY <1>5, <1>6
<1>11. PICK c : c = Commit(Fill(Reserve(e, n), s), n)
    OBVIOUS
<1>12. Received(e, c, n) /\ Holds(c, base)
    BY <1>6, <1>7, <1>9, <1>10, <1>11, ReceiveSound
<1>13. c = Commit(Fill(LargeBuffer(b, len), ContiguousBlock(b)), b.sza)
    BY <1>1, <1>2, <1>4, <1>11 DEF LargeBuffer
<1>14. c.sza + c.szb = n /\ c.szb = 0 /\ c.ixa = 0 /\ Sound(c) /\ c.buflen = len
    BY <1>3, <1>6, <1>12 DEF Received, GetUsedSize
<1>15. c.sza \in Nat
    BY <1>14, Parts
<1> QED BY <1>2, <1>12, <1>13, <1>14, <1>15 DEF LargeOf

-----------------------------------------------------------------------------
(* The stream, and what glink_FindFrame says of a block of it. *)

SegFirst(p) == p - stream[p].off
SegLast(p) == SegFirst(p) + stream[p].len - 1

\* The segment of the byte at p is the range SegFirst(p) .. SegLast(p).
SegmentOK(p) ==
    /\ stream[p].seg \in Nat /\ stream[p].off \in Nat /\ stream[p].len \in Nat
    /\ stream[p].kind \in {"frame", "badtail", "badlen", "garbage"}
    /\ SegFirst(p) \in Nat /\ SegFirst(p) >= 1 /\ SegFirst(p) <= p
    /\ SegLast(p) \in Nat /\ p <= SegLast(p) /\ SegLast(p) <= Len(stream)
    /\ \A q \in SegFirst(p) .. SegLast(p) :
           /\ stream[q].seg = stream[p].seg /\ stream[q].off = q - SegFirst(p)
           /\ stream[q].kind = stream[p].kind /\ stream[q].len = stream[p].len
    /\ \A q \in 1 .. Len(stream) : q > SegLast(p) => stream[q].seg > stream[p].seg
    /\ \A q \in 1 .. Len(stream) : q < SegFirst(p) => stream[q].seg < stream[p].seg
    /\ stream[p].kind \in {"frame", "badtail"} => stream[p].len >= MINFRAME

\* Every stream is cut into segments whose numbers grow.
LEMMA SegmentIs ==
    ASSUME stream \in Streams
    PROVE  Len(stream) \in Nat /\ \A p \in 1 .. Len(stream) : SegmentOK(p)
<1> DEFINE Bytes == [seg : Nat \ {0}, off : Nat, len : Nat,
                     kind : {"frame", "badtail", "badlen", "garbage"}]
<1>1. Segmented(stream)
    BY RecvAssumption
<1>2. stream \in Seq(Bytes)
    BY <1>1 DEF Segmented
<1>3. Len(stream) \in Nat
    BY <1>2
<1>4. ASSUME NEW p \in 1 .. Len(stream)
      PROVE  /\ stream[p] \in Bytes
             /\ p \in SegFirst(p) .. SegLast(p) /\ SegFirst(p) >= 1 /\ SegLast(p) <= Len(stream)
             /\ \A q \in SegFirst(p) .. SegLast(p) : stream[q] = [stream[p] EXCEPT !.off = q - SegFirst(p)]
             /\ \A q \in SegLast(p) + 1 .. Len(stream) : stream[q].seg > stream[p].seg
             /\ stream[p].kind \in {"frame", "badtail"} => stream[p].len >= MINFRAME
  <2>1. stream[p] \in Bytes
    <3> HIDE DEF Bytes
    <3> QED BY <1>2
  <2> QED BY <1>1, <2>1 DEF Segmented, SegFirst, SegLast
<1>5. ASSUME NEW p \in 1 .. Len(stream)
      PROVE  /\ stream[p].seg \in Nat /\ stream[p].off \in Nat /\ stream[p].len \in Nat
             /\ stream[p].kind \in {"frame", "badtail", "badlen", "garbage"}
             /\ SegFirst(p) \in Int /\ SegLast(p) \in Int
             /\ SegFirst(p) <= p /\ p <= SegLast(p) /\ SegFirst(p) >= 1 /\ SegLast(p) <= Len(stream)
  <2>1. stream[p] \in Bytes
      BY <1>4
  <2>2. stream[p].seg \in Nat /\ stream[p].off \in Nat /\ stream[p].len \in Nat
      BY <2>1
  <2>3. SegFirst(p) \in Int /\ SegLast(p) \in Int
      BY SMTT(30), <2>2 DEF SegFirst, SegLast
  <2>4. p \in SegFirst(p) .. SegLast(p) /\ SegFirst(p) >= 1 /\ SegLast(p) <= Len(stream)
      BY <1>4
  <2> QED BY <2>1, <2>2, <2>3, <2>4
<1>6. ASSUME NEW p \in 1 .. Len(stream), NEW q \in SegFirst(p) .. SegLast(p)
      PROVE  /\ stream[q].seg = stream[p].seg /\ stream[q].off = q - SegFirst(p)
             /\ stream[q].kind = stream[p].kind /\ stream[q].len = stream[p].len
  <2>1. stream[p] \in Bytes
      BY <1>4
  <2>2. stream[q] = [stream[p] EXCEPT !.off = q - SegFirst(p)]
      BY <1>4
  <2> QED BY <2>1, <2>2
<1>7. ASSUME NEW p \in 1 .. Len(stream), NEW q \in 1 .. Len(stream), q > SegLast(p)
      PROVE  stream[q].seg > stream[p].seg
  <2>1. q \in SegLast(p) + 1 .. Len(stream)
      BY <1>3, <1>5, <1>7
  <2> QED BY <1>4, <2>1
<1>8. ASSUME NEW p \in 1 .. Len(stream), NEW q \in 1 .. Len(stream), q < SegFirst(p)
      PROVE  stream[q].seg < stream[p].seg
  <2>1. CASE p > SegLast(q)
    <3>1. stream[p].seg > stream[q].seg
        BY <1>7, <2>1
    <3> QED BY <1>5, <3>1
  <2>2. CASE p <= SegLast(q)
    <3>1. p \in SegFirst(q) .. SegLast(q)
        BY <1>5, <1>8, <2>2
    <3>2. stream[p].off = p - SegFirst(q)
        BY <1>6, <3>1
    <3>3. SegFirst(p) = SegFirst(q)
        BY SMTT(30), <1>5, <3>2 DEF SegFirst
    <3> QED BY <1>5, <1>8, <3>3
  <2> QED BY <1>5, <2>1, <2>2
<1>9. ASSUME NEW p \in 1 .. Len(stream)
      PROVE  SegmentOK(p)
  <2>1. \A q \in SegFirst(p) .. SegLast(p) :
           /\ stream[q].seg = stream[p].seg /\ stream[q].off = q - SegFirst(p)
           /\ stream[q].kind = stream[p].kind /\ stream[q].len = stream[p].len
      BY <1>6
  <2>2. \A q \in 1 .. Len(stream) : q > SegLast(p) => stream[q].seg > stream[p].seg
      BY <1>7
  <2>3. \A q \in 1 .. Len(stream) : q < SegFirst(p) => stream[q].seg < stream[p].seg
      BY <1>8
  <2>4. stream[p].kind \in {"frame", "badtail"} => stream[p].len >= MINFRAME
      BY <1>4
  <2>5. SegFirst(p) \in Nat /\ SegLast(p) \in Nat
      BY <1>5
  <2> QED BY <1>5, <2>1, <2>2, <2>3, <2>4, <2>5 DEF SegmentOK
<1> QED BY <1>3, <1>9

\* Bytes of one segment, and only they, have its number.
LEMMA SameSegment ==
    ASSUME stream \in Streams, NEW p \in 1 .. Len(stream), NEW q \in 1 .. Len(stream)
    PROVE  stream[q].seg = stream[p].seg <=> q \in SegFirst(p) .. SegLast(p)
<1>1. SegmentOK(p) /\ SegmentOK(q) /\ Len(stream) \in Nat
    BY SegmentIs
<1>2. stream[p].seg \in Nat /\ stream[q].seg \in Nat /\ SegFirst(p) \in Nat /\ SegLast(p) \in Nat
    BY <1>1 DEF SegmentOK
<1>3. q > SegLast(p) => stream[q].seg > stream[p].seg
    BY <1>1 DEF SegmentOK
<1>4. q < SegFirst(p) => stream[q].seg < stream[p].seg
    BY <1>1 DEF SegmentOK
<1>5. q \in SegFirst(p) .. SegLast(p) => stream[q].seg = stream[p].seg
    BY <1>1 DEF SegmentOK
<1> QED BY <1>2, <1>3, <1>4, <1>5

\* A head tag is found only at the first byte of a segment ...
LEMMA TagIs ==
    ASSUME NEW p \in Int, Tag(p)
    PROVE  stream[p].off = 0 /\ stream[p].kind # "garbage"
<1>1. 0 \in 0 .. TAG - 1
    BY RecvAssumption
<1>2. stream[p + 0].off = 0
    BY <1>1 DEF Tag, TagIn
<1>3. p \in Int => p + 0 = p
    OBVIOUS
<1> QED BY <1>2, <1>3 DEF Tag, TagIn

\* ... and at the first byte of every frame.
LEMMA FrameHasTag ==
    ASSUME stream \in Streams, NEW p \in 1 .. Len(stream), stream[p].kind = "frame"
    PROVE  Tag(SegFirst(p))
<1>1. SegmentOK(p) /\ Len(stream) \in Nat
    BY SegmentIs
<1>2. PICK f \in Nat : f = SegFirst(p)
    BY <1>1 DEF SegmentOK
<1>3. stream[p].len \in Nat /\ stream[p].len >= MINFRAME /\ SegLast(p) = f + stream[p].len - 1
    BY <1>1, <1>2 DEF SegmentOK, SegLast
<1>4. TAG \in Nat /\ TAG > 0 /\ MINFRAME \in Nat /\ MINFRAME >= 2 * TAG
    BY RecvAssumption
<1>5. ASSUME NEW j \in 0 .. TAG - 1
      PROVE  f + j \in f .. SegLast(p)
    BY SMTT(30), <1>3, <1>4
<1>6. \A q \in f .. SegLast(p) : /\ stream[q].seg = stream[p].seg /\ stream[q].off = q - f
                                 /\ stream[q].kind = stream[p].kind
    BY <1>1, <1>2 DEF SegmentOK
<1>7. f \in f .. SegLast(p)
    BY <1>3, <1>4
<1>8. stream[f].kind # "garbage" /\ stream[f].seg = stream[p].seg
    BY <1>6, <1>7
<1>9. ASSUME NEW j \in 0 .. TAG - 1
      PROVE  stream[f + j].seg = stream[f].seg /\ stream[f + j].off = j
  <2>1. stream[f + j].seg = stream[p].seg /\ stream[f + j].off = (f + j) - f
      BY <1>5, <1>6
  <2>2. j \in Int
      BY <1>4
  <2> QED BY <1>8, <2>1, <2>2
<1> QED BY <1>2, <1>8, <1>9 DEF Tag, TagIn

\* A packet is a whole segment.
LEMMA PacketIs ==
    ASSUME stream \in Streams, NEW p \in 1 .. Len(stream), NEW len, Packet(p, len)
    PROVE  /\ SegFirst(p) = p /\ SegLast(p) = p + len - 1 /\ SegLast(p) <= Len(stream)
           /\ len = stream[p].len /\ len \in Nat /\ len >= MINFRAME
           /\ stream[p].off = 0 /\ Tag(p) /\ stream[p].kind \in {"frame", "badtail"}
<1>1. SegmentOK(p) /\ Len(stream) \in Nat
    BY SegmentIs
<1>2. Tag(p) /\ stream[p].kind # "badlen" /\ len = stream[p].len
    BY DEF Packet, PacketIn, Tag
<1>3. stream[p].off = 0 /\ stream[p].kind # "garbage"
    BY <1>2, TagIs
<1>4. SegFirst(p) = p
    BY <1>3 DEF SegFirst
<1>5. SegLast(p) = p + len - 1
    BY <1>2, <1>4 DEF SegLast
<1> QED BY <1>1, <1>2, <1>3, <1>4, <1>5 DEF SegmentOK

\* The contents of a buffer are the positions behind its base, and so is block A.
LEMMA ContentsFollow ==
    ASSUME NEW b, Sound(b), NEW base \in Nat, Holds(b, base)
    PROVE  Follow(Contents(b), GetUsedSize(b), base)
<1>1. PICK a \in Nat : a = b.sza
    BY Parts
<1>2. PICK u \in Nat : u = b.sza + b.szb
    BY Parts
<1>3. b.ixb = 0 /\ b.ixa \in Nat /\ b.szb \in Nat /\ GetUsedSize(b) = u
    BY <1>2, Parts
<1>4. Contents(b) = [i \in 1 .. u |->
            IF i <= a THEN b.mem[b.ixa + i - 1] ELSE b.mem[b.ixb + i - 1 - a]]
    BY <1>1, <1>2 DEF Contents
<1>5. ASSUME NEW i \in 1 .. u
      PROVE  Contents(b)[i] = base + i
  <2>1. CASE i <= a
    <3>1. i - 1 \in 0 .. b.sza - 1 /\ b.ixa + i - 1 = b.ixa + (i - 1)
        BY <1>1, <1>3, <2>1
    <3>2. b.mem[b.ixa + (i - 1)] = base + 1 + (i - 1)
        BY <3>1 DEF Holds
    <3> QED BY <1>4, <2>1, <3>1, <3>2
  <2>2. CASE ~(i <= a)
    <3>1. i - 1 - a \in 0 .. b.szb - 1 /\ b.ixb + i - 1 - a = i - 1 - a
        BY <1>1, <1>2, <1>3, <2>2
    <3>2. b.mem[i - 1 - a] = base + b.sza + 1 + (i - 1 - a)
        BY <3>1 DEF Holds
    <3>3. base + b.sza + 1 + (i - 1 - a) = base + i
        BY <1>1
    <3> QED BY <1>4, <2>2, <3>1, <3>2, <3>3
  <2> QED BY <2>1, <2>2
<1>6. Contents(b) = [i \in 1 .. u |-> base + i]
    BY <1>4, <1>5
<1>7. Contents(b) \in Seq(Nat) /\ Len(Contents(b)) = u
    BY <1>6
<1> QED BY <1>3, <1>5, <1>7 DEF Follow

\* The first k of the n positions behind from.
LEMMA PrefixFollows ==
    ASSUME NEW s, NEW n \in Nat, NEW k \in 0 .. n, NEW from \in Nat, Follow(s, n, from)
    PROVE  Follow(SubSeq(s, 1, k), k, from)
<1>1. s \in Seq(Nat) /\ Len(s) = n
    BY DEF Follow
<1>2. \A i \in 1 .. n : s[i] = from + i
    BY DEF Follow
<1>3. SubSeq(s, 1, k) = [i \in 1 .. k |-> s[i]]
    BY <1>1
<1>4. SubSeq(s, 1, k) = [i \in 1 .. k |-> from + i]
    BY <1>2, <1>3
<1>5. SubSeq(s, 1, k) \in Seq(Nat) /\ Len(SubSeq(s, 1, k)) = k
    BY <1>4
<1> QED BY <1>4, <1>5 DEF Follow

\* glink_FindFrame is given the n bytes behind base.
LEMMA HeadIs ==
    ASSUME NEW blk, NEW n \in Nat, NEW base \in Nat, Follow(blk, n, base),
           NEW i \in 1 .. n, i + TAG - 1 <= n
    PROVE  HeadAt(blk, i) <=> Tag(base + i)
<1>1. TAG \in Nat /\ TAG > 0
    BY RecvAssumption
<1>2. Len(blk) = n
    BY DEF Follow
<1>3. ASSUME NEW j \in 0 .. TAG - 1
      PROVE  blk[i + j] = (base + i) + j
  <2>1. i + j \in 1 .. n /\ base + (i + j) = (base + i) + j
      BY <1>1
  <2> QED BY <2>1 DEF Follow
<1>4. blk[i] = base + i
    BY DEF Follow
<1> QED BY <1>2, <1>3, <1>4 DEF HeadAt, Tag, TagIn

\* What is released when the block does not start with a head tag holds none.
LEMMA ReleaseIs ==
    ASSUME NEW blk, NEW n \in Nat, NEW base \in Nat, Follow(blk, n, base),
           n >= MINFRAME, ~HeadAt(blk, 1)
    PROVE  /\ ReleaseBeforeHead(blk) \in 1 .. n
           /\ \A p \in base + 1 .. base + ReleaseBeforeHead(blk) : ~Tag(p)
<1>1. TAG \in Nat /\ TAG > 0 /\ MINFRAME \in Nat /\ MINFRAME >= 2 * TAG
    BY RecvAssumption
<1>2. Len(blk) = n
    BY DEF Follow
<1>3. SearchRange(blk) = 0 .. n - TAG - 1
    BY <1>2 DEF SearchRange
<1>4. ASSUME NEW i \in 0 .. n - TAG - 1
      PROVE  HeadAt(blk, i + 1) <=> Tag(base + 1 + i)
  <2>1. PICK k \in 1 .. n : k = i + 1
      BY <1>1
  <2>2. k + TAG - 1 <= n
      BY <1>1, <2>1
  <2>3. HeadAt(blk, k) <=> Tag(base + k)
      BY <2>2, HeadIs
  <2>4. base + k = base + 1 + i
      BY <2>1
  <2> QED BY <2>1, <2>3, <2>4
<1>5. CASE FirstHead(blk) = {}
  <2> DEFINE H == {i \in 0 .. n - TAG - 1 : HeadAt(blk, i + 1)}
  <2>1. H = {}
    <3>1. SUFFICES ASSUME H # {} PROVE FALSE
        OBVIOUS
    <3>2. H \subseteq Nat
        BY <1>1
    <3>3. PICK x \in H : \A y \in H : x <= y
        BY <3>1, <3>2, LeastNat
    <3>4. ASSUME NEW j \in 0 .. x - 1
          PROVE  ~HeadAt(blk, j + 1)
      <4>1. x \in 0 .. n - TAG - 1
          OBVIOUS
      <4>2. j \in 0 .. n - TAG - 1 /\ ~(x <= j)
          BY <1>1, <4>1
      <4>3. j \notin H
          BY <3>3, <4>2
      <4> QED BY <4>2, <4>3
    <3>5. x \in FirstHead(blk)
        BY <1>3, <3>4 DEF FirstHead
    <3> QED BY <1>5, <3>5
  <2>2. ReleaseBeforeHead(blk) = n - TAG
      BY <1>2, <1>5 DEF ReleaseBeforeHead
  <2>3. ASSUME NEW p \in base + 1 .. base + (n - TAG)
        PROVE  ~Tag(p)
    <3>1. PICK i \in 0 .. n - TAG - 1 : i = p - base - 1
        BY <1>1
    <3>2. ~HeadAt(blk, i + 1)
        BY <2>1
    <3>3. ~Tag(base + 1 + i)
        BY <1>4, <3>2
    <3>4. base + 1 + i = p
        BY <3>1
    <3> QED BY <3>3, <3>4
  <2>4. n - TAG \in 1 .. n
      BY <1>1
  <2> QED BY <2>2, <2>3, <2>4
<1>6. CASE FirstHead(blk) # {}
  <2>1. PICK c : c = ReleaseBeforeHead(blk) /\ c \in FirstHead(blk)
      BY <1>6 DEF ReleaseBeforeHead
  <2>2. c \in 0 .. n - TAG - 1 /\ HeadAt(blk, c + 1) /\ \A j \in 0 .. c - 1 : ~HeadAt(blk, j + 1)
      BY <1>3, <2>1 DEF FirstHead
  <2>3. c # 0
      BY <2>2
  <2>4. c \in 1 .. n
      BY <1>1, <2>2, <2>3
  <2>5. ASSUME NEW p \in base + 1 .. base + c
        PROVE  ~Tag(p)
    <3>1. PICK i \in 0 .. c - 1 : i = p - base - 1
        BY <2>4
    <3>2. i \in 0 .. n - TAG - 1
        BY <1>1, <2>2, <2>4
    <3>3. ~HeadAt(blk, i + 1)
        BY <2>2
    <3>4. ~Tag(base + 1 + i)
        BY <1>4, <3>2, <3>3
    <3>5. base + 1 + i = p
        BY <3>1
    <3> QED BY <3>4, <3>5
  <2> QED BY <2>1, <2>4, <2>5
<1> QED BY <1>5, <1>6

\* What glink_FindFrame says of the n bytes behind base.
FoundIs(f, n, base) ==
    /\ f.ret \in {0, -2, -3} /\ f.len \in Nat
    /\ f.ret = 0 => /\ Packet(base + 1, f.len) /\ stream[base + 1].kind = "frame"
                    /\ f.len <= n
    /\ f.ret = -2 => /\ f.len \in 1 .. n
                     /\ \/ \A p \in base + 1 .. base + f.len : ~Tag(p)
                        \/ /\ Tag(base + 1) /\ stream[base + 1].kind = "badlen"
                           /\ f.len = TAG
                        \/ Packet(base + 1, f.len) /\ stream[base + 1].kind # "frame"
    /\ f.ret = -3 => Packet(base + 1, n + f.len) /\ f.len > 0

\* glink_FindFrame says 0 only of a correct frame at the start, releases only bytes that
\* start no frame, and asks for more only behind the start of a packet.
LEMMA FindFrameIs ==
    ASSUME stream \in Streams, NEW blk, NEW n \in Nat, NEW base \in Nat, Follow(blk, n, base),
           n >= MINFRAME, base + n <= Len(stream)
    PROVE  FoundIs(FindFrame(blk), n, base)
<1> DEFINE f == FindFrame(blk)
           pklen == stream[blk[1]].len
<1>1. TAG \in Nat /\ TAG > 0 /\ MINFRAME \in Nat /\ MINFRAME >= 2 * TAG
    BY RecvAssumption
<1>2. Len(blk) = n
    BY DEF Follow
<1>3. 1 \in 1 .. n /\ 1 + TAG - 1 <= n
    BY <1>1
<1>4. blk[1] = base + 1
    BY <1>3 DEF Follow
<1>5. HeadAt(blk, 1) <=> Tag(base + 1)
    BY <1>3, HeadIs
<1>6. Len(stream) \in Nat
    BY SegmentIs
<1>7. base + 1 \in 1 .. Len(stream)
    BY <1>3, <1>6
<1>8. SegmentOK(base + 1)
    BY <1>7, SegmentIs
<1>9. pklen = stream[base + 1].len /\ pklen \in Nat
    BY <1>4, <1>8 DEF SegmentOK
<1>10. CASE ~HeadAt(blk, 1)
  <2>1. f = [ret |-> -2, len |-> ReleaseBeforeHead(blk)]
      BY <1>2, <1>1, <1>10 DEF FindFrame
  <2>2. /\ ReleaseBeforeHead(blk) \in 1 .. n
        /\ \A p \in base + 1 .. base + ReleaseBeforeHead(blk) : ~Tag(p)
      BY <1>10, ReleaseIs
  <2> QED BY <2>1, <2>2 DEF FoundIs
<1>11. CASE HeadAt(blk, 1) /\ stream[blk[1]].kind = "badlen"
  <2>1. f = [ret |-> -2, len |-> TAG]
      BY <1>2, <1>1, <1>11 DEF FindFrame
  <2>2. TAG \in 1 .. n
      BY <1>1
  <2> QED BY <1>1, <1>4, <1>5, <1>11, <2>1, <2>2 DEF FoundIs
<1>12. CASE HeadAt(blk, 1) /\ stream[blk[1]].kind # "badlen"
  <2>1. PICK p \in 1 .. Len(stream) : p = base + 1
      BY <1>7
  <2>2. Packet(p, pklen)
      BY <1>4, <1>5, <1>12, <2>1 DEF Packet, PacketIn, Tag
  <2>3. pklen >= MINFRAME /\ SegFirst(p) = p /\ SegLast(p) = p + pklen - 1
      BY <2>2, PacketIs
  <2>4. CASE n < pklen
    <3>1. f = [ret |-> -3, len |-> pklen - n]
        BY <1>2, <1>1, <1>12, <2>4 DEF FindFrame
    <3>2. n + (pklen - n) = pklen /\ pklen - n \in Nat \ {0}
        BY SMTT(30), <1>9, <2>4
    <3> QED BY <2>1, <2>2, <3>1, <3>2 DEF FoundIs
  <2>5. CASE ~(n < pklen) /\ TailOK(blk, pklen)
    <3>1. f = [ret |-> 0, len |-> pklen]
        BY <1>2, <1>1, <1>12, <2>5 DEF FindFrame
    <3>2. stream[base + 1].kind = "frame"
        BY <1>4, <2>5 DEF TailOK
    <3> QED BY <1>9, <2>1, <2>2, <2>5, <3>1, <3>2 DEF FoundIs
  <2>6. CASE ~(n < pklen) /\ ~TailOK(blk, pklen)
    <3>1. f = [ret |-> -2, len |-> pklen]
        BY <1>2, <1>1, <1>12, <2>6 DEF FindFrame
    <3>2. stream[base + 1].kind # "frame"
      <4>1. SUFFICES ASSUME stream[base + 1].kind = "frame" PROVE TailOK(blk, pklen)
          BY <2>6
      <4>2. ASSUME NEW i \in pklen - TAG + 1 .. pklen
            PROVE  stream[blk[i]].seg = stream[blk[1]].seg /\ stream[blk[i]].off = i - 1
        <5>1. i \in 1 .. n
            BY SMTT(30), <1>1, <1>9, <2>3, <2>6
        <5>2. blk[i] = base + i
            BY <5>1 DEF Follow
        <5>3. base + i \in p .. SegLast(p) /\ (base + i) - p = i - 1
            BY SMTT(30), <1>1, <1>9, <2>1, <2>3, <5>1
        <5>4. SegmentOK(p)
            BY <1>8, <2>1
        <5>5. stream[base + i].seg = stream[p].seg /\ stream[base + i].off = (base + i) - p
            BY <2>3, <5>3, <5>4 DEF SegmentOK
        <5> QED BY <1>4, <2>1, <5>2, <5>3, <5>5
      <4> QED BY <1>4, <4>1, <4>2 DEF TailOK
    <3>3. pklen \in 1 .. n
        BY <1>1, <1>9, <2>3, <2>6
    <3> QED BY <2>1, <2>2, <3>1, <3>2, <3>3 DEF FoundIs
  <2> QED BY <1>9, <2>4, <2>5, <2>6
<1> QED BY <1>10, <1>11, <1>12

-----------------------------------------------------------------------------
(* The states of the two buffers. *)

\* The numbers behind BytesOK while the connection is open.
LEMMA Now ==
    ASSUME TypeOK, BytesOK, conn = "open"
    PROVE  /\ Base \in Nat /\ Low \in Nat /\ rcvd \in Nat /\ sent \in Nat /\ Len(stream) \in Nat
           /\ Base + GetUsedSize(bb) = rcvd /\ Low + GetUsedSize(lbb) = Base
           /\ rcvd <= sent /\ sent <= Len(stream)
           /\ GetUsedSize(bb) \in Nat /\ GetUsedSize(lbb) \in Nat
           /\ Holds(bb, Base) /\ Holds(lbb, Low)
<1>1. Len(stream) \in Nat
    BY SegmentIs DEF TypeOK
<1>2. sent \in 0 .. Len(stream) /\ rcvd \in 0 .. sent /\ Sound(bb) /\ Sound(lbb)
    BY DEF TypeOK
<1>3. GetUsedSize(bb) \in Nat /\ GetUsedSize(lbb) \in Nat
    BY <1>2, Parts DEF GetUsedSize
<1>4. Low >= 0 /\ Holds(bb, Base) /\ Holds(lbb, Low)
    BY DEF BytesOK
<1> QED BY <1>1, <1>2, <1>3, <1>4 DEF Base, Low

\* glink_FindFrame looks at the positions behind Base.
LEMMA BlockIs ==
    ASSUME TypeOK, BytesOK, conn = "open"
    PROVE  Follow(Block, bb.sza, Base)
<1>1. Sound(bb) /\ Base \in Nat /\ Holds(bb, Base)
    BY Now DEF TypeOK
<1>2. PICK u \in Nat : u = GetUsedSize(bb) /\ u = bb.sza + bb.szb
    BY <1>1, Parts
<1>3. PICK a \in Nat : a = bb.sza /\ a \in 0 .. u
    BY <1>1, <1>2, Parts
<1>4. PICK s : s = Contents(bb)
    OBVIOUS
<1>5. Follow(s, u, Base)
    BY <1>1, <1>2, <1>4, ContentsFollow
<1>6. PICK base \in Nat : base = Base
    BY <1>1
<1>7. Follow(SubSeq(s, 1, a), a, base)
    BY <1>3, <1>5, <1>6, PrefixFollows
<1> QED BY <1>3, <1>4, <1>6, <1>7 DEF Block

\* The ring is bb, and lbb is not used.
LEMMA RingState ==
    ASSUME stream' = stream, NEW b, bb' = b, Sound(b), Sound(lbb'), GetUsedSize(lbb') = 0,
           NEW base \in Nat, rcvd' - GetUsedSize(b) = base, Holds(b, base),
           b.buflen = BIPBUFFER_LEN, enable_lbb' = FALSE,
           Shape(stream, b, base), pc' = "again" \/ Rest(stream, b, base)
    PROVE  BuffersOK' /\ Base' = base /\ Low' = base
<1>1. Base' = base
    BY DEF Base
<1>2. Low' = base
    BY <1>1 DEF Low
<1>3. Holds(lbb', base)
    BY EmptyIs
<1>4. BytesOK'
    BY <1>1, <1>2, <1>3 DEF BytesOK
<1>5. FillingOK' /\ FullOK'
    BY DEF FillingOK, FullOK, Filling, Full
<1>6. RingOK'
    BY <1>1 DEF RingOK
<1>7. WaitOK'
  <2>1. pc' = "wait" => Rest(stream, b, base)
      OBVIOUS
  <2> QED BY <1>1, <2>1 DEF WaitOK
<1> QED BY <1>1, <1>2, <1>4, <1>5, <1>6, <1>7 DEF BuffersOK

\* The connection was removed, and no large frame was being received.
LEMMA ClosedState ==
    ASSUME conn' = "closed", enable_lbb' = FALSE
    PROVE  BuffersOK'
BY DEF BuffersOK, BytesOK, FillingOK, FullOK, Filling, Full, RingOK, WaitOK

\* l holds the first bytes of a large frame of which left bytes are missing.
Partial(l, left, failed) ==
    /\ Sound(l) /\ l.szb = 0 /\ l.ixa = 0 /\ l.sza > 0
    /\ left >= Room(l) /\ left <= Room(l) + failed

\* lbb is being filled.
LEMMA FillingState ==
    ASSUME stream' = stream, rcvd' \in Nat, NEW b, bb' = b, Empty(b), NEW l, lbb' = l,
           enable_lbb' = TRUE, lbyte' > 0, ~(lbyte' <= 0), Partial(l, lbyte', spurious'),
           NEW low \in Nat,
           conn' = "open" => /\ rcvd' - GetUsedSize(l) = low /\ Holds(l, low)
                             /\ b.buflen = BIPBUFFER_LEN /\ Packet(low + 1, l.buflen)
    PROVE  BuffersOK' /\ (conn' = "open" => Low' = low)
<1>1. GetUsedSize(b) = 0 /\ Sound(b)
    BY DEF Empty, GetUsedSize
<1>2. Base' = rcvd'
  <2>1. Base' = rcvd' - GetUsedSize(b)
      BY DEF Base
  <2>2. \A r \in Nat : r - 0 = r
      OBVIOUS
  <2> QED BY <1>1, <2>1, <2>2, Zenon
<1>3. conn' = "open" => Low' = low
    BY <1>2 DEF Low
<1>4. BytesOK'
  <2>1. Holds(b, rcvd')
      BY <1>1, EmptyIs
  <2> QED BY <1>2, <1>3, <2>1 DEF BytesOK
<1>5. FillingOK'
  <2>1. conn' = "open" => PacketIn(stream', Low' + 1, l.buflen)
      BY <1>3 DEF Packet
  <2> QED BY <1>1, <2>1 DEF FillingOK, Partial, Packet, Room
<1>6. FullOK' /\ RingOK' /\ WaitOK'
    BY DEF FullOK, Full, RingOK, WaitOK
<1> QED BY <1>3, <1>4, <1>5, <1>6 DEF BuffersOK

-----------------------------------------------------------------------------
(* Every action keeps the buffers as they should be; all but Deliver and Skip *)
(* keep the oldest byte as well.                                           *)

StaysOK == TypeOK' /\ BuffersOK' /\ (conn' = "open" => Low' = Low)

\* A step that leaves the buffers and what is received alone.
LEMMA SameBuffers ==
    ASSUME BuffersOK, UNCHANGED <<stream, rcvd, conn, bb, lbb, enable_lbb, lbyte, retRecv, pc, spurious>>
    PROVE  BuffersOK' /\ Low' = Low
<1>1. Base' = Base
    BY DEF Base
<1>2. Low' = Low
    BY <1>1 DEF Low
<1>3. BytesOK'
    BY <1>1, <1>2 DEF BuffersOK, BytesOK
<1>4. FillingOK' /\ FullOK'
    BY <1>1, <1>2 DEF BuffersOK, FillingOK, FullOK, Filling, Full, Packet, Room
<1>5. RingOK' /\ WaitOK'
    BY <1>1 DEF BuffersOK, RingOK, WaitOK
<1> QED BY <1>2, <1>3, <1>4, <1>5 DEF BuffersOK

\* The peer sends or closes.
LEMMA PeerStep ==
    ASSUME TypeOK, BuffersOK, PeerSend \/ PeerClose
    PROVE  StaysOK
<1>1. BuffersOK' /\ Low' = Low
    BY SameBuffers DEF PeerSend, PeerClose
<1>2. Len(stream) \in Nat /\ sent \in 0 .. Len(stream) /\ rcvd \in 0 .. sent
    BY SegmentIs DEF TypeOK
<1>3. CASE PeerSend
  <2>1. PICK n \in sent + 1 .. Smaller(Len(stream), rcvd + SOCKETBUF) : sent' = n
      BY <1>3 DEF PeerSend
  <2>2. SOCKETBUF \in Nat
      BY RecvAssumption
  <2>3. Smaller(Len(stream), rcvd + SOCKETBUF) \in Nat
        /\ Smaller(Len(stream), rcvd + SOCKETBUF) <= Len(stream)
      BY <1>2, <2>2 DEF Smaller
  <2>4. sent' \in 0 .. Len(stream) /\ rcvd \in 0 .. sent'
      BY <1>2, <2>1, <2>3
  <2>5. TypeOK'
      BY <1>3, <2>4 DEF PeerSend, TypeOK
  <2> QED BY <1>1, <2>5 DEF StaysOK
<1>4. CASE PeerClose
    BY <1>1, <1>4 DEF PeerClose, TypeOK, StaysOK
<1> QED BY <1>3, <1>4

\* In epoll_wait, with nothing in lbb, the ring may be read into.
LEMMA RecvNoSpaceStep ==
    ASSUME TypeOK, BuffersOK, RecvNoSpace
    PROVE  StaysOK
<1>1. /\ pc = "wait" /\ conn = "open" /\ retRecv' = 1 /\ pc' = "again"
      /\ UNCHANGED <<netvars, rcvd, conn, bb, lbb, enable_lbb, lbyte, morebyte, delivered, spurious>>
    BY DEF RecvNoSpace, Readable
<1>2. TypeOK'
    BY <1>1 DEF TypeOK, netvars
<1>3. Base' = Base /\ Low' = Low
    BY <1>1 DEF Base, Low
<1>4. BytesOK'
    BY <1>1, <1>3 DEF BuffersOK, BytesOK
<1>5. FillingOK'
    BY <1>1, <1>3 DEF BuffersOK, FillingOK, Filling, Packet, Room, netvars
<1>6. FullOK'
    BY <1>1, <1>3 DEF BuffersOK, FullOK, Full
<1>7. RingOK' /\ WaitOK'
    BY <1>1, <1>3 DEF BuffersOK, RingOK, WaitOK, netvars
<1> QED BY <1>2, <1>3, <1>4, <1>5, <1>6, <1>7 DEF BuffersOK, StaysOK

\* What recv() returns and delivers.
LEMMA RecvIs ==
    ASSUME TypeOK, NEW r \in Nat
    PROVE  /\ RecvCount(r) \in 0 .. r /\ rcvd + RecvCount(r) \in 0 .. sent
           /\ RecvCount(r) = 0 => r = 0 \/ sent = rcvd
           /\ Follow(RecvBytes(RecvCount(r)), RecvCount(r), rcvd)
<1>1. Len(stream) \in Nat /\ sent \in 0 .. Len(stream) /\ rcvd \in 0 .. sent
    BY SegmentIs DEF TypeOK
<1>2. PICK n : n = RecvCount(r)
    OBVIOUS
<1>3. n \in 0 .. r /\ rcvd + n \in 0 .. sent /\ (n = 0 => r = 0 \/ sent = rcvd)
    BY <1>1, <1>2 DEF RecvCount, Smaller
<1>4. PICK s : s = RecvBytes(n)
    OBVIOUS
<1>5. s = [i \in 1 .. n |-> rcvd + i]
    BY <1>4 DEF RecvBytes
<1>6. n \in Nat /\ rcvd \in Nat
    BY <1>1, <1>3
<1>7. s \in Seq(Nat) /\ Len(s) = n /\ \A i \in 1 .. n : s[i] = rcvd + i
    BY <1>5, <1>6
<1> QED BY <1>2, <1>3, <1>4, <1>7 DEF Follow

\* The ring after recv() put n bytes behind those it had.
LEMMA ReceivedShape ==
    ASSUME NEW b, Sound(b), NEW c, NEW n \in Nat, Received(b, c, n), NEW base,
           b.buflen = BIPBUFFER_LEN, MINFRAME + n <= BIPBUFFER_LEN,
           Shape(stream, b, base), Rest(stream, b, base)
    PROVE  /\ Shape(stream, c, base)
           /\ n = 0 /\ c.szb > 0 => \/ GetUsedSize(c) < MINFRAME
                                    \/ Opens(stream, c, base) /\ GetUsedSize(c) < stream[base + 1].len
<1>1. /\ b.buflen \in Nat /\ b.ixa \in Nat /\ b.sza \in Nat /\ b.szb \in Nat
      /\ GetUsedSize(b) = b.sza + b.szb
    BY Parts
<1>2. /\ Sound(c) /\ c.buflen = b.buflen
      /\ GetUsedSize(c) = GetUsedSize(b) + n
      /\ c.szb > 0 => /\ c.sza = b.sza /\ c.ixa = b.ixa /\ b.sza > 0
                      /\ b.szb = 0 => GetSpaceAfterA(b) < b.ixa
      /\ b.szb = 0 /\ b.ixa = 0 => c.szb = 0 /\ c.ixa = 0
    BY DEF Received
<1>3. c.szb \in Nat /\ GetUsedSize(c) = c.sza + c.szb
    BY <1>2, Parts
<1>4. MINFRAME \in Nat /\ BIPBUFFER_LEN \in Nat
    BY RecvAssumption
<1>5. CASE c.szb > 0
  <2>1. c.sza = b.sza /\ c.ixa = b.ixa /\ ~(b.szb = 0 /\ b.ixa = 0)
      BY <1>2, <1>3, <1>5
  <2>2. GetSpaceAfterA(c) = GetSpaceAfterA(b)
      BY <1>2, <2>1 DEF GetSpaceAfterA
  <2>3. GetSpaceAfterA(b) < b.ixa
      BY <1>1, <1>2, <1>5 DEF Shape
  <2>4. \/ GetUsedSize(b) < MINFRAME
        \/ Opens(stream, b, base) /\ GetUsedSize(b) < stream[base + 1].len
      BY <2>1 DEF Rest
  <2>5. Opens(stream, b, base) => Opens(stream, c, base)
      BY <2>1 DEF Opens
  <2>6. GetUsedSize(b) < MINFRAME => c.sza < MINFRAME /\ GetUsedSize(c) < BIPBUFFER_LEN
      BY <1>1, <1>2, <1>4, <2>1
  <2>7. Shape(stream, c, base)
      BY <2>1, <2>2, <2>3, <2>4, <2>5, <2>6 DEF Shape
  <2>8. n = 0 => GetUsedSize(c) = GetUsedSize(b)
      BY <1>1, <1>2
  <2> QED BY <2>4, <2>5, <2>7, <2>8
<1>6. CASE ~(c.szb > 0)
    BY <1>6 DEF Shape
<1> QED BY <1>5, <1>6

\* recv() into the ring; a second block comes to exist only as Shape allows.
LEMMA RecvToBBStep ==
    ASSUME TypeOK, BuffersOK, RecvToBB
    PROVE  /\ StaysOK
           /\ retRecv' = 0 => /\ sent' = rcvd'
                              /\ bb'.szb > 0 => \/ GetUsedSize(bb') < MINFRAME
                                                \/ /\ Opens(stream, bb', Base')
                                                   /\ GetUsedSize(bb') < stream[Base' + 1].len
<1>1. /\ pc = "wait" /\ conn = "open" /\ ~enable_lbb /\ FreeSpace(bb) # 0 /\ pc' = "again"
      /\ UNCHANGED <<netvars, conn, lbb, enable_lbb, lbyte, morebyte, delivered, spurious>>
    BY DEF RecvToBB, Readable
<1>2. PICK r : r = Reserve(bb, morebyte)
    OBVIOUS
<1>3. PICK n : n = RecvCount(r.szResrv)
    OBVIOUS
<1>4. PICK c : c = Commit(Fill(r, RecvBytes(n)), n)
    OBVIOUS
<1>5. bb' = c /\ rcvd' = rcvd + n /\ retRecv' = n
    BY <1>2, <1>3, <1>4 DEF RecvToBB
<1>6. PICK size \in Nat \ {0} : size = morebyte /\ MINFRAME + size <= BIPBUFFER_LEN
    BY RecvAssumption DEF TypeOK
<1>7. Sound(bb) /\ Sound(lbb)
    BY DEF TypeOK
<1>8. /\ r.szResrv = Smaller(size, FreeSpace(bb))
      /\ r.szResrv \in 1 .. FreeSpace(bb) /\ r.szResrv <= size
      /\ r.ixResrv \in Nat /\ r.ixResrv + r.szResrv <= bb.buflen /\ r \in Buffers
    BY <1>1, <1>2, <1>6, <1>7, ReserveIs
<1>9. PICK z \in Nat : z = r.szResrv /\ z <= size /\ z <= FreeSpace(bb) /\ z # 0
    BY <1>8 DEF Buffers
<1>10. /\ n \in 0 .. z /\ rcvd + n \in 0 .. sent /\ (n = 0 => z = 0 \/ sent = rcvd)
       /\ Follow(RecvBytes(n), n, rcvd)
    BY <1>3, <1>9, RecvIs
<1>11. n \in Nat /\ n <= size /\ n <= FreeSpace(bb)
  <2>1. FreeSpace(bb) \in Int
      BY <1>7, Parts DEF FreeSpace, GetBFreeSpace, GetSpaceAfterA
  <2> QED BY <1>9, <1>10, <2>1
<1>12. /\ Base \in Nat /\ rcvd \in Nat /\ Base + GetUsedSize(bb) = rcvd /\ Holds(bb, Base)
       /\ GetUsedSize(bb) \in Nat
    BY <1>1, Now DEF BuffersOK
<1>13. PICK base \in Nat : base = Base
    BY <1>12
<1>14. Received(bb, c, n) /\ Holds(c, base)
  <2>1. Follow(RecvBytes(n), n, base + GetUsedSize(bb)) /\ base \in Int
      BY <1>10, <1>12, <1>13
  <2>2. PICK s : s = RecvBytes(n)
      OBVIOUS
  <2>3. PICK b : b = bb
      OBVIOUS
  <2>4. c = Commit(Fill(Reserve(b, size), s), n)
      BY <1>2, <1>4, <1>6, <2>2, <2>3
  <2>5. /\ Sound(b) /\ FreeSpace(b) # 0 /\ n \in Nat /\ n <= size /\ n <= FreeSpace(b)
        /\ Holds(b, base) /\ Follow(s, n, base + GetUsedSize(b))
      BY <1>1, <1>7, <1>11, <1>12, <1>13, <2>1, <2>2, <2>3
  <2> QED BY <2>3, <2>4, <2>5, ReceiveSound
<1>15. /\ bb.buflen = BIPBUFFER_LEN /\ Shape(stream, bb, base) /\ Rest(stream, bb, base)
       /\ GetUsedSize(lbb) = 0
    BY <1>1, <1>13 DEF BuffersOK, RingOK, WaitOK
<1>16. MINFRAME + n <= BIPBUFFER_LEN
    BY <1>6, <1>11, RecvAssumption
<1>17. /\ Shape(stream, c, base)
       /\ n = 0 /\ c.szb > 0 => \/ GetUsedSize(c) < MINFRAME
                                \/ Opens(stream, c, base) /\ GetUsedSize(c) < stream[base + 1].len
    BY <1>7, <1>11, <1>14, <1>15, <1>16, ReceivedShape
<1>18. Sound(c) /\ c.buflen = BIPBUFFER_LEN /\ GetUsedSize(c) = GetUsedSize(bb) + n
    BY <1>14, <1>15 DEF Received
<1>19. rcvd' - GetUsedSize(c) = base
    BY <1>5, <1>11, <1>12, <1>13, <1>18
<1>20. stream' = stream /\ sent' = sent /\ fin' = fin /\ enable_lbb' = FALSE
       /\ Sound(lbb') /\ GetUsedSize(lbb') = 0
    BY <1>1, <1>7, <1>15 DEF netvars, TypeOK
<1>21. BuffersOK' /\ Base' = base /\ Low' = base
    BY <1>1, <1>5, <1>14, <1>17, <1>18, <1>19, <1>20, RingState
<1>22. TypeOK'
  <2>1. rcvd' \in 0 .. sent' /\ retRecv' \in Int
      BY <1>5, <1>10, <1>11, <1>20
  <2> QED BY <1>1, <1>5, <1>18, <1>20, <2>1 DEF TypeOK
<1>23. Low = base
    BY <1>1, <1>13, <1>15, Now DEF BuffersOK
<1>24. n = 0 => sent' = rcvd'
    BY <1>5, <1>9, <1>10, <1>12, <1>20
<1> QED BY <1>5, <1>17, <1>21, <1>22, <1>23, <1>24 DEF StaysOK

\* In epoll_wait a large buffer is not yet full.
LEMMA WaitFilling ==
    ASSUME TypeOK, BuffersOK, pc = "wait", conn = "open", enable_lbb
    PROVE  /\ lbyte \in Nat \ {0} /\ Empty(bb) /\ bb.buflen = BIPBUFFER_LEN
           /\ Partial(lbb, lbyte, spurious) /\ Packet(Low + 1, lbb.buflen)
           /\ spurious \in Nat
<1>1. lbyte \in Int /\ Sound(bb) /\ Sound(lbb) /\ spurious \in Nat
    BY DEF TypeOK
<1>2. lbyte > 0
    BY <1>1 DEF BuffersOK, FullOK, Full
<1>3. Filling
    BY <1>2 DEF Filling
<1>4. GetUsedSize(bb) = 0
    BY <1>3 DEF BuffersOK, FillingOK
<1>5. Empty(bb)
    BY <1>1, <1>4, EmptyIs
<1>6. Partial(lbb, lbyte, spurious)
    BY <1>1, <1>3 DEF BuffersOK, FillingOK, Partial
<1> QED BY <1>1, <1>2, <1>3, <1>5, <1>6 DEF BuffersOK, FillingOK

\* recv() into the large buffer, which is full, goes on, or ends with the peer.
LEMMA RecvToLBBStep ==
    ASSUME TypeOK, BuffersOK, RecvToLBB
    PROVE  /\ StaysOK
           /\ pc' = "again" => retRecv' > 0
           /\ conn' = "closed" => sent' = rcvd' /\ rcvd' = rcvd /\ delivered' = delivered
                                  /\ GetUsedSize(lbb) < lbb.buflen
<1>1. /\ pc = "wait" /\ conn = "open" /\ enable_lbb /\ FreeSpace(lbb) # 0
      /\ UNCHANGED <<netvars, spurious>>
    BY DEF RecvToLBB, Readable
<1>2. PICK r : r = Reserve(lbb, lbyte)
    OBVIOUS
<1>3. PICK n : n = RecvCount(r.szResrv)
    OBVIOUS
<1>4. PICK c : c = Commit(Fill(r, RecvBytes(n)), n)
    OBVIOUS
<1>5. AfterRecvToLBB(c, n) /\ rcvd' = rcvd + n
    BY <1>2, <1>3, <1>4 DEF RecvToLBB
<1>6. /\ lbyte \in Nat \ {0} /\ Empty(bb) /\ bb.buflen = BIPBUFFER_LEN
      /\ Partial(lbb, lbyte, spurious) /\ Packet(Low + 1, lbb.buflen)
      /\ spurious \in Nat
    BY <1>1, WaitFilling
<1>7. PICK size \in Nat \ {0} : size = lbyte
    BY <1>6
<1>8. /\ Sound(lbb) /\ lbb.szb = 0 /\ lbb.ixa = 0 /\ lbb.sza > 0
      /\ lbyte >= Room(lbb) /\ lbyte <= Room(lbb) + spurious
    BY <1>6 DEF Partial
<1>9. /\ lbb.buflen \in Nat /\ lbb.sza \in Nat /\ lbb.sza <= lbb.buflen
      /\ GetUsedSize(lbb) = lbb.sza
  <2>1. lbb.buflen \in Nat /\ lbb.sza \in Nat /\ lbb.ixa + lbb.sza <= lbb.buflen
        /\ GetUsedSize(lbb) = lbb.sza + lbb.szb
      BY <1>8, Parts
  <2> QED BY <1>8, <2>1
<1>10. FreeSpace(lbb) = Room(lbb) /\ Room(lbb) \in Nat /\ Room(lbb) = lbb.buflen - lbb.sza
    BY <1>8, <1>9 DEF FreeSpace, GetSpaceAfterA, Room
<1>11. /\ r.szResrv = Smaller(size, FreeSpace(lbb))
    BY <1>1, <1>2, <1>7, <1>8, ReserveIs
<1>12. r.szResrv = Room(lbb)
    BY <1>7, <1>8, <1>10, <1>11 DEF Smaller
<1>13. PICK z \in Nat : z = Room(lbb) /\ z = r.szResrv /\ z # 0 /\ z <= size
    BY <1>1, <1>7, <1>8, <1>10, <1>12
<1>14. /\ n \in 0 .. z /\ rcvd + n \in 0 .. sent /\ (n = 0 => z = 0 \/ sent = rcvd)
       /\ Follow(RecvBytes(n), n, rcvd)
    BY <1>3, <1>13, RecvIs
<1>15. n \in Nat /\ n <= size /\ n <= FreeSpace(lbb)
    BY <1>10, <1>13, <1>14
<1>16. /\ Base \in Nat /\ Low \in Nat /\ rcvd \in Nat /\ sent \in Nat
       /\ Base + GetUsedSize(bb) = rcvd /\ Low + GetUsedSize(lbb) = Base
       /\ Holds(lbb, Low)
    BY <1>1, Now DEF BuffersOK
<1>17. GetUsedSize(bb) = 0 /\ Sound(bb)
    BY <1>6 DEF Empty, GetUsedSize
<1>18. PICK low \in Nat : low = Low
    BY <1>16
<1>19. rcvd = low + lbb.sza
    BY <1>9, <1>16, <1>17, <1>18
<1>20. Received(lbb, c, n) /\ Holds(c, low)
  <2>1. Follow(RecvBytes(n), n, low + GetUsedSize(lbb)) /\ low \in Int
      BY <1>9, <1>14, <1>19
  <2>2. PICK s : s = RecvBytes(n)
      OBVIOUS
  <2>3. PICK b : b = lbb
      OBVIOUS
  <2>4. c = Commit(Fill(Reserve(b, size), s), n)
      BY <1>2, <1>4, <1>7, <2>2, <2>3
  <2>5. /\ Sound(b) /\ FreeSpace(b) # 0 /\ n \in Nat /\ n <= size /\ n <= FreeSpace(b)
        /\ Holds(b, low) /\ Follow(s, n, low + GetUsedSize(b))
      BY <1>1, <1>8, <1>15, <1>16, <1>18, <2>1, <2>2, <2>3
  <2> QED BY <2>3, <2>4, <2>5, ReceiveSound
<1>21. /\ Sound(c) /\ c.buflen = lbb.buflen /\ c.szb = 0 /\ c.ixa = 0
       /\ GetUsedSize(c) = GetUsedSize(lbb) + n
    BY <1>8, <1>20 DEF Received
<1>22. c.sza = lbb.sza + n /\ c.sza > 0 /\ Room(c) = Room(lbb) - n /\ c.sza \in Nat
  <2>1. GetUsedSize(c) = c.sza + c.szb /\ c.sza \in Nat
      BY <1>21, Parts
  <2>2. c.sza = lbb.sza + n
      BY <1>9, <1>15, <1>21, <2>1
  <2>3. Room(c) = Room(lbb) - n
      BY <1>9, <1>15, <1>21 DEF Room
  <2> QED BY <1>8, <1>9, <1>15, <2>1, <2>2, <2>3
<1>23. /\ lbyte' = lbyte - n /\ UNCHANGED <<enable_lbb, morebyte, delivered>>
       /\ stream' = stream /\ sent' = sent /\ fin' = fin /\ spurious' = spurious
    BY <1>1, <1>5 DEF AfterRecvToLBB, netvars
<1>24. rcvd' \in 0 .. sent' /\ rcvd' \in Nat /\ rcvd' - GetUsedSize(c) = low
    BY <1>5, <1>9, <1>14, <1>15, <1>16, <1>19, <1>21, <1>23
<1>25. lbyte' \in Int /\ lbyte' >= Room(c) /\ lbyte' <= Room(c) + spurious
    BY <1>6, <1>8, <1>10, <1>15, <1>22, <1>23
<1>26. CASE lbyte' > 0
  <2>1. lbb' = c /\ bb' = (IF n = 0 THEN FreeBuffer(bb) ELSE bb) /\ Return(n)
      BY <1>5, <1>26 DEF AfterRecvToLBB
  <2>2. pc' = "wait" /\ retRecv' = n /\ conn' = IF n = 0 THEN "closed" ELSE conn
      BY <2>1 DEF Return
  <2>3. PICK b : b = bb' /\ Empty(b) /\ (n # 0 => b.buflen = BIPBUFFER_LEN)
      BY <1>6, <1>17, <2>1, FreeSound
  <2>4. Partial(c, lbyte', spurious')
      BY <1>21, <1>22, <1>23, <1>25 DEF Partial
  <2>5. Packet(low + 1, c.buflen)
      BY <1>6, <1>18, <1>21
  <2>6. conn' = "open" => /\ rcvd' - GetUsedSize(c) = low /\ Holds(c, low)
                          /\ b.buflen = BIPBUFFER_LEN /\ Packet(low + 1, c.buflen)
      BY <1>20, <1>24, <2>2, <2>3, <2>5
  <2>7. enable_lbb' = TRUE /\ ~(lbyte' <= 0)
      BY <1>1, <1>23, <1>25, <1>26 DEF TypeOK
  <2>8. BuffersOK' /\ (conn' = "open" => Low' = low)
      BY <1>23, <1>24, <1>26, <2>1, <2>3, <2>4, <2>6, <2>7, FillingState
  <2>9. TypeOK'
      BY <1>1, <1>15, <1>21, <1>23, <1>24, <1>25, <2>1, <2>2, <2>3 DEF TypeOK, Empty
  <2>10. conn' = "closed" => n = 0
      BY <1>1, <2>2
  <2>11. n = 0 => sent' = rcvd' /\ rcvd' = rcvd
      BY <1>5, <1>13, <1>14, <1>16, <1>23
  <2>12. GetUsedSize(lbb) < lbb.buflen
      BY <1>9, <1>10, <1>13
  <2> QED BY <1>18, <1>23, <2>2, <2>8, <2>9, <2>10, <2>11, <2>12 DEF StaysOK
<1>27. CASE ~(lbyte' > 0)
  <2>1. lbb' = bb /\ bb' = c /\ retRecv' = n /\ pc' = "again" /\ conn' = conn
      BY <1>5, <1>27 DEF AfterRecvToLBB
  <2>2. lbyte' <= 0 /\ Room(c) \in Nat
      BY <1>10, <1>13, <1>14, <1>22, <1>25, <1>27
  <2>3. Room(c) = 0 /\ n > 0
      BY <1>7, <1>15, <1>23, <1>25, <2>2
  <2>4. c.sza = lbb.buflen
      BY <1>9, <1>10, <1>15, <1>22, <2>3
  <2>5. Base' = low /\ Low' = low
    <3>1. Base' = low
        BY <1>24, <2>1 DEF Base
    <3>2. Low' = Base' - GetUsedSize(bb)
        BY <2>1 DEF Low
    <3> QED BY <1>17, <3>1, <3>2
  <2>6. BytesOK'
      BY <1>17, <1>20, <2>1, <2>5, EmptyIs DEF BytesOK
  <2>7. FillingOK' /\ RingOK' /\ WaitOK'
      BY <1>1, <1>23, <1>25, <1>27, <2>1 DEF FillingOK, Filling, RingOK, WaitOK
  <2>8. PacketIn(stream', Base' + 1, c.sza)
      BY <1>6, <1>18, <1>23, <2>4, <2>5 DEF Packet
  <2>9. c.sza >= MINFRAME
    <3>1. low + 1 \in 1 .. Len(stream)
      <4>1. rcvd <= sent /\ sent <= Len(stream) /\ Len(stream) \in Nat
          BY <1>1, Now DEF BuffersOK
      <4> QED BY <1>8, <1>9, <1>16, <1>19, <4>1
    <3>2. PICK p \in 1 .. Len(stream) : p = low + 1
        BY <3>1
    <3>3. Packet(p, c.sza) /\ stream \in Streams
        BY <1>6, <1>18, <2>4, <3>2 DEF TypeOK
    <3> QED BY <3>3, PacketIs
  <2>10. FullOK'
    <3>1. bb'.szb = 0 /\ bb'.sza = c.sza
        BY <1>21, <2>1
    <3> QED BY <1>6, <1>17, <2>1, <2>3, <2>8, <2>9, <3>1 DEF FullOK, Packet
  <2>11. BuffersOK'
      BY <2>6, <2>7, <2>10 DEF BuffersOK
  <2>12. TypeOK'
      BY <1>1, <1>15, <1>17, <1>21, <1>23, <1>24, <1>25, <2>1 DEF TypeOK
  <2> QED BY <1>1, <1>18, <2>1, <2>3, <2>5, <2>11, <2>12 DEF StaysOK
<1> QED BY <1>26, <1>27

\* A recv() that fails changes no byte, though it counts as one byte less of lbb.
LEMMA SpuriousStep ==
    ASSUME TypeOK, BuffersOK, RecvSpurious
    PROVE  /\ StaysOK
           /\ retRecv' # 0 /\ conn' = "open"
<1>1. /\ pc = "wait" /\ conn = "open" /\ spurious' = spurious + 1
      /\ UNCHANGED <<netvars, rcvd>>
    BY DEF RecvSpurious
<1>2. /\ Base \in Nat /\ Low \in Nat /\ rcvd \in Nat
      /\ Base + GetUsedSize(bb) = rcvd /\ Low + GetUsedSize(lbb) = Base
      /\ Holds(bb, Base) /\ Holds(lbb, Low)
    BY <1>1, Now DEF BuffersOK
<1>3. Sound(bb) /\ Sound(lbb) /\ spurious \in Nat /\ spurious + 1 \in Nat
    BY DEF TypeOK
<1>4. stream' = stream /\ sent' = sent /\ fin' = fin /\ rcvd' = rcvd
    BY <1>1 DEF netvars
<1>5. CASE /\ ~enable_lbb /\ FreeSpace(bb) # 0
           /\ bb' = Commit(Reserve(bb, morebyte), -1)
           /\ retRecv' = -1 /\ pc' = "again"
           /\ UNCHANGED <<conn, lbb, enable_lbb, lbyte, morebyte, delivered>>
  <2>1. PICK size \in Nat \ {0} : size = morebyte
      BY RecvAssumption DEF TypeOK
  <2>2. PICK base \in Nat : base = Base
      BY <1>2
  <2>3. PICK c : c = Commit(Reserve(bb, size), -1)
      OBVIOUS
  <2>4. /\ Sound(c) /\ c.buflen = bb.buflen
        /\ c.ixa = bb.ixa /\ c.sza = bb.sza /\ c.szb = bb.szb /\ Holds(c, base)
      BY <1>2, <1>3, <1>5, <2>2, <2>3, ReserveSound
  <2>5. /\ GetUsedSize(c) = GetUsedSize(bb) /\ GetSpaceAfterA(c) = GetSpaceAfterA(bb)
      BY <2>4 DEF GetUsedSize, GetSpaceAfterA
  <2>6. bb.buflen = BIPBUFFER_LEN /\ Shape(stream, bb, base) /\ GetUsedSize(lbb) = 0
      BY <1>1, <1>5, <2>2 DEF BuffersOK, RingOK
  <2>7. Shape(stream, c, base)
      BY <2>4, <2>5, <2>6 DEF Shape, Opens
  <2>8. rcvd' - GetUsedSize(c) = base
    <3>1. GetUsedSize(bb) \in Nat
        BY <1>3, Parts DEF GetUsedSize
    <3> QED BY <1>2, <1>4, <2>2, <2>5, <3>1
  <2>9. Sound(lbb') /\ GetUsedSize(lbb') = 0 /\ enable_lbb' = FALSE /\ bb' = c
      BY <1>3, <1>5, <2>1, <2>3, <2>6 DEF TypeOK
  <2>10. BuffersOK' /\ Base' = base /\ Low' = base
      BY <1>4, <1>5, <2>4, <2>6, <2>7, <2>8, <2>9, RingState
  <2>11. TypeOK'
      BY <1>1, <1>3, <1>4, <1>5, <2>4, <2>9 DEF TypeOK
  <2>12. Low = base
      BY <1>2, <2>2, <2>6
  <2> QED BY <1>1, <1>5, <2>10, <2>11, <2>12 DEF StaysOK
<1>6. CASE /\ enable_lbb /\ FreeSpace(lbb) # 0
           /\ AfterRecvToLBB(Commit(Reserve(lbb, lbyte), -1), -1)
  <2>1. /\ lbyte \in Nat \ {0} /\ Empty(bb) /\ bb.buflen = BIPBUFFER_LEN
        /\ Partial(lbb, lbyte, spurious) /\ Packet(Low + 1, lbb.buflen)
      BY <1>1, <1>6, WaitFilling
  <2>2. PICK size \in Nat \ {0} : size = lbyte
      BY <2>1
  <2>3. PICK low \in Nat : low = Low
      BY <1>2
  <2>4. PICK c : c = Commit(Reserve(lbb, size), -1)
      OBVIOUS
  <2>5. /\ Sound(c) /\ c.buflen = lbb.buflen
        /\ c.ixa = lbb.ixa /\ c.sza = lbb.sza /\ c.szb = lbb.szb /\ Holds(c, low)
      BY <1>2, <1>3, <1>6, <2>3, <2>4, ReserveSound
  <2>6. GetUsedSize(c) = GetUsedSize(lbb) /\ Room(c) = Room(lbb)
      BY <2>5 DEF GetUsedSize, Room
  <2>7. lbyte' = lbyte - (-1) /\ UNCHANGED <<enable_lbb, morebyte, delivered>>
      BY <1>6 DEF AfterRecvToLBB
  <2>8. lbyte' \in Int /\ lbyte' > 0 /\ ~(lbyte' <= 0) /\ lbyte' = lbyte + 1
      BY <2>1, <2>7
  <2>9. lbb' = c /\ bb' = bb /\ pc' = "wait" /\ retRecv' = -1 /\ conn' = conn
      BY <1>6, <2>2, <2>4, <2>8 DEF AfterRecvToLBB, Return
  <2>10. Partial(c, lbyte', spurious')
    <3>1. lbb.szb = 0 /\ lbb.ixa = 0 /\ lbb.sza > 0 /\ lbyte >= Room(lbb) /\ lbyte <= Room(lbb) + spurious
        BY <2>1 DEF Partial
    <3>2. Room(lbb) \in Int
        BY SMTT(30), <1>3, Parts DEF Room
    <3>3. lbyte' >= Room(c) /\ lbyte' <= Room(c) + spurious'
        BY <1>1, <1>3, <2>1, <2>6, <2>8, <3>1, <3>2
    <3> QED BY <2>5, <3>1, <3>3 DEF Partial
  <2>11. rcvd' - GetUsedSize(c) = low /\ rcvd' \in Nat
    <3>1. GetUsedSize(bb) = 0 /\ GetUsedSize(lbb) \in Nat
        BY <1>3, <2>1, Parts DEF Empty, GetUsedSize
    <3> QED BY <1>2, <1>4, <2>3, <2>6, <3>1
  <2>12. PICK b : b = bb
      OBVIOUS
  <2>13. /\ bb' = b /\ Empty(b) /\ enable_lbb' = TRUE
         /\ b.buflen = BIPBUFFER_LEN /\ Packet(low + 1, c.buflen)
      BY <1>6, <2>1, <2>3, <2>5, <2>7, <2>9, <2>12 DEF TypeOK
  <2>14. conn' = "open" => /\ rcvd' - GetUsedSize(c) = low /\ Holds(c, low)
                           /\ b.buflen = BIPBUFFER_LEN /\ Packet(low + 1, c.buflen)
      BY <2>5, <2>11, <2>13
  <2>15. BuffersOK' /\ (conn' = "open" => Low' = low)
      BY <1>4, <2>8, <2>9, <2>10, <2>11, <2>13, <2>14, FillingState
  <2>16. TypeOK'
      BY <1>1, <1>3, <1>4, <2>5, <2>7, <2>8, <2>9 DEF TypeOK
  <2> QED BY <1>1, <2>3, <2>9, <2>15, <2>16 DEF StaysOK
<1> QED BY <1>5, <1>6 DEF RecvSpurious

-----------------------------------------------------------------------------
(* The ways a pass at _Again ends. *)

\* What no pass at _Again changes, and what it may.
Others ==
    /\ UNCHANGED <<netvars, rcvd, spurious>>
    /\ morebyte' \in {FIRSTBYTES, MOREBYTES} /\ delivered' \in Seq(Nat)

\* The numbers of a pass at _Again.
LEMMA AgainNow ==
    ASSUME TypeOK, BuffersOK, pc = "again"
    PROVE  /\ conn = "open" /\ Sound(bb) /\ Sound(lbb) /\ enable_lbb \in BOOLEAN
           /\ Base \in Nat /\ Low \in Nat /\ rcvd \in Nat /\ Len(stream) \in Nat
           /\ Base + GetUsedSize(bb) = rcvd /\ Low + GetUsedSize(lbb) = Base
           /\ Base + bb.sza <= Len(stream)
           /\ GetUsedSize(bb) \in Nat /\ GetUsedSize(bb) = bb.sza + bb.szb
           /\ bb.sza \in Nat /\ bb.szb \in Nat
           /\ Holds(bb, Base) /\ Holds(lbb, Low)
           /\ lbyte \in Int /\ retRecv \in Int /\ stream \in Streams
<1>1. /\ conn = "open" /\ Sound(bb) /\ Sound(lbb) /\ enable_lbb \in BOOLEAN
      /\ lbyte \in Int /\ retRecv \in Int /\ stream \in Streams
    BY DEF TypeOK
<1>2. /\ Base \in Nat /\ Low \in Nat /\ rcvd \in Nat /\ sent \in Nat /\ Len(stream) \in Nat
      /\ Base + GetUsedSize(bb) = rcvd /\ Low + GetUsedSize(lbb) = Base
      /\ rcvd <= sent /\ sent <= Len(stream)
      /\ GetUsedSize(bb) \in Nat /\ Holds(bb, Base) /\ Holds(lbb, Low)
    BY <1>1, Now DEF BuffersOK
<1>3. bb.sza \in Nat /\ bb.szb \in Nat /\ GetUsedSize(bb) = bb.sza + bb.szb
    BY <1>1, Parts
<1>4. Base + bb.sza <= Len(stream)
    BY SMTT(30), <1>2, <1>3
<1> QED BY <1>1, <1>2, <1>3, <1>4

\* The ring alone is in use.
LEMMA RingNow ==
    ASSUME TypeOK, BuffersOK, pc = "again", ~enable_lbb
    PROVE  /\ GetUsedSize(lbb) = 0 /\ bb.buflen = BIPBUFFER_LEN
           /\ Shape(stream, bb, Base) /\ Low = Base /\ enable_lbb = FALSE
<1>1. conn = "open" /\ Low \in Nat /\ Base \in Nat /\ Low + GetUsedSize(lbb) = Base
      /\ enable_lbb \in BOOLEAN
    BY AgainNow
<1>2. /\ GetUsedSize(lbb) = 0 /\ bb.buflen = BIPBUFFER_LEN
      /\ Shape(stream, bb, Base)
    BY <1>1 DEF BuffersOK, RingOK
<1> QED BY <1>1, <1>2

\* B is joined to A only if that gives the bytes that are needed.
LEMMA JoinedIs ==
    ASSUME TypeOK, BuffersOK, pc = "again", NEW k \in Nat, NEW j, j = Joined(k)
    PROVE  /\ Sound(j) /\ j.buflen = bb.buflen /\ GetUsedSize(j) = GetUsedSize(bb)
           /\ Holds(j, Base)
           /\ bb.szb = 0 \/ k > GetUsedSize(bb) => j = bb
           /\ bb.szb > 0 /\ k <= GetUsedSize(bb) =>
                j.szb = 0 /\ j.ixa = 0 /\ j.sza = GetUsedSize(bb)
<1>1. /\ Sound(bb) /\ Base \in Nat /\ Holds(bb, Base) /\ GetUsedSize(bb) \in Nat
      /\ GetUsedSize(bb) = bb.sza + bb.szb /\ bb.sza \in Nat /\ bb.szb \in Nat
    BY AgainNow
<1>2. CASE k <= GetUsedSize(bb)
  <2>1. j = GetUnContiguousBlock(bb)
      BY <1>2 DEF Joined
  <2>2. JoinOf(bb, j, Base)
      BY <1>1, <2>1, JoinSound
  <2>3. /\ Sound(j) /\ j.buflen = bb.buflen /\ Holds(j, Base)
        /\ bb.szb = 0 => j = bb
        /\ bb.szb > 0 => j.szb = 0 /\ j.ixa = 0 /\ j.sza = bb.sza + bb.szb
      BY <2>2 DEF JoinOf
  <2>4. GetUsedSize(j) = GetUsedSize(bb)
    <3>1. CASE bb.szb = 0
        BY <2>3, <3>1
    <3>2. CASE bb.szb > 0
        BY <1>1, <2>3, <3>2 DEF GetUsedSize
    <3> QED BY <1>1, <3>1, <3>2
  <2> QED BY <1>1, <1>2, <2>3, <2>4
<1>3. CASE ~(k <= GetUsedSize(bb))
  <2>1. j = bb
      BY <1>3 DEF Joined
  <2> QED BY <1>1, <1>3, <2>1
<1> QED BY <1>2, <1>3

\* The loop goes on with the ring d.
LEMMA AgainRing ==
    ASSUME TypeOK, BuffersOK, pc = "again", ~enable_lbb,
           NEW d, Sound(d), d.buflen = BIPBUFFER_LEN,
           NEW base \in Nat, rcvd - GetUsedSize(d) = base, Holds(d, base),
           Shape(stream, d, base), Again(d), Others
    PROVE  TypeOK' /\ BuffersOK' /\ Low' = base /\ Base' = base
<1>1. /\ bb' = d /\ stream' = stream /\ sent' = sent /\ fin' = fin /\ rcvd' = rcvd
      /\ spurious' = spurious /\ morebyte' \in {FIRSTBYTES, MOREBYTES} /\ delivered' \in Seq(Nat)
      /\ lbb' = lbb /\ enable_lbb' = enable_lbb /\ lbyte' = lbyte /\ conn' = conn
      /\ retRecv' = retRecv /\ pc' = pc
    BY DEF Again, Others, netvars
<1>2. GetUsedSize(lbb) = 0 /\ enable_lbb = FALSE
    BY RingNow
<1>3. Sound(lbb)
    BY DEF TypeOK
<1>4. BuffersOK' /\ Base' = base /\ Low' = base
    BY <1>1, <1>2, <1>3, RingState
<1>5. TypeOK'
    BY <1>1 DEF TypeOK
<1> QED BY <1>4, <1>5

\* epFUI_OnRecv returns with the ring j.
LEMMA FinishRing ==
    ASSUME TypeOK, BuffersOK, pc = "again", ~enable_lbb,
           NEW j, Sound(j), j.buflen = BIPBUFFER_LEN, GetUsedSize(j) = GetUsedSize(bb),
           Holds(j, Base), Shape(stream, j, Base), Rest(stream, j, Base),
           Finish(j, lbb, enable_lbb, lbyte), Others
    PROVE  /\ StaysOK /\ pc' = "wait"
           /\ conn' = "open" => bb' = j /\ Base' = Base
           /\ conn' = "closed" => retRecv = 0
<1>1. /\ stream' = stream /\ sent' = sent /\ fin' = fin /\ rcvd' = rcvd
      /\ spurious' = spurious /\ morebyte' \in {FIRSTBYTES, MOREBYTES} /\ delivered' \in Seq(Nat)
    BY DEF Others, netvars
<1>2. GetUsedSize(lbb) = 0 /\ enable_lbb = FALSE /\ Low = Base
    BY RingNow
<1>3. /\ Sound(lbb) /\ Base \in Nat /\ Base + GetUsedSize(bb) = rcvd /\ conn = "open"
      /\ rcvd \in Nat /\ GetUsedSize(bb) \in Nat
    BY AgainNow
<1>4. /\ enable_lbb' = FALSE /\ lbb' = lbb /\ bb' = (IF retRecv = 0 THEN FreeBuffer(j) ELSE j)
      /\ lbyte' = lbyte /\ pc' = "wait" /\ retRecv' = retRecv
      /\ conn' = IF retRecv = 0 THEN "closed" ELSE conn
    BY <1>2 DEF Finish, Return
<1>5. Sound(bb')
    BY <1>4, FreeSound DEF Empty
<1>6. TypeOK'
    BY <1>1, <1>3, <1>4, <1>5 DEF TypeOK
<1>7. CASE retRecv = 0
  <2>1. BuffersOK' /\ conn' = "closed"
      BY <1>4, <1>7, ClosedState
  <2> QED BY <1>4, <1>6, <1>7, <2>1 DEF StaysOK
<1>8. CASE retRecv # 0
  <2>1. bb' = j /\ conn' = "open"
      BY <1>3, <1>4, <1>8
  <2>2. PICK base \in Nat : base = Base
      BY <1>3
  <2>3. rcvd' - GetUsedSize(j) = base
      BY <1>1, <1>3, <2>2
  <2>4. Sound(lbb') /\ GetUsedSize(lbb') = 0 /\ Holds(j, base)
        /\ Shape(stream, j, base) /\ Rest(stream, j, base)
      BY <1>2, <1>3, <1>4, <2>2
  <2>5. BuffersOK' /\ Base' = base /\ Low' = base
      BY <1>1, <1>4, <2>1, <2>3, <2>4, RingState
  <2> QED BY <1>2, <1>4, <1>6, <2>1, <2>2, <2>5 DEF StaysOK
<1> QED BY <1>7, <1>8

\* epFUI_OnRecv returns after looking at a full large buffer: bb is the ring again.
LEMMA FinishFull ==
    ASSUME TypeOK, BuffersOK, Full, NEW b, Empty(b),
           Finish(b, lbb, enable_lbb, lbyte), Others
    PROVE  /\ TypeOK' /\ BuffersOK' /\ Low' = rcvd /\ pc' = "wait" /\ conn' = "open"
           /\ GetUsedSize(bb') = 0 /\ rcvd' = rcvd
<1>1. /\ stream' = stream /\ sent' = sent /\ fin' = fin /\ rcvd' = rcvd
      /\ spurious' = spurious /\ morebyte' \in {FIRSTBYTES, MOREBYTES} /\ delivered' \in Seq(Nat)
    BY DEF Others, netvars
<1>2. /\ pc = "again" /\ retRecv > 0 /\ GetUsedSize(lbb) = 0 /\ lbb.buflen = BIPBUFFER_LEN
      /\ enable_lbb /\ lbyte <= 0
    BY DEF BuffersOK, FullOK, Full
<1>3. Sound(lbb) /\ conn = "open" /\ rcvd \in Nat /\ retRecv \in Int /\ enable_lbb \in BOOLEAN
    BY <1>2, AgainNow
<1>4. retRecv # 0
    BY <1>2, <1>3
<1>5. /\ enable_lbb' = FALSE /\ lbb' = FreeBuffer(b) /\ bb' = lbb
      /\ lbyte' = lbyte /\ pc' = "wait" /\ retRecv' = retRecv /\ conn' = "open"
    BY <1>2, <1>3, <1>4 DEF Finish, Return
<1>6. Empty(FreeBuffer(b))
    BY FreeSound DEF Empty
<1>7. Sound(lbb') /\ GetUsedSize(lbb') = 0
    BY <1>5, <1>6 DEF Empty, GetUsedSize
<1>8. Empty(lbb) /\ Holds(lbb, rcvd)
    BY <1>2, <1>3, EmptyIs
<1>9. Shape(stream, lbb, rcvd) /\ Rest(stream, lbb, rcvd)
  <2>1. lbb.szb = 0 /\ lbb.ixa = 0 /\ lbb.sza = 0
      BY <1>8 DEF Empty
  <2>2. BIPBUFFER_LEN > 0 /\ BIPBUFFER_LEN \in Nat
      BY RecvAssumption
  <2> QED BY <2>1, <2>2 DEF Shape, Rest
<1>10. rcvd' - GetUsedSize(lbb) = rcvd
    BY <1>1, <1>2, <1>3
<1>11. BuffersOK' /\ Low' = rcvd
    BY <1>1, <1>2, <1>3, <1>5, <1>7, <1>8, <1>9, <1>10, RingState
<1>12. TypeOK'
    BY <1>1, <1>3, <1>5, <1>7 DEF TypeOK
<1> QED BY <1>1, <1>2, <1>5, <1>11, <1>12

-----------------------------------------------------------------------------
(* The passes at _Again. *)

\* epFUI_OnRecv returns while the large buffer is being filled.
LEMMA FinishFilling ==
    ASSUME TypeOK, BuffersOK, pc = "again", Filling,
           Finish(bb, lbb, enable_lbb, lbyte), Others
    PROVE  /\ StaysOK /\ pc' = "wait" /\ GetUsedSize(bb') = 0
           /\ conn' = "closed" => retRecv = 0
<1>1. /\ stream' = stream /\ sent' = sent /\ fin' = fin /\ rcvd' = rcvd
      /\ spurious' = spurious /\ morebyte' \in {FIRSTBYTES, MOREBYTES} /\ delivered' \in Seq(Nat)
    BY DEF Others, netvars
<1>2. /\ conn = "open" /\ Sound(bb) /\ Sound(lbb) /\ lbyte \in Int /\ retRecv \in Int
      /\ Base \in Nat /\ Low \in Nat /\ rcvd \in Nat
      /\ Base + GetUsedSize(bb) = rcvd /\ Low + GetUsedSize(lbb) = Base /\ Holds(lbb, Low)
      /\ enable_lbb \in BOOLEAN
    BY AgainNow
<1>3. enable_lbb = TRUE /\ lbyte > 0 /\ ~(lbyte <= 0)
    BY <1>2 DEF Filling
<1>4. /\ GetUsedSize(bb) = 0 /\ bb.buflen = BIPBUFFER_LEN
      /\ lbb.szb = 0 /\ lbb.ixa = 0 /\ lbb.sza > 0
      /\ lbyte >= Room(lbb) /\ lbyte <= Room(lbb) + spurious /\ Packet(Low + 1, lbb.buflen)
    BY <1>2 DEF BuffersOK, FillingOK
<1>5. /\ enable_lbb' = TRUE /\ lbb' = lbb /\ bb' = (IF retRecv = 0 THEN FreeBuffer(bb) ELSE bb)
      /\ lbyte' = lbyte /\ pc' = "wait" /\ retRecv' = retRecv
      /\ conn' = IF retRecv = 0 THEN "closed" ELSE conn
    BY <1>3 DEF Finish, Return
<1>6. PICK b : b = bb' /\ Empty(b) /\ (retRecv # 0 => b.buflen = BIPBUFFER_LEN)
    BY <1>2, <1>4, <1>5, FreeSound, EmptyIs
<1>7. Partial(lbb, lbyte', spurious')
    BY <1>1, <1>2, <1>4, <1>5 DEF Partial
<1>8. PICK low \in Nat : low = Low
    BY <1>2
<1>9. rcvd' - GetUsedSize(lbb) = low /\ rcvd' \in Nat
  <2>1. GetUsedSize(lbb) \in Nat
      BY <1>2, Parts DEF GetUsedSize
  <2> QED BY <1>1, <1>2, <1>4, <1>8, <2>1
<1>10. PICK l : l = lbb
    OBVIOUS
<1>11. conn' = "open" => retRecv # 0
    BY <1>5
<1>12. conn' = "open" => /\ rcvd' - GetUsedSize(l) = low /\ Holds(l, low)
                         /\ b.buflen = BIPBUFFER_LEN /\ Packet(low + 1, l.buflen)
    BY <1>2, <1>4, <1>6, <1>8, <1>9, <1>10, <1>11
<1>13. Partial(l, lbyte', spurious') /\ lbb' = l /\ bb' = b /\ lbyte' > 0 /\ ~(lbyte' <= 0)
    BY <1>3, <1>5, <1>6, <1>7, <1>10
<1>14. BuffersOK' /\ (conn' = "open" => Low' = low)
    BY <1>1, <1>5, <1>6, <1>9, <1>12, <1>13, FillingState
<1>15. Sound(bb') /\ GetUsedSize(bb') = 0
    BY <1>6 DEF Empty, GetUsedSize
<1>16. TypeOK'
    BY <1>1, <1>2, <1>5, <1>15 DEF TypeOK
<1> QED BY <1>2, <1>5, <1>8, <1>14, <1>15, <1>16 DEF StaysOK

\* epFUI_OnRecv returns because block A is shorter than MINFRAME.
LEMMA TooShortStep ==
    ASSUME TypeOK, BuffersOK, TooShort
    PROVE  /\ StaysOK /\ pc' = "wait" /\ retRecv' = retRecv
           /\ conn' = "closed" => retRecv = 0
           /\ conn' = "open" /\ GetUsedSize(bb') > 0 =>
                \/ bb' = bb /\ GetUsedSize(bb) < MINFRAME /\ Base' = Base
                \/ bb.szb > 0 /\ bb.sza < MINFRAME /\ bb'.sza >= MINFRAME
<1>1. /\ pc = "again" /\ bb.sza < MINFRAME
      /\ Finish(Joined(MINFRAME), lbb, enable_lbb, lbyte)
      /\ UNCHANGED <<netvars, rcvd, morebyte, delivered, spurious>>
    BY DEF TooShort
<1>2. Others
    BY <1>1 DEF Others, TypeOK
<1>3. /\ conn = "open" /\ Sound(bb) /\ Sound(lbb) /\ lbyte \in Int /\ enable_lbb \in BOOLEAN
      /\ Base \in Nat /\ Low \in Nat /\ rcvd \in Nat
      /\ Base + GetUsedSize(bb) = rcvd /\ Low + GetUsedSize(lbb) = Base
      /\ GetUsedSize(bb) \in Nat /\ GetUsedSize(bb) = bb.sza + bb.szb
      /\ bb.sza \in Nat /\ bb.szb \in Nat
    BY <1>1, AgainNow
<1>4. MINFRAME \in Nat /\ MINFRAME > 0 /\ BIPBUFFER_LEN \in Nat /\ 2 * MINFRAME <= BIPBUFFER_LEN
    BY RecvAssumption
<1>5. PICK j : j = Joined(MINFRAME)
    OBVIOUS
<1>6. /\ Sound(j) /\ j.buflen = bb.buflen /\ GetUsedSize(j) = GetUsedSize(bb)
      /\ Holds(j, Base)
      /\ bb.szb = 0 \/ MINFRAME > GetUsedSize(bb) => j = bb
      /\ bb.szb > 0 /\ MINFRAME <= GetUsedSize(bb) =>
           j.szb = 0 /\ j.ixa = 0 /\ j.sza = GetUsedSize(bb)
    BY <1>1, <1>4, <1>5, JoinedIs
<1>7. retRecv' = retRecv
    BY <1>1 DEF Finish, Return
<1>8. CASE Full
  <2>1. bb.szb = 0 /\ GetUsedSize(lbb) = 0
        /\ (bb.sza = 0 \/ bb.sza >= MINFRAME)
      BY <1>8 DEF BuffersOK, FullOK
  <2>2. bb.sza = 0 /\ GetUsedSize(bb) = 0 /\ j = bb
      BY <1>1, <1>3, <1>4, <1>6, <2>1
  <2>3. PICK b : b = bb /\ Empty(b)
      BY <1>3, <2>2, EmptyIs
  <2>4. Finish(b, lbb, enable_lbb, lbyte)
      BY <1>1, <1>5, <2>2, <2>3
  <2>5. /\ TypeOK' /\ BuffersOK' /\ Low' = rcvd /\ pc' = "wait" /\ conn' = "open"
        /\ GetUsedSize(bb') = 0
      BY <1>2, <1>8, <2>3, <2>4, FinishFull
  <2>6. Low = rcvd
      BY <1>3, <2>1, <2>2
  <2> QED BY <1>7, <2>5, <2>6 DEF StaysOK
<1>9. CASE Filling
  <2>1. GetUsedSize(bb) = 0
      BY <1>9 DEF BuffersOK, FillingOK
  <2>2. j = bb
      BY <1>3, <1>6, <2>1
  <2>3. Finish(bb, lbb, enable_lbb, lbyte)
      BY <1>1, <1>5, <2>2
  <2>4. /\ StaysOK /\ pc' = "wait" /\ GetUsedSize(bb') = 0
        /\ conn' = "closed" => retRecv = 0
      BY <1>1, <1>2, <1>9, <2>3, FinishFilling
  <2> QED BY <1>7, <2>4
<1>10. CASE ~enable_lbb
  <2>1. /\ bb.buflen = BIPBUFFER_LEN /\ Shape(stream, bb, Base)
      BY <1>1, <1>10, RingNow
  <2>2. CASE bb.szb > 0 /\ MINFRAME <= GetUsedSize(bb)
    <3>1. j.szb = 0 /\ j.ixa = 0 /\ j.sza = GetUsedSize(bb)
        BY <1>6, <2>2
    <3>2. GetUsedSize(bb) < BIPBUFFER_LEN
        BY <1>1, <1>3, <1>4, <2>1, <2>2 DEF Shape, Opens
    <3>3. Shape(stream, j, Base) /\ Rest(stream, j, Base)
        BY <3>1, <3>2 DEF Shape, Rest
    <3>4. /\ StaysOK /\ pc' = "wait"
          /\ conn' = "open" => bb' = j /\ Base' = Base
          /\ conn' = "closed" => retRecv = 0
        BY <1>1, <1>2, <1>5, <1>6, <1>10, <2>1, <3>3, FinishRing
    <3>5. j.sza >= MINFRAME
        BY <1>3, <1>4, <2>2, <3>1
    <3> QED BY <1>1, <1>7, <2>2, <3>4, <3>5
  <2>3. CASE ~(bb.szb > 0 /\ MINFRAME <= GetUsedSize(bb))
    <3>1. j = bb /\ GetUsedSize(bb) < MINFRAME
        BY <1>1, <1>3, <1>4, <1>6, <2>3
    <3>2. Rest(stream, j, Base) /\ Shape(stream, j, Base)
        BY <2>1, <3>1 DEF Rest
    <3>3. /\ StaysOK /\ pc' = "wait"
          /\ conn' = "open" => bb' = j /\ Base' = Base
          /\ conn' = "closed" => retRecv = 0
        BY <1>1, <1>2, <1>5, <1>6, <1>10, <2>1, <3>2, FinishRing
    <3> QED BY <1>7, <3>1, <3>3
  <2> QED BY <2>2, <2>3
<1> QED BY <1>3, <1>8, <1>9, <1>10 DEF Full, Filling

\* A pass that looks for a frame: there is one in the block, or why not.
LEMMA FoundNow ==
    ASSUME TypeOK, BuffersOK, pc = "again", bb.sza >= MINFRAME, NEW f \in Found
    PROVE  FoundIs(f, bb.sza, Base) /\ ~Filling /\ Low = Base
<1>1. /\ conn = "open" /\ Base \in Nat /\ bb.sza \in Nat /\ stream \in Streams
      /\ Base + bb.sza <= Len(stream)
      /\ bb.szb \in Nat /\ GetUsedSize(bb) = bb.sza + bb.szb
      /\ Low \in Nat /\ Low + GetUsedSize(lbb) = Base /\ lbyte \in Int /\ enable_lbb \in BOOLEAN
    BY AgainNow
<1>2. PICK blk : blk = Block
    OBVIOUS
<1>3. f = FindFrame(blk)
    BY <1>2 DEF Found
<1>4. PICK base \in Nat : base = Base
    BY <1>1
<1>5. PICK n \in Nat : n = bb.sza
    BY <1>1
<1>6. Follow(blk, n, base)
    BY <1>1, <1>2, <1>4, <1>5, BlockIs DEF BuffersOK
<1>7. n >= MINFRAME /\ base + n <= Len(stream)
    BY <1>1, <1>4, <1>5
<1>8. FoundIs(FindFrame(blk), n, base)
    BY <1>1, <1>6, <1>7, FindFrameIs
<1>9. ~Filling
  <2>1. MINFRAME > 0 /\ MINFRAME \in Nat
      BY RecvAssumption
  <2>2. GetUsedSize(bb) # 0
      BY <1>1, <2>1
  <2> QED BY <2>2 DEF BuffersOK, FillingOK
<1>10. GetUsedSize(lbb) = 0
  <2>1. CASE enable_lbb
    <3>1. Full
        BY <1>1, <1>9, <2>1 DEF Full, Filling
    <3> QED BY <3>1 DEF BuffersOK, FullOK
  <2>2. CASE ~enable_lbb
      BY <2>2, RingNow
  <2> QED BY <2>1, <2>2
<1>11. Low = Base
    BY <1>1, <1>10
<1> QED BY <1>3, <1>4, <1>5, <1>8, <1>9, <1>11

\* In the ring, what is released before an incomplete packet is not its start:
\* when a packet is open only a pass that does not release anything is possible.
LEMMA NoSecondBlock ==
    ASSUME TypeOK, BuffersOK, pc = "again", ~enable_lbb, bb.sza >= MINFRAME,
           NEW f, FoundIs(f, bb.sza, Base), f.ret # -3
    PROVE  bb.szb = 0
<1>1. SUFFICES ASSUME bb.szb > 0 PROVE FALSE
    BY AgainNow
<1>2. Shape(stream, bb, Base) /\ bb.sza \in Nat /\ Base \in Nat /\ MINFRAME \in Nat
      /\ stream \in Streams /\ Base + bb.sza <= Len(stream)
    BY AgainNow, RingNow, RecvAssumption
<1>3. Opens(stream, bb, Base)
    BY <1>1, <1>2 DEF Shape
<1>4. PICK p : p = Base + 1
    OBVIOUS
<1>5. Packet(p, stream[p].len) /\ bb.sza < stream[p].len
    BY <1>3, <1>4 DEF Opens, Packet
<1>6. MINFRAME > 0 /\ Len(stream) \in Nat
    BY SegmentIs, RecvAssumption
<1>7. p \in 1 .. Len(stream)
    BY <1>2, <1>4, <1>6
<1>8. Tag(p) /\ stream[p].kind # "badlen" /\ stream[p].len \in Nat
  <2>1. Tag(p) /\ stream[p].kind # "badlen"
      BY <1>5 DEF Packet, PacketIn, Tag
  <2>2. SegmentOK(p)
      BY <1>2, <1>7, SegmentIs
  <2> QED BY <2>1, <2>2 DEF SegmentOK
<1>9. CASE f.ret = 0
  <2>1. f.len <= bb.sza /\ f.len = stream[p].len
      BY <1>4, <1>9 DEF FoundIs, Packet, PacketIn
  <2> QED BY <1>2, <1>5, <1>8, <2>1
<1>10. CASE f.ret = -2
  <2>1. f.len \in 1 .. bb.sza
      BY <1>10 DEF FoundIs
  <2>2. \/ \A q \in Base + 1 .. Base + f.len : ~Tag(q)
        \/ stream[Base + 1].kind = "badlen"
        \/ Packet(Base + 1, f.len)
      BY <1>10 DEF FoundIs
  <2>3. p \in Base + 1 .. Base + f.len
      BY <1>2, <1>4, <2>1
  <2>4. Packet(p, f.len)
      BY <1>4, <1>8, <2>2, <2>3
  <2>5. f.len = stream[p].len
      BY <2>4 DEF Packet, PacketIn
  <2> QED BY <1>2, <1>5, <1>8, <2>1, <2>5
<1> QED BY <1>9, <1>10 DEF FoundIs

\* A full large buffer holds one packet and nothing else.
LEMMA FullHoldsOne ==
    ASSUME TypeOK, BuffersOK, Full, bb.sza >= MINFRAME, NEW f, FoundIs(f, bb.sza, Base)
    PROVE  f.ret # -3 /\ f.len = bb.sza /\ bb.szb = 0
<1>1. /\ pc = "again" /\ bb.szb = 0 /\ MINFRAME \in Nat /\ MINFRAME > 0
      /\ (bb.sza = 0 \/ (bb.sza >= MINFRAME /\ Packet(Base + 1, bb.sza)))
    BY RecvAssumption DEF BuffersOK, FullOK
<1>2. Packet(Base + 1, bb.sza)
    BY <1>1
<1>3. bb.sza \in Nat /\ Base \in Nat
    BY <1>1, AgainNow
<1>4. /\ Tag(Base + 1) /\ stream[Base + 1].kind # "badlen" /\ stream[Base + 1].len = bb.sza
    BY <1>2 DEF Packet, PacketIn, Tag
<1>5. f.ret # -3
  <2>1. SUFFICES ASSUME f.ret = -3 PROVE FALSE
      OBVIOUS
  <2>2. bb.sza + f.len = stream[Base + 1].len /\ f.len > 0 /\ f.len \in Nat
      BY <2>1 DEF FoundIs, Packet, PacketIn
  <2> QED BY <1>3, <1>4, <2>2
<1>6. CASE f.ret = 0
  <2>1. f.len = stream[Base + 1].len
      BY <1>6 DEF FoundIs, Packet, PacketIn
  <2> QED BY <1>1, <1>4, <1>5, <2>1
<1>7. CASE f.ret = -2
  <2>1. f.len \in 1 .. bb.sza
      BY <1>7 DEF FoundIs
  <2>2. \/ \A q \in Base + 1 .. Base + f.len : ~Tag(q)
        \/ stream[Base + 1].kind = "badlen"
        \/ Packet(Base + 1, f.len)
      BY <1>7 DEF FoundIs
  <2>3. Base + 1 \in Base + 1 .. Base + f.len
      BY <1>3, <2>1
  <2>4. Packet(Base + 1, f.len)
      BY <1>4, <2>2, <2>3
  <2>5. f.len = stream[Base + 1].len
      BY <2>4 DEF Packet, PacketIn
  <2> QED BY <1>1, <1>4, <1>5, <2>5
<1> QED BY <1>5, <1>6, <1>7 DEF FoundIs

\* Releasing len bytes of block A while there is no second block.
LEMMA ReleaseNow ==
    ASSUME TypeOK, BuffersOK, pc = "again", bb.szb = 0,
           NEW len \in Nat, len <= bb.sza, NEW d, d = DecommitBlock(bb, len)
    PROVE  /\ Sound(d) /\ d.buflen = bb.buflen /\ d.szb = 0 /\ d.sza = bb.sza - len
           /\ GetUsedSize(d) = GetUsedSize(bb) - len
           /\ Holds(d, Base + len) /\ rcvd - GetUsedSize(d) = Base + len
           /\ Shape(stream, d, Base + len)
<1>1. /\ Sound(bb) /\ Base \in Nat /\ Holds(bb, Base) /\ bb.sza \in Nat
      /\ GetUsedSize(bb) = bb.sza + bb.szb /\ Base + GetUsedSize(bb) = rcvd
    BY AgainNow
<1>2. Released(bb, d, len, Base)
    BY <1>1, DecommitSound
<1>3. /\ Sound(d) /\ d.buflen = bb.buflen /\ d.szb = 0 /\ d.sza = bb.sza - len
      /\ Holds(d, Base + len)
  <2>1. CASE len = bb.sza
    <3>1. d.sza = bb.szb /\ d.szb = 0 /\ Holds(d, Base + bb.sza) /\ Sound(d) /\ d.buflen = bb.buflen
        BY <1>1, <1>2, <2>1 DEF Released
    <3>2. d.sza = bb.sza - len
        BY <1>1, <2>1, <3>1
    <3> QED BY <2>1, <3>1, <3>2
  <2>2. CASE len < bb.sza
      BY <1>2, <2>2 DEF Released
  <2> QED BY <1>1, <2>1, <2>2
<1>4. GetUsedSize(d) = GetUsedSize(bb) - len
    BY <1>1, <1>3 DEF GetUsedSize
<1>5. rcvd - GetUsedSize(d) = Base + len
    BY <1>1, <1>4
<1>6. Shape(stream, d, Base + len)
    BY <1>3 DEF Shape
<1> QED BY <1>3, <1>4, <1>5, <1>6

\* blk is the n positions behind base, which start with a packet of len bytes.
StartsWith(blk, n, base, len) ==
    /\ stream \in Streams /\ n \in Nat /\ base \in Nat /\ Follow(blk, n, base)
    /\ n >= MINFRAME /\ base + n <= Len(stream) /\ len <= n /\ Packet(base + 1, len)

\* A block that starts with a packet gives tms_Analyse that segment.
LEMMA SegmentOfIs ==
    ASSUME NEW blk, NEW n, NEW base, NEW len, StartsWith(blk, n, base, len)
    PROVE  SegmentOf(SubSeq(blk, 1, len)) = stream[base + 1].seg
<1> USE DEF StartsWith
<1>1. Len(stream) \in Nat /\ MINFRAME \in Nat /\ MINFRAME > 0
    BY SegmentIs, RecvAssumption
<1>2. PICK p \in 1 .. Len(stream) : p = base + 1
    BY <1>1
<1>3. Packet(p, len)
    BY <1>2
<1>4. /\ SegFirst(p) = p /\ SegLast(p) = p + len - 1 /\ len \in Nat /\ len >= MINFRAME
    BY <1>3, PacketIs
<1>5. SegmentOK(p)
    BY SegmentIs
<1>6. len \in 0 .. n
    BY <1>4
<1>7. PICK s : s = SubSeq(blk, 1, len)
    OBVIOUS
<1>8. Follow(s, len, base)
    BY <1>6, <1>7, PrefixFollows
<1>9. Len(s) = len /\ \A i \in 1 .. len : s[i] = base + i
    BY <1>8 DEF Follow
<1>10. ASSUME NEW i \in 1 .. len
       PROVE  stream[s[i]].seg = stream[p].seg /\ stream[s[i]].off = i - 1
  <2>1. s[i] = base + i
      BY <1>9
  <2>2. base + i \in p .. p + len - 1 /\ (base + i) - p = i - 1
      BY <1>2, <1>4
  <2>3. \A q \in p .. p + len - 1 : stream[q].seg = stream[p].seg /\ stream[q].off = q - p
      BY <1>4, <1>5 DEF SegmentOK
  <2> QED BY <2>1, <2>2, <2>3
<1>11. 1 \in 1 .. len
    BY <1>1, <1>4
<1>12. s[1] = p
    BY <1>2, <1>9, <1>11
<1>13. SegmentOf(s) = stream[p].seg
    BY <1>9, <1>10, <1>12 DEF SegmentOf
<1> QED BY <1>2, <1>7, <1>13

\* A delivered frame is released; Low is the position before it.
Delivers(len) ==
    /\ TypeOK' /\ BuffersOK' /\ conn' = "open" /\ Low = Base
    /\ Packet(Low + 1, len) /\ stream[Low + 1].kind = "frame" /\ len \in Nat
    /\ Low + len <= rcvd /\ Low' = Low + len
    /\ delivered' = Append(delivered, stream[Low + 1].seg)
    /\ retRecv' = retRecv /\ UNCHANGED netvars /\ rcvd' = rcvd
    /\ pc' = "wait" => GetUsedSize(bb') = 0
    /\ pc' = "again" => bb'.szb = 0 /\ enable_lbb' = enable_lbb

\* A pass that finds a frame hands on that segment and releases exactly it.
LEMMA DeliverStep ==
    ASSUME TypeOK, BuffersOK, Deliver
    PROVE  \E len : Delivers(len)
<1>1. /\ pc = "again" /\ bb.sza >= MINFRAME /\ morebyte' = MOREBYTES
      /\ UNCHANGED <<netvars, rcvd, spurious>>
    BY DEF Deliver
<1>2. PICK f \in Found : /\ f.ret = 0
                         /\ delivered' = Append(delivered, SegmentOf(SubSeq(Block, 1, f.len)))
                         /\ AfterFrame(DecommitBlock(bb, f.len))
    BY DEF Deliver
<1>3. FoundIs(f, bb.sza, Base) /\ ~Filling /\ Low = Base
    BY <1>1, FoundNow
<1>4. PICK len \in Nat : len = f.len
    BY <1>3 DEF FoundIs
<1>5. Packet(Base + 1, len) /\ stream[Base + 1].kind = "frame" /\ len <= bb.sza
    BY <1>2, <1>3, <1>4 DEF FoundIs
<1>6. /\ conn = "open" /\ Sound(bb) /\ Base \in Nat /\ bb.sza \in Nat /\ stream \in Streams
      /\ Base + bb.sza <= Len(stream) /\ Len(stream) \in Nat
      /\ bb.szb \in Nat /\ GetUsedSize(bb) = bb.sza + bb.szb /\ Base + GetUsedSize(bb) = rcvd
      /\ lbyte \in Int /\ enable_lbb \in BOOLEAN /\ rcvd \in Nat
    BY <1>1, AgainNow
<1>7. PICK sg : sg = stream[Base + 1].seg
    OBVIOUS
<1>8. SegmentOf(SubSeq(Block, 1, len)) = sg
  <2>1. PICK blk : blk = Block
      OBVIOUS
  <2>2. PICK n \in Nat : n = bb.sza
      BY <1>6
  <2>3. PICK base \in Nat : base = Base
      BY <1>6
  <2>4. Follow(blk, n, base)
      BY <1>6, <2>1, <2>2, <2>3, BlockIs DEF BuffersOK
  <2>5. /\ n >= MINFRAME /\ base + n <= Len(stream) /\ len <= n /\ Packet(base + 1, len)
      BY <1>1, <1>5, <1>6, <2>2, <2>3
  <2>6. StartsWith(blk, n, base, len)
      BY <1>6, <2>4, <2>5 DEF StartsWith
  <2>7. SegmentOf(SubSeq(blk, 1, len)) = stream[base + 1].seg
      BY <2>6, SegmentOfIs, Zenon
  <2> QED BY <1>7, <2>1, <2>3, <2>7
<1>9. sg \in Nat
  <2>1. Base + 1 \in 1 .. Len(stream)
    <3>1. MINFRAME > 0 /\ MINFRAME \in Nat
        BY RecvAssumption
    <3> QED BY <1>1, <1>6, <3>1
  <2>2. SegmentOK(Base + 1)
      BY <1>6, <2>1, SegmentIs
  <2> QED BY <1>7, <2>2 DEF SegmentOK
<1>10. delivered' = Append(delivered, sg) /\ delivered' \in Seq(Nat)
    BY <1>2, <1>4, <1>8, <1>9 DEF TypeOK
<1>11. Others
    BY <1>1, <1>10 DEF Others
<1>12. bb.szb = 0
  <2>1. CASE enable_lbb
    <3>1. Full
        BY <1>3, <1>6, <2>1 DEF Full, Filling
    <3> QED BY <1>1, <1>3, <3>1, FullHoldsOne
  <2>2. CASE ~enable_lbb
    <3>1. f.ret # -3
        BY <1>2
    <3> QED BY <1>1, <1>3, <2>2, <3>1, NoSecondBlock
  <2> QED BY <2>1, <2>2
<1>13. PICK d : d = DecommitBlock(bb, len)
    OBVIOUS
<1>14. /\ Sound(d) /\ d.buflen = bb.buflen /\ d.szb = 0 /\ d.sza = bb.sza - len
       /\ GetUsedSize(d) = GetUsedSize(bb) - len
       /\ Holds(d, Base + len) /\ rcvd - GetUsedSize(d) = Base + len
       /\ Shape(stream, d, Base + len)
    BY <1>1, <1>5, <1>12, <1>13, ReleaseNow
<1>15. AfterFrame(d)
    BY <1>2, <1>4, <1>13
<1>16. /\ Low + len <= rcvd
    BY <1>3, <1>5, <1>6, <1>12
<1>17. UNCHANGED netvars /\ rcvd' = rcvd /\ delivered' = Append(delivered, stream[Low + 1].seg)
       /\ Packet(Low + 1, len) /\ stream[Low + 1].kind = "frame"
    BY <1>1, <1>3, <1>5, <1>7, <1>10
<1>18. CASE enable_lbb
  <2>1. Full
      BY <1>3, <1>6, <1>18 DEF Full, Filling
  <2>2. len = bb.sza
      BY <1>1, <1>3, <1>4, <2>1, FullHoldsOne
  <2>3. GetUsedSize(d) = 0
      BY <1>6, <1>12, <1>14, <2>2
  <2>4. Empty(d)
      BY <1>14, <2>3, EmptyIs
  <2>5. Finish(d, lbb, enable_lbb, lbyte)
      BY <1>15, <1>18 DEF AfterFrame
  <2>6. /\ TypeOK' /\ BuffersOK' /\ Low' = rcvd /\ pc' = "wait" /\ conn' = "open"
        /\ GetUsedSize(bb') = 0
      BY <1>11, <2>1, <2>4, <2>5, FinishFull
  <2>7. Low + len = rcvd
      BY <1>3, <1>6, <1>12, <2>2
  <2>8. retRecv' = retRecv
      BY <2>5 DEF Finish, Return
  <2> QED BY <1>3, <1>16, <1>17, <2>6, <2>7, <2>8 DEF Delivers
<1>19. CASE ~enable_lbb
  <2>1. Again(d)
      BY <1>15, <1>19 DEF AfterFrame
  <2>2. PICK base \in Nat : base = Base + len
      BY <1>6
  <2>3. d.buflen = BIPBUFFER_LEN
      BY <1>1, <1>14, <1>19, RingNow
  <2>4. Holds(d, base) /\ rcvd - GetUsedSize(d) = base /\ Shape(stream, d, base) /\ Sound(d)
      BY <1>14, <2>2
  <2>5. TypeOK' /\ BuffersOK' /\ Low' = base
      BY <1>1, <1>11, <1>19, <2>1, <2>3, <2>4, AgainRing
  <2>6. bb' = d /\ conn' = "open" /\ pc' = "again" /\ retRecv' = retRecv /\ enable_lbb' = enable_lbb
      BY <1>1, <1>6, <2>1 DEF Again
  <2>7. Low' = Low + len
      BY <1>3, <2>2, <2>5
  <2> QED BY <1>3, <1>14, <1>16, <1>17, <2>5, <2>6, <2>7 DEF Delivers
<1> QED BY <1>18, <1>19

\* What is released without being handed on: no head tag, a broken head, or a
\* packet that is no frame.
Skips(len) ==
    /\ TypeOK' /\ BuffersOK' /\ conn' = "open" /\ pc' = "again"
    /\ len \in Nat /\ len >= 1 /\ Low + len <= rcvd /\ Low' = Low + len
    /\ \/ \A p \in Low + 1 .. Low + len : ~Tag(p)
       \/ Tag(Low + 1) /\ stream[Low + 1].kind = "badlen" /\ len = TAG
       \/ Packet(Low + 1, len) /\ stream[Low + 1].kind # "frame"
    /\ delivered' = delivered /\ retRecv' = retRecv /\ UNCHANGED netvars /\ rcvd' = rcvd
    /\ bb'.szb = 0 /\ enable_lbb' = enable_lbb

\* A pass that resynchronises releases at least one byte and no start of a frame.
LEMMA SkipStep ==
    ASSUME TypeOK, BuffersOK, Skip
    PROVE  \E len : Skips(len)
<1>1. /\ pc = "again" /\ bb.sza >= MINFRAME /\ morebyte' = MOREBYTES
      /\ UNCHANGED <<netvars, rcvd, delivered, spurious>>
    BY DEF Skip
<1>2. PICK f \in Found : f.ret = -2 /\ Again(DecommitBlock(bb, f.len))
    BY DEF Skip
<1>3. FoundIs(f, bb.sza, Base) /\ ~Filling /\ Low = Base
    BY <1>1, FoundNow
<1>4. PICK len \in Nat : len = f.len
    BY <1>3 DEF FoundIs
<1>5. /\ conn = "open" /\ Sound(bb) /\ Sound(lbb) /\ Base \in Nat /\ bb.sza \in Nat /\ stream \in Streams
      /\ Base + bb.sza <= Len(stream) /\ Len(stream) \in Nat
      /\ bb.szb \in Nat /\ GetUsedSize(bb) = bb.sza + bb.szb /\ Base + GetUsedSize(bb) = rcvd
      /\ lbyte \in Int /\ enable_lbb \in BOOLEAN /\ rcvd \in Nat
    BY <1>1, AgainNow
<1>6. len \in 1 .. bb.sza
    BY <1>2, <1>3, <1>4 DEF FoundIs
<1>7. \/ \A p \in Low + 1 .. Low + len : ~Tag(p)
      \/ Tag(Low + 1) /\ stream[Low + 1].kind = "badlen" /\ len = TAG
      \/ Packet(Low + 1, len) /\ stream[Low + 1].kind # "frame"
    BY <1>2, <1>3, <1>4 DEF FoundIs
<1>8. Others
    BY <1>1 DEF Others, TypeOK
<1>9. bb.szb = 0
  <2>1. CASE enable_lbb
    <3>1. Full
        BY <1>3, <1>5, <2>1 DEF Full, Filling
    <3> QED BY <1>1, <1>3, <3>1, FullHoldsOne
  <2>2. CASE ~enable_lbb
    <3>1. f.ret # -3
        BY <1>2
    <3> QED BY <1>1, <1>3, <2>2, <3>1, NoSecondBlock
  <2> QED BY <2>1, <2>2
<1>10. PICK d : d = DecommitBlock(bb, len)
    OBVIOUS
<1>11. /\ Sound(d) /\ d.buflen = bb.buflen /\ d.szb = 0 /\ d.sza = bb.sza - len
       /\ GetUsedSize(d) = GetUsedSize(bb) - len
       /\ Holds(d, Base + len) /\ rcvd - GetUsedSize(d) = Base + len
       /\ Shape(stream, d, Base + len)
  <2>1. len <= bb.sza
      BY <1>5, <1>6
  <2> QED BY <1>1, <1>9, <1>10, <2>1, ReleaseNow
<1>12. Again(d)
    BY <1>2, <1>4, <1>10
<1>13. /\ bb' = d /\ lbb' = lbb /\ enable_lbb' = enable_lbb /\ lbyte' = lbyte /\ conn' = "open"
       /\ retRecv' = retRecv /\ pc' = "again"
    BY <1>1, <1>5, <1>12 DEF Again
<1>14. Low + len <= rcvd /\ len >= 1
    BY <1>3, <1>5, <1>6, <1>9
<1>15. UNCHANGED netvars /\ rcvd' = rcvd /\ delivered' = delivered
    BY <1>1
<1>16. PICK base \in Nat : base = Base + len
    BY <1>5
<1>17. Holds(d, base) /\ rcvd - GetUsedSize(d) = base /\ Shape(stream, d, base) /\ Sound(d)
    BY <1>11, <1>16
<1>18. TypeOK' /\ BuffersOK' /\ Low' = base
  <2>1. CASE ~enable_lbb
    <3>1. d.buflen = BIPBUFFER_LEN
        BY <1>1, <1>11, <2>1, RingNow
    <3> QED BY <1>1, <1>8, <1>12, <1>17, <2>1, <3>1, AgainRing
  <2>2. CASE enable_lbb
    <3>1. Full
        BY <1>3, <1>5, <2>2 DEF Full, Filling
    <3>2. len = bb.sza
        BY <1>1, <1>3, <1>4, <3>1, FullHoldsOne
    <3>3. d.sza = 0
        BY <1>5, <1>11, <3>2
    <3>4. retRecv > 0 /\ GetUsedSize(lbb) = 0 /\ lbb.buflen = BIPBUFFER_LEN
        BY <3>1 DEF BuffersOK, FullOK
    <3>5. Base' = base /\ Low' = base
      <4>1. Base' = base
          BY <1>13, <1>15, <1>17 DEF Base
      <4>2. Low' = Base' - GetUsedSize(lbb)
          BY <1>13 DEF Low
      <4> QED BY <3>4, <4>1, <4>2
    <3>6. Holds(lbb, base)
        BY <1>5, <3>4, EmptyIs
    <3>7. BytesOK'
        BY <1>13, <1>17, <3>5, <3>6 DEF BytesOK
    <3>8. FillingOK' /\ RingOK' /\ WaitOK'
        BY <1>3, <1>13, <2>2 DEF FillingOK, Filling, RingOK, WaitOK
    <3>9. FullOK'
        BY <1>11, <1>13, <3>3, <3>4 DEF FullOK
    <3>10. TypeOK'
        BY <1>8, <1>13, <1>17 DEF TypeOK, Others, netvars
    <3> QED BY <3>5, <3>7, <3>8, <3>9, <3>10 DEF BuffersOK
  <2> QED BY <2>1, <2>2
<1>19. Low' = Low + len
    BY <1>3, <1>16, <1>18
<1> QED BY <1>7, <1>11, <1>13, <1>14, <1>15, <1>18, <1>19 DEF Skips

\* The oldest bytes are those of a packet of len bytes that is not all in block A.
Extends(len) ==
    /\ StaysOK /\ delivered' = delivered /\ retRecv' = retRecv /\ UNCHANGED netvars /\ rcvd' = rcvd
    /\ Low = Base /\ Packet(Low + 1, len) /\ len \in Nat /\ bb.sza < len /\ ~enable_lbb
    /\ pc' = "again" => bb'.szb = 0 /\ enable_lbb' = enable_lbb
    /\ conn' = "closed" => retRecv = 0
    /\ pc' = "wait" /\ conn' = "open" =>
         \/ GetUsedSize(bb') = 0
         \/ bb' = bb /\ Base' = Base /\ GetUsedSize(bb) < len

\* An incomplete packet stays in the ring, is joined there or moves to a large buffer.
LEMMA IncompleteStep ==
    ASSUME TypeOK, BuffersOK, Incomplete
    PROVE  \E len : Extends(len)
<1>1. /\ pc = "again" /\ bb.sza >= MINFRAME /\ morebyte' = MOREBYTES
      /\ UNCHANGED <<netvars, rcvd, delivered, spurious>>
    BY DEF Incomplete
<1>2. PICK f \in Found : f.ret = -3 /\ Extend(bb.sza + f.len)
    BY DEF Incomplete
<1>3. FoundIs(f, bb.sza, Base) /\ ~Filling /\ Low = Base
    BY <1>1, FoundNow
<1>4. /\ conn = "open" /\ Sound(bb) /\ Sound(lbb) /\ Base \in Nat /\ bb.sza \in Nat /\ stream \in Streams
      /\ Base + bb.sza <= Len(stream) /\ Len(stream) \in Nat
      /\ bb.szb \in Nat /\ GetUsedSize(bb) = bb.sza + bb.szb /\ Base + GetUsedSize(bb) = rcvd
      /\ lbyte \in Int /\ retRecv \in Int /\ enable_lbb \in BOOLEAN /\ rcvd \in Nat
      /\ Holds(bb, Base) /\ GetUsedSize(bb) \in Nat
    BY <1>1, AgainNow
<1>5. ~enable_lbb
  <2>1. CASE Full
      BY <1>1, <1>2, <1>3, <2>1, FullHoldsOne
  <2> QED BY <1>3, <1>4, <2>1 DEF Full, Filling
<1>6. PICK len \in Nat : len = bb.sza + f.len
    BY <1>3, <1>4 DEF FoundIs
<1>7. Packet(Base + 1, len) /\ bb.sza < len
  <2>1. Packet(Base + 1, bb.sza + f.len) /\ f.len > 0 /\ f.len \in Nat
      BY <1>2, <1>3 DEF FoundIs
  <2>2. Packet(Base + 1, len)
      BY <1>6, <2>1
  <2> QED BY <1>4, <1>6, <2>1, <2>2
<1>8. Others
    BY <1>1 DEF Others, TypeOK
<1>9. /\ GetUsedSize(lbb) = 0 /\ bb.buflen = BIPBUFFER_LEN
      /\ Shape(stream, bb, Base) /\ Low = Base /\ enable_lbb = FALSE
    BY <1>1, <1>5, RingNow
<1>10. PICK j : j = Joined(len) /\
                \/ Complete(j, len) /\ Again(j)
                \/ /\ ~Complete(j, len) /\ len > BIPBUFFER_LEN
                   /\ \E l \in {LargeBuffer(j, len)} :
                         Finish(WithoutBlock(j), Commit(Fill(l, ContiguousBlock(j)), j.sza),
                                TRUE, BytesLeft(j, len))
                \/ /\ ~Complete(j, len) /\ len <= BIPBUFFER_LEN
                   /\ Finish(j, lbb, enable_lbb, lbyte)
    BY <1>2, <1>6 DEF Extend
<1>11. /\ Sound(j) /\ j.buflen = bb.buflen /\ GetUsedSize(j) = GetUsedSize(bb)
       /\ Holds(j, Base)
       /\ bb.szb = 0 \/ len > GetUsedSize(bb) => j = bb
       /\ bb.szb > 0 /\ len <= GetUsedSize(bb) =>
            j.szb = 0 /\ j.ixa = 0 /\ j.sza = GetUsedSize(bb)
    BY <1>1, <1>10, JoinedIs
<1>12. PICK base \in Nat : base = Base
    BY <1>4
<1>13. /\ UNCHANGED netvars /\ rcvd' = rcvd /\ delivered' = delivered
       /\ Packet(Low + 1, len) /\ stream[Base + 1].len = len
    BY <1>1, <1>7, <1>9 DEF Packet, PacketIn
<1>14. CASE Complete(j, len) /\ Again(j)
  <2>1. j.sza >= len
      BY <1>14 DEF Complete
  <2>2. j # bb
      BY <1>4, <1>7, <2>1
  <2>3. bb.szb > 0 /\ len <= GetUsedSize(bb)
      BY <1>4, <1>11, <2>2
  <2>4. j.szb = 0
      BY <1>11, <2>3
  <2>5. Shape(stream, j, base)
      BY <2>4 DEF Shape
  <2>6. j.buflen = BIPBUFFER_LEN /\ rcvd - GetUsedSize(j) = base /\ Holds(j, base) /\ Sound(j)
      BY <1>4, <1>9, <1>11, <1>12
  <2>7. TypeOK' /\ BuffersOK' /\ Low' = base
      BY <1>1, <1>5, <1>8, <1>14, <2>5, <2>6, AgainRing
  <2>8. bb' = j /\ conn' = "open" /\ pc' = "again" /\ retRecv' = retRecv /\ enable_lbb' = enable_lbb
      BY <1>1, <1>4, <1>14 DEF Again
  <2>9. StaysOK
      BY <1>9, <1>12, <2>7 DEF StaysOK
  <2> QED BY <1>5, <1>7, <1>9, <1>13, <2>4, <2>8, <2>9 DEF Extends
<1>15. CASE /\ ~Complete(j, len) /\ len > BIPBUFFER_LEN
            /\ \E l \in {LargeBuffer(j, len)} :
                  Finish(WithoutBlock(j), Commit(Fill(l, ContiguousBlock(j)), j.sza),
                         TRUE, BytesLeft(j, len))
  <2>1. bb.szb = 0
    <3>1. SUFFICES ASSUME bb.szb > 0 PROVE FALSE
        BY <1>4
    <3>2. Opens(stream, bb, Base)
      <4>1. MINFRAME \in Nat
          BY RecvAssumption
      <4> QED BY <1>1, <1>4, <1>9, <3>1, <4>1 DEF Shape
    <3>3. len <= BIPBUFFER_LEN
        BY <1>13, <3>2 DEF Opens
    <3>4. BIPBUFFER_LEN \in Nat
        BY RecvAssumption
    <3> QED BY <1>15, <3>3, <3>4
  <2>2. j = bb
      BY <1>11, <2>1
  <2>3. PICK l : l = Commit(Fill(LargeBuffer(bb, len), ContiguousBlock(bb)), bb.sza)
      OBVIOUS
  <2>4. PICK e : e = DecommitBlock(bb, bb.sza)
      OBVIOUS
  <2>5. Finish(e, l, TRUE, len - bb.sza)
      BY <1>15, <2>2, <2>3, <2>4 DEF WithoutBlock, BytesLeft
  <2>6. LargeOf(bb, l, len, base)
    <3>1. 0 < bb.sza
      <4>1. MINFRAME \in Nat /\ MINFRAME > 0
          BY RecvAssumption
      <4> QED BY <1>1, <1>4, <4>1
    <3> QED BY <1>4, <1>7, <1>12, <2>3, <3>1, LargeSound
  <2>7. /\ Sound(l) /\ l.buflen = len /\ l.szb = 0 /\ l.ixa = 0 /\ l.sza = bb.sza /\ Holds(l, base)
      BY <2>6 DEF LargeOf
  <2>8. /\ Sound(e) /\ e.buflen = BIPBUFFER_LEN /\ GetUsedSize(e) = 0
    <3>1. bb.sza <= bb.sza
        BY <1>4
    <3>2. Sound(e) /\ e.buflen = bb.buflen /\ GetUsedSize(e) = GetUsedSize(bb) - bb.sza
        BY <1>1, <1>4, <2>1, <2>4, <3>1, ReleaseNow
    <3> QED BY <1>4, <1>9, <2>1, <3>2
  <2>9. Empty(e)
      BY <2>8, EmptyIs
  <2>10. PICK left \in Nat : left = len - bb.sza /\ left > 0
      BY <1>4, <1>7
  <2>11. ~(left <= 0)
      BY <2>10
  <2>12. /\ enable_lbb' = TRUE /\ lbb' = l /\ bb' = (IF retRecv = 0 THEN FreeBuffer(e) ELSE e)
         /\ lbyte' = left /\ pc' = "wait" /\ retRecv' = retRecv
         /\ conn' = IF retRecv = 0 THEN "closed" ELSE conn
      BY <2>5, <2>10, <2>11 DEF Finish, Return
  <2>13. PICK b : b = bb' /\ Empty(b) /\ (retRecv # 0 => b.buflen = BIPBUFFER_LEN)
      BY <2>8, <2>9, <2>12, FreeSound
  <2>14. Room(l) = left /\ l.sza > 0 /\ GetUsedSize(l) = bb.sza
    <3>1. GetUsedSize(l) = bb.sza
        BY <1>4, <2>7 DEF GetUsedSize
    <3>2. MINFRAME \in Nat /\ MINFRAME > 0
        BY RecvAssumption
    <3>3. l.sza > 0
        BY <1>1, <1>4, <2>7, <3>2
    <3> QED BY <1>4, <2>7, <2>10, <3>1, <3>3 DEF Room
  <2>15. spurious' = spurious /\ spurious \in Nat /\ stream' = stream /\ sent' = sent /\ fin' = fin
      BY <1>1 DEF TypeOK, netvars
  <2>16. Partial(l, lbyte', spurious')
      BY <2>7, <2>10, <2>12, <2>14, <2>15 DEF Partial
  <2>17. rcvd' - GetUsedSize(l) = base /\ rcvd' \in Nat
      BY <1>4, <1>12, <1>13, <2>1, <2>14
  <2>18. Packet(base + 1, l.buflen)
      BY <1>7, <1>12, <2>7
  <2>19. conn' = "open" => retRecv # 0
      BY <2>12
  <2>20. conn' = "open" => /\ rcvd' - GetUsedSize(l) = base /\ Holds(l, base)
                           /\ b.buflen = BIPBUFFER_LEN /\ Packet(base + 1, l.buflen)
      BY <2>7, <2>13, <2>17, <2>18, <2>19
  <2>21. lbyte' > 0 /\ ~(lbyte' <= 0) /\ bb' = b
      BY <2>10, <2>11, <2>12, <2>13
  <2>22. BuffersOK' /\ (conn' = "open" => Low' = base)
      BY <2>12, <2>13, <2>15, <2>16, <2>17, <2>20, <2>21, FillingState
  <2>23. Sound(b) /\ GetUsedSize(b) = 0
      BY <2>13 DEF Empty, GetUsedSize
  <2>24. TypeOK'
      BY <1>4, <1>8, <2>7, <2>12, <2>15, <2>21, <2>23 DEF TypeOK, Others
  <2>25. StaysOK
      BY <1>9, <1>12, <2>22, <2>24 DEF StaysOK
  <2>26. conn' = "closed" => retRecv = 0
      BY <1>4, <2>12
  <2> QED BY <1>5, <1>7, <1>9, <1>13, <2>12, <2>21, <2>23, <2>25, <2>26 DEF Extends
<1>16. CASE /\ ~Complete(j, len) /\ len <= BIPBUFFER_LEN
            /\ Finish(j, lbb, enable_lbb, lbyte)
  <2>1. j.sza < len
    <3>1. j.sza \in Nat
        BY <1>11, Parts
    <3> QED BY <1>16, <3>1 DEF Complete
  <2>2. len > GetUsedSize(bb)
    <3>1. SUFFICES ASSUME len <= GetUsedSize(bb) PROVE FALSE
        BY <1>4
    <3>2. CASE bb.szb = 0
        BY <1>4, <1>7, <3>1, <3>2
    <3>3. CASE bb.szb > 0
        BY <1>4, <1>11, <2>1, <3>1, <3>3
    <3> QED BY <1>4, <3>2, <3>3
  <2>3. j = bb
      BY <1>11, <2>2
  <2>4. Opens(stream, bb, Base)
    <3>1. PacketIn(stream, Base + 1, stream[Base + 1].len)
        BY <1>7, <1>13 DEF Packet
    <3> QED BY <1>1, <1>7, <1>13, <1>16, <3>1 DEF Opens
  <2>5. Rest(stream, bb, Base)
    <3>1. GetUsedSize(bb) < stream[Base + 1].len
        BY <1>4, <1>13, <2>2
    <3> QED BY <2>4, <3>1 DEF Rest
  <2>6. Finish(bb, lbb, enable_lbb, lbyte)
      BY <1>16, <2>3
  <2>7. /\ StaysOK /\ pc' = "wait"
        /\ conn' = "open" => bb' = bb /\ Base' = Base
        /\ conn' = "closed" => retRecv = 0
      BY <1>1, <1>4, <1>5, <1>8, <1>9, <2>5, <2>6, FinishRing
  <2>8. retRecv' = retRecv
      BY <2>6 DEF Finish, Return
  <2>9. GetUsedSize(bb) < len
      BY <1>4, <2>2
  <2> QED BY <1>5, <1>7, <1>9, <1>13, <2>7, <2>8, <2>9 DEF Extends
<1> QED BY <1>10, <1>14, <1>15, <1>16

-----------------------------------------------------------------------------
(* The buffers: the theorems. *)

\* A new connection: an empty ring, and lbb only initialised.
LEMMA InitIs ==
    ASSUME Init
    PROVE  TypeOK /\ BuffersOK /\ Base = 0 /\ Low = 0 /\ enable_lbb = FALSE
<1>1. PICK b : b = bb /\ Empty(b) /\ b.buflen = BIPBUFFER_LEN
  <2>1. BIPBUFFER_LEN \in Nat \ {0}
      BY RecvAssumption
  <2> QED BY <2>1, FreshSound DEF Init
<1>2. PICK l : l = lbb /\ Empty(l) /\ l.buflen = 0
    BY InitSound DEF Init
<1>3. Sound(b) /\ Sound(l) /\ GetUsedSize(b) = 0 /\ GetUsedSize(l) = 0
    BY <1>1, <1>2 DEF Empty, GetUsedSize
<1>4. Holds(b, 0) /\ Holds(l, 0)
    BY <1>3, EmptyIs
<1>5. stream \in Streams /\ Len(stream) \in Nat
    BY SegmentIs DEF Init
<1>6. TypeOK
  <2>1. /\ sent = 0 /\ rcvd = 0 /\ fin = FALSE /\ conn = "open" /\ pc = "wait"
        /\ enable_lbb = FALSE /\ lbyte = 0 /\ morebyte = FIRSTBYTES /\ retRecv = 0
        /\ delivered = <<>> /\ spurious = 0
      BY DEF Init
  <2>2. sent \in 0 .. Len(stream) /\ rcvd \in 0 .. sent /\ lbyte \in Int /\ retRecv \in Int
        /\ spurious \in Nat
      BY <1>5, <2>1
  <2>3. delivered \in Seq(Nat)
      BY <2>1
  <2> QED BY <1>1, <1>2, <1>3, <1>5, <2>1, <2>2, <2>3 DEF TypeOK
<1>7. Base = 0 /\ Low = 0
  <2>1. rcvd = 0
      BY DEF Init
  <2>2. Base = 0
      BY <1>1, <1>3, <2>1 DEF Base
  <2> QED BY <1>2, <1>3, <2>2 DEF Low
<1>8. BytesOK
    BY <1>1, <1>2, <1>4, <1>7 DEF BytesOK
<1>9. FillingOK /\ FullOK
    BY DEF Init, FillingOK, FullOK, Filling, Full
<1>10. b.szb = 0 /\ b.sza = 0 /\ b.ixa = 0
    BY <1>1 DEF Empty
<1>11. Shape(stream, bb, Base) /\ Rest(stream, bb, Base)
  <2>1. BIPBUFFER_LEN \in Nat \ {0}
      BY RecvAssumption
  <2> QED BY <1>1, <1>10, <2>1 DEF Shape, Rest
<1>12. RingOK /\ WaitOK
    BY <1>1, <1>2, <1>3, <1>11 DEF RingOK, WaitOK
<1>13. enable_lbb = FALSE
    BY DEF Init
<1> QED BY <1>6, <1>7, <1>8, <1>9, <1>12, <1>13 DEF BuffersOK

\* Every step keeps the buffers as they should be.
LEMMA BuffersStep ==
    ASSUME TypeOK, BuffersOK, [Next]_vars
    PROVE  TypeOK' /\ BuffersOK'
<1>1. CASE PeerSend \/ PeerClose
    BY <1>1, PeerStep DEF StaysOK
<1>2. CASE RecvNoSpace
    BY <1>2, RecvNoSpaceStep DEF StaysOK
<1>3. CASE RecvToBB
    BY <1>3, RecvToBBStep DEF StaysOK
<1>4. CASE RecvToLBB
    BY <1>4, RecvToLBBStep DEF StaysOK
<1>5. CASE RecvSpurious
    BY <1>5, SpuriousStep DEF StaysOK
<1>6. CASE TooShort
    BY <1>6, TooShortStep DEF StaysOK
<1>7. CASE Deliver
    BY <1>7, DeliverStep DEF Delivers
<1>8. CASE Skip
    BY <1>8, SkipStep DEF Skips
<1>9. CASE Incomplete
    BY <1>9, IncompleteStep DEF Extends, StaysOK
<1>10. CASE UNCHANGED vars
  <2>1. UNCHANGED <<stream, rcvd, conn, bb, lbb, enable_lbb, lbyte, retRecv, pc, spurious>>
      BY <1>10 DEF vars
  <2>2. BuffersOK'
      BY <2>1, SameBuffers
  <2>3. TypeOK'
      BY <1>10 DEF vars, TypeOK
  <2> QED BY <2>2, <2>3
<1> QED BY <1>1, <1>2, <1>3, <1>4, <1>5, <1>6, <1>7, <1>8, <1>9, <1>10 DEF Next, OnRecv

\* The variables have their types and both buffers the shape that
\* osnet/bipbuffer.c relies on, whatever the peer sends and however recv() cuts it.
THEOREM TypeCorrect == Spec => []TypeOK
<1>1. Init => TypeOK /\ BuffersOK
    BY InitIs
<1>2. TypeOK /\ BuffersOK /\ [Next]_vars => (TypeOK /\ BuffersOK)'
    BY BuffersStep
<1> QED BY <1>1, <1>2, PTL DEF Spec

\* The bytes, the large buffer and the ring are as BuffersOK says in every state.
THEOREM BuffersCorrect == Spec => []BuffersOK
<1>1. Init => TypeOK /\ BuffersOK
    BY InitIs
<1>2. TypeOK /\ BuffersOK /\ [Next]_vars => (TypeOK /\ BuffersOK)'
    BY BuffersStep
<1> QED BY <1>1, <1>2, PTL DEF Spec

\* The contents of both buffers, the older first.
LEMMA HeldFollows ==
    ASSUME TypeOK, BuffersOK, conn = "open"
    PROVE  Follow(Held, rcvd - Low, Low)
<1>1. /\ Base \in Nat /\ Low \in Nat /\ rcvd \in Nat
      /\ Base + GetUsedSize(bb) = rcvd /\ Low + GetUsedSize(lbb) = Base
      /\ GetUsedSize(bb) \in Nat /\ GetUsedSize(lbb) \in Nat
      /\ Holds(bb, Base) /\ Holds(lbb, Low) /\ Sound(bb) /\ Sound(lbb)
    BY Now DEF BuffersOK, TypeOK
<1>2. PICK s : s = Contents(lbb)
    OBVIOUS
<1>3. PICK t : t = Contents(bb)
    OBVIOUS
<1>4. PICK m \in Nat : m = GetUsedSize(lbb)
    BY <1>1
<1>5. PICK n \in Nat : n = GetUsedSize(bb)
    BY <1>1
<1>6. PICK low \in Nat : low = Low
    BY <1>1
<1>7. Follow(s, m, low) /\ Follow(t, n, low + m)
  <2>1. Follow(s, m, low)
      BY <1>1, <1>2, <1>4, <1>6, ContentsFollow
  <2>2. Follow(t, n, Base)
      BY <1>1, <1>3, <1>5, ContentsFollow
  <2> QED BY <1>1, <1>4, <1>6, <2>1, <2>2
<1>8. s \in Seq(Nat) /\ t \in Seq(Nat) /\ Len(s) = m /\ Len(t) = n
    BY <1>7 DEF Follow
<1>9. s \o t \in Seq(Nat) /\ Len(s \o t) = m + n
    BY SMTT(30), <1>8
<1>10. ASSUME NEW i \in 1 .. m + n
       PROVE  (s \o t)[i] = low + i
  <2>1. CASE i <= m
    <3>1. (s \o t)[i] = s[i]
        BY <1>8, <2>1
    <3>2. i \in 1 .. m
        BY <2>1
    <3> QED BY <1>7, <3>1, <3>2 DEF Follow
  <2>2. CASE i > m
    <3>1. (s \o t)[i] = t[i - m]
        BY <1>8, <2>2
    <3>2. i - m \in 1 .. n
        BY <2>2
    <3>3. t[i - m] = (low + m) + (i - m)
        BY <1>7, <3>2 DEF Follow
    <3>4. (low + m) + (i - m) = low + i
        OBVIOUS
    <3> QED BY <3>1, <3>3, <3>4, Zenon
  <2>3. i <= m \/ i > m
      OBVIOUS
  <2> QED BY <2>1, <2>2, <2>3
<1>11. Follow(s \o t, m + n, low)
    BY <1>9, <1>10 DEF Follow
<1>12. rcvd - Low = m + n
    BY <1>1, <1>4, <1>5, <1>6
<1> QED BY <1>2, <1>3, <1>6, <1>11, <1>12 DEF Held

\* What is held is the end of what was received, in order and without a gap, and
\* both buffers keep the shape osnet/bipbuffer.c relies on.
THEOREM BytesInOrder == Spec => []HeldInOrder
<1>1. Init => TypeOK /\ BuffersOK
    BY InitIs
<1>2. TypeOK /\ BuffersOK /\ [Next]_vars => (TypeOK /\ BuffersOK)'
    BY BuffersStep
<1>3. TypeOK /\ BuffersOK => HeldInOrder
  <2>1. SUFFICES ASSUME TypeOK, BuffersOK PROVE HeldInOrder
      OBVIOUS
  <2>2. ASSUME NEW b, Sound(b) PROVE BufferOK(b)
    <3>1. BlocksOK(b) /\ (b.szResrv \in 0 .. b.buflen \/ b.buflen = 0)
        BY <2>2 DEF Sound
    <3>2. /\ b.buflen \in Nat /\ b.ixa \in Nat /\ b.sza \in Nat /\ b.szb \in Nat /\ b.ixb = 0
          /\ b.mem \in [0 .. b.buflen - 1 -> Nat]
        BY <2>2, Parts
    <3> QED BY <3>1, <3>2 DEF BufferOK
  <2>3. BufferOK(bb) /\ BufferOK(lbb)
      BY <2>1, <2>2 DEF TypeOK
  <2>4. ASSUME conn = "open", NEW i \in 1 .. Len(Held)
        PROVE  Held[i] = rcvd - Len(Held) + i
    <3>1. Follow(Held, rcvd - Low, Low)
        BY <2>1, <2>4, HeldFollows
    <3>2. Low \in Nat /\ rcvd \in Nat
        BY <2>1, <2>4, Now DEF BuffersOK
    <3>3. PICK n : n = rcvd - Low
        OBVIOUS
    <3>4. PICK h : h = Held
        OBVIOUS
    <3>5. Len(h) = n /\ \A k \in 1 .. n : h[k] = Low + k
        BY <3>1, <3>3, <3>4 DEF Follow
    <3>6. h[i] = Low + i
        BY <3>4, <3>5
    <3>7. Low + i = rcvd - n + i
        BY <3>2, <3>3
    <3> QED BY <3>4, <3>5, <3>6, <3>7
  <2> QED BY <2>3, <2>4 DEF HeldInOrder
<1> QED BY <1>1, <1>2, <1>3, PTL DEF Spec

\* While the large buffer is filled, lbyte counts exactly what is missing in it, or
\* more by the recv() calls that failed, and nothing is in the ring.
THEOREM LargeBufferCounted == Spec => []LargeBufferExact
<1>1. Init => TypeOK /\ BuffersOK
    BY InitIs
<1>2. TypeOK /\ BuffersOK /\ [Next]_vars => (TypeOK /\ BuffersOK)'
    BY BuffersStep
<1>3. TypeOK /\ BuffersOK => LargeBufferExact
  <2>1. SUFFICES ASSUME TypeOK, BuffersOK, enable_lbb, pc = "wait"
                 PROVE  LargeBufferExact
      BY DEF LargeBufferExact
  <2>2. lbyte > 0
      BY <2>1 DEF TypeOK, BuffersOK, FullOK, Full
  <2>3. Filling
      BY <2>1, <2>2 DEF Filling
  <2> QED BY <2>1, <2>3 DEF BuffersOK, FillingOK, Room, LargeBufferExact
<1> QED BY <1>1, <1>2, <1>3, PTL DEF Spec

\* In epoll_wait a ring without room holds the start of a packet longer than its half.
LEMMA NoRoom ==
    ASSUME NEW b, Sound(b), b.buflen = BIPBUFFER_LEN, FreeSpace(b) = 0,
           NEW base, Shape(stream, b, base), Rest(stream, b, base),
           NEW len \in Nat, len = stream[base + 1].len
    PROVE  Opens(stream, b, base) /\ 2 * len > BIPBUFFER_LEN
<1>1. /\ b.ixa \in Nat /\ b.sza \in Nat /\ b.szb \in Nat /\ b.ixb = 0
      /\ b.ixa + b.sza <= BIPBUFFER_LEN /\ GetUsedSize(b) = b.sza + b.szb
      /\ b.szb > 0 => b.sza > 0 /\ b.szb <= b.ixa
    BY Parts
<1>2. /\ MINFRAME \in Nat /\ BIPBUFFER_LEN \in Nat /\ 2 * MINFRAME <= BIPBUFFER_LEN /\ MINFRAME > 0
    BY RecvAssumption
<1>3. b.szb > 0
  <2>1. SUFFICES ASSUME b.szb = 0 PROVE FALSE
      BY <1>1
  <2>2. b.sza = BIPBUFFER_LEN
      BY <1>1, <1>2, <2>1 DEF FreeSpace, GetSpaceAfterA
  <2>3. ~(GetUsedSize(b) < MINFRAME)
      BY <1>1, <1>2, <2>1, <2>2
  <2>4. ~(b.sza < BIPBUFFER_LEN)
      BY <1>2, <2>2
  <2>5. Opens(stream, b, base) /\ GetUsedSize(b) < stream[base + 1].len
      BY <2>3, <2>4 DEF Rest
  <2>6. b.sza < len /\ len <= BIPBUFFER_LEN
      BY <2>5 DEF Opens
  <2> QED BY <1>2, <2>2, <2>6
<1>4. b.ixa = b.szb
    BY <1>1, <1>3 DEF FreeSpace, GetBFreeSpace
<1>5. GetSpaceAfterA(b) < b.ixa
    BY <1>3 DEF Shape
<1>6. BIPBUFFER_LEN < 2 * b.szb + b.sza
    BY <1>1, <1>2, <1>4, <1>5 DEF GetSpaceAfterA
<1>7. ~(GetUsedSize(b) < MINFRAME)
    BY <1>1, <1>2, <1>6
<1>8. Opens(stream, b, base) /\ GetUsedSize(b) < stream[base + 1].len
    BY <1>1, <1>3, <1>7 DEF Rest
<1>9. b.sza + b.szb < len
    BY <1>1, <1>8
<1>10. 2 * len > BIPBUFFER_LEN
    BY <1>1, <1>2, <1>6, <1>9
<1> QED BY <1>8, <1>10

\* A connection reading into the ring finds no room there only while it waits for
\* the rest of a frame that is longer than half of the ring.
THEOREM NoSpaceOnlyForLong == Spec => []NoSpaceOnlyForLongFrame
<1>1. Init => TypeOK /\ BuffersOK
    BY InitIs
<1>2. TypeOK /\ BuffersOK /\ [Next]_vars => (TypeOK /\ BuffersOK)'
    BY BuffersStep
<1>3. TypeOK /\ BuffersOK => NoSpaceOnlyForLongFrame
  <2>1. SUFFICES ASSUME TypeOK, BuffersOK, pc = "wait", conn = "open", ~enable_lbb, FreeSpace(bb) = 0
                 PROVE  HeadAt(Block, 1) /\ 2 * stream[Block[1]].len > BIPBUFFER_LEN
      BY DEF NoSpaceOnlyForLongFrame
  <2>2. Sound(bb) /\ bb.buflen = BIPBUFFER_LEN /\ Shape(stream, bb, Base) /\ Rest(stream, bb, Base)
      BY <2>1 DEF TypeOK, BuffersOK, RingOK, WaitOK
  <2>3. PICK base \in Nat : base = Base
      BY <2>1, Now DEF BuffersOK
  <2>4. PICK len \in Nat : len = stream[base + 1].len
    <3>1. /\ rcvd <= sent /\ sent <= Len(stream) /\ Len(stream) \in Nat /\ rcvd \in Nat /\ sent \in Nat
          /\ Base + GetUsedSize(bb) = rcvd /\ GetUsedSize(bb) \in Nat
        BY <2>1, Now DEF BuffersOK
    <3>2. GetUsedSize(bb) # 0
      <4>1. SUFFICES ASSUME GetUsedSize(bb) = 0 PROVE FALSE
          OBVIOUS
      <4>2. bb.sza = 0 /\ bb.szb = 0 /\ bb.ixa = 0
          BY <2>2, <4>1, EmptyIs DEF Empty
      <4>3. BIPBUFFER_LEN \in Nat \ {0}
          BY RecvAssumption
      <4> QED BY <2>1, <2>2, <4>2, <4>3 DEF FreeSpace, GetSpaceAfterA
    <3>3. base + 1 \in 1 .. Len(stream)
        BY <2>3, <3>1, <3>2
    <3>4. SegmentOK(base + 1)
        BY <2>1, <3>3, SegmentIs DEF TypeOK
    <3> QED BY <3>4 DEF SegmentOK
  <2>5. Opens(stream, bb, Base) /\ 2 * len > BIPBUFFER_LEN
      BY <2>1, <2>2, <2>3, <2>4, NoRoom
  <2>6. PICK n \in Nat : n = bb.sza
      BY <2>2, Parts
  <2>7. PICK blk : blk = Block
      OBVIOUS
  <2>8. Follow(blk, n, base)
      BY <2>1, <2>3, <2>6, <2>7, BlockIs DEF BuffersOK
  <2>9. n >= MINFRAME /\ MINFRAME \in Nat /\ MINFRAME >= 2 * TAG /\ TAG \in Nat /\ TAG > 0
      BY <2>5, <2>6, RecvAssumption DEF Opens
  <2>10. 1 \in 1 .. n /\ 1 + TAG - 1 <= n
      BY <2>9
  <2>11. HeadAt(blk, 1) <=> Tag(base + 1)
      BY <2>8, <2>10, HeadIs
  <2>12. Tag(base + 1)
      BY <2>5, <2>3 DEF Opens, PacketIn, Tag
  <2>13. blk[1] = base + 1
      BY <2>8, <2>10 DEF Follow
  <2> QED BY <2>5, <2>7, <2>11, <2>12, <2>13, <2>4
<1> QED BY <1>1, <1>2, <1>3, PTL DEF Spec

-----------------------------------------------------------------------------
(* The frames. *)

\* A frame is handed on behind all that were handed on before it.
LEMMA HandOn ==
    ASSUME stream \in Streams, NEW low \in Nat, NEW len, NEW d \in Seq(Nat),
           low + 1 <= Len(stream), Packet(low + 1, len), stream[low + 1].kind = "frame",
           HandedOn(stream, low, d),
           RangeOf(d) \subseteq FramesOf(stream),
           \A i, j \in 1 .. Len(d) : i < j => d[i] < d[j],
           NEW e, e = Append(d, stream[low + 1].seg)
    PROVE  /\ HandedOn(stream, low + len, e)
           /\ RangeOf(e) \subseteq FramesOf(stream)
           /\ \A i, j \in 1 .. Len(e) : i < j => e[i] < e[j]
<1>1. Len(stream) \in Nat
    BY SegmentIs
<1>2. PICK p \in 1 .. Len(stream) : p = low + 1
    BY <1>1
<1>3. /\ SegFirst(p) = p /\ SegLast(p) = p + len - 1 /\ SegLast(p) <= Len(stream) /\ len \in Nat
    BY <1>2, PacketIs
<1>4. SegmentOK(p)
    BY SegmentIs
<1>5. PICK x \in Nat : x = stream[p].seg
    BY <1>4 DEF SegmentOK
<1>6. PICK n \in Nat : n = Len(d)
    OBVIOUS
<1>7. e = Append(d, x) /\ Len(e) = n + 1 /\ e[n + 1] = x /\ \A i \in 1 .. n : e[i] = d[i]
    BY <1>2, <1>5, <1>6
<1>8. RangeOf(e) = RangeOf(d) \cup {x}
  <2>1. ASSUME NEW y \in RangeOf(e) PROVE y \in RangeOf(d) \cup {x}
    <3>1. PICK i \in 1 .. n + 1 : y = e[i]
        BY <1>7 DEF RangeOf
    <3>2. CASE i = n + 1
        BY <1>7, <3>1, <3>2
    <3>3. CASE i # n + 1
      <4>1. i \in 1 .. n
          BY <3>3
      <4> QED BY <1>6, <1>7, <3>1, <4>1 DEF RangeOf
    <3> QED BY <3>2, <3>3
  <2>2. ASSUME NEW y \in RangeOf(d) PROVE y \in RangeOf(e)
    <3>1. PICK i \in 1 .. n : y = d[i]
        BY <1>6 DEF RangeOf
    <3>2. i \in 1 .. n + 1 /\ e[i] = y
        BY <1>7, <3>1
    <3> QED BY <1>7, <3>2 DEF RangeOf
  <2>3. x \in RangeOf(e)
    <3>1. n + 1 \in 1 .. n + 1
        OBVIOUS
    <3> QED BY <1>7, <3>1 DEF RangeOf
  <2> QED BY <2>1, <2>2, <2>3
<1>9. ASSUME NEW q \in 1 .. low + len, stream[q].kind = "frame"
      PROVE  stream[q].seg \in RangeOf(e)
  <2>1. CASE q <= low
    <3>1. q \in 1 .. low
        BY <2>1
    <3> QED BY <1>8, <1>9, <3>1 DEF HandedOn
  <2>2. CASE q > low
    <3>1. q \in SegFirst(p) .. SegLast(p)
        BY <1>2, <1>3, <2>2
    <3>2. stream[q].seg = x
        BY <1>4, <1>5, <3>1 DEF SegmentOK
    <3> QED BY <1>8, <3>2
  <2> QED BY <1>3, <2>1, <2>2
<1>10. ASSUME NEW q \in low + len + 1 .. Len(stream)
       PROVE  stream[q].seg \notin RangeOf(e)
  <2>1. q \in low + 1 .. Len(stream) /\ q \in 1 .. Len(stream) /\ q > SegLast(p)
      BY <1>1, <1>2, <1>3
  <2>2. stream[q].seg \notin RangeOf(d)
      BY <2>1 DEF HandedOn
  <2>3. stream[q].seg > x
      BY <1>4, <1>5, <2>1 DEF SegmentOK
  <2>4. stream[q].seg # x
      BY <2>3
  <2> QED BY <1>8, <2>2, <2>4
<1>11. HandedOn(stream, low + len, e)
    BY <1>9, <1>10 DEF HandedOn
<1>12. x \in FramesOf(stream)
    BY <1>2, <1>5 DEF FramesOf
<1>13. ASSUME NEW i \in 1 .. n
       PROVE  d[i] < x
  <2>1. d[i] \in RangeOf(d)
      BY <1>6 DEF RangeOf
  <2>2. PICK q \in 1 .. Len(stream) : stream[q].seg = d[i]
      BY <2>1 DEF FramesOf
  <2>3. q <= low
    <3>1. q \notin low + 1 .. Len(stream)
        BY <2>1, <2>2 DEF HandedOn
    <3> QED BY <1>1, <3>1
  <2>4. q < SegFirst(p)
      BY <1>2, <1>3, <2>3
  <2> QED BY <1>4, <1>5, <2>2, <2>4 DEF SegmentOK
<1>14. ASSUME NEW i \in 1 .. Len(e), NEW j \in 1 .. Len(e), i < j
       PROVE  e[i] < e[j]
  <2>1. i \in 1 .. n /\ e[i] = d[i]
      BY <1>7, <1>14
  <2>2. CASE j = n + 1
      BY <1>7, <1>13, <2>1, <2>2
  <2>3. CASE j # n + 1
    <3>1. j \in 1 .. n /\ e[j] = d[j]
        BY <1>7, <2>3
    <3> QED BY <1>6, <1>14, <2>1, <3>1
  <2> QED BY <2>2, <2>3
<1>15. RangeOf(e) \subseteq FramesOf(stream)
    BY <1>8, <1>12
<1> QED BY <1>11, <1>14, <1>15

\* What a resynchronisation releases is no byte of a frame that was not handed on.
LEMMA SkipOn ==
    ASSUME stream \in Streams, NEW low \in Nat, NEW len \in Nat, NEW d,
           len >= 1, low + len <= Len(stream), HandedOn(stream, low, d),
           \/ \A p \in low + 1 .. low + len : ~Tag(p)
           \/ Tag(low + 1) /\ stream[low + 1].kind = "badlen" /\ len = TAG
           \/ Packet(low + 1, len) /\ stream[low + 1].kind # "frame"
    PROVE  HandedOn(stream, low + len, d)
<1>1. Len(stream) \in Nat
    BY SegmentIs
<1>2. PICK o \in 1 .. Len(stream) : o = low + 1
    BY <1>1
<1>3. SegmentOK(o)
    BY SegmentIs
<1>4. ASSUME NEW q \in low + 1 .. low + len, stream[q].kind = "frame"
      PROVE  FALSE
  <2>1. q \in 1 .. Len(stream) /\ q \in low + 1 .. Len(stream)
      BY <1>1
  <2>2. SegmentOK(q)
      BY <2>1, SegmentIs
  <2>3. CASE \A p \in low + 1 .. low + len : ~Tag(p)
    <3>1. PICK f \in Nat : f = SegFirst(q) /\ f >= 1 /\ f <= q
        BY <2>2 DEF SegmentOK
    <3>2. Tag(f)
        BY <1>4, <2>1, <3>1, FrameHasTag
    <3>3. f <= low
        BY <2>3, <3>1, <3>2
    <3>4. f \in SegFirst(q) .. SegLast(q)
        BY SMTT(30), <2>2, <3>1 DEF SegmentOK
    <3>5. stream[f].seg = stream[q].seg /\ stream[f].kind = "frame"
        BY <1>4, <2>2, <3>4 DEF SegmentOK
    <3>6. f \in 1 .. low
        BY <3>1, <3>3
    <3>7. stream[f].seg \in RangeOf(d)
        BY <3>5, <3>6 DEF HandedOn
    <3>8. stream[q].seg \notin RangeOf(d)
        BY <2>1 DEF HandedOn
    <3> QED BY <3>5, <3>7, <3>8
  <2>4. CASE Tag(low + 1) /\ stream[low + 1].kind = "badlen" /\ len = TAG
    <3>1. PICK j \in 0 .. TAG - 1 : q = o + j
      <4>1. TAG \in Nat
          BY RecvAssumption
      <4>2. q - o \in 0 .. TAG - 1 /\ q = o + (q - o)
          BY <1>2, <2>4, <4>1
      <4> QED BY <4>2
    <3>2. stream[q].seg = stream[o].seg
        BY <1>2, <2>4, <3>1 DEF Tag, TagIn
    <3>3. q \in SegFirst(o) .. SegLast(o)
        BY <2>1, <3>2, SameSegment
    <3>4. stream[q].kind = "badlen"
        BY <1>2, <1>3, <2>4, <3>3 DEF SegmentOK
    <3> QED BY <1>4, <3>4
  <2>5. CASE Packet(low + 1, len) /\ stream[low + 1].kind # "frame"
    <3>1. SegFirst(o) = o /\ SegLast(o) = o + len - 1
        BY <1>2, <2>5, PacketIs
    <3>2. q \in SegFirst(o) .. SegLast(o)
        BY <1>2, <3>1
    <3>3. stream[q].kind = stream[o].kind
        BY <1>3, <3>2 DEF SegmentOK
    <3> QED BY <1>2, <1>4, <2>5, <3>3
  <2> QED BY <2>3, <2>4, <2>5
<1>5. ASSUME NEW q \in 1 .. low + len, stream[q].kind = "frame"
      PROVE  stream[q].seg \in RangeOf(d)
  <2>1. q \notin low + 1 .. low + len
      BY <1>4, <1>5
  <2>2. q \in 1 .. low
      BY <2>1
  <2> QED BY <1>5, <2>2 DEF HandedOn
<1>6. ASSUME NEW q \in low + len + 1 .. Len(stream)
      PROVE  stream[q].seg \notin RangeOf(d)
  <2>1. q \in low + 1 .. Len(stream)
      BY <1>1
  <2> QED BY <2>1 DEF HandedOn
<1> QED BY <1>5, <1>6 DEF HandedOn

\* When the last bytes that were sent cannot complete a frame, every frame that
\* was sent completely has been handed on.
LEMMA NothingWaits ==
    ASSUME stream \in Streams, NEW low \in Nat, NEW last \in Nat, NEW d,
           low <= last, last <= Len(stream), HandedOn(stream, low, d),
           \/ last - low < MINFRAME
           \/ \E len \in Nat : low < Len(stream) /\ Packet(low + 1, len) /\ last - low < len,
           NEW f \in FramesOf(stream), \A p \in Positions(f) : p <= last
    PROVE  f \in RangeOf(d)
<1>1. Len(stream) \in Nat /\ MINFRAME \in Nat
    BY SegmentIs, RecvAssumption
<1>2. PICK q \in 1 .. Len(stream) : stream[q].kind = "frame" /\ f = stream[q].seg
    BY DEF FramesOf
<1>3. SegmentOK(q)
    BY SegmentIs
<1>4. PICK a \in Nat : a = SegFirst(q) /\ a >= 1 /\ a <= q
    BY <1>3 DEF SegmentOK
<1>5. PICK z \in Nat : z = SegLast(q) /\ q <= z /\ z <= Len(stream)
    BY <1>3 DEF SegmentOK
<1>6. stream[q].len \in Nat /\ stream[q].len >= MINFRAME /\ z = a + stream[q].len - 1
    BY <1>2, <1>3, <1>4, <1>5 DEF SegmentOK, SegLast
<1>7. /\ stream[a].seg = f /\ stream[a].kind = "frame" /\ stream[z].seg = f
  <2>1. a \in SegFirst(q) .. SegLast(q) /\ z \in SegFirst(q) .. SegLast(q)
      BY <1>4, <1>5
  <2> QED BY <1>2, <1>3, <2>1 DEF SegmentOK
<1>8. z <= last
  <2>1. z \in 1 .. Len(stream)
      BY <1>4, <1>5
  <2>2. z \in Positions(f)
      BY <1>7, <2>1 DEF Positions
  <2> QED BY <2>2
<1>9. CASE a <= low
  <2>1. a \in 1 .. low
      BY <1>4, <1>9
  <2> QED BY <1>7, <2>1 DEF HandedOn
<1>10. CASE a > low
  <2>1. CASE last - low < MINFRAME
      BY <1>1, <1>6, <1>8, <1>10, <2>1
  <2>2. CASE \E len \in Nat : low < Len(stream) /\ Packet(low + 1, len) /\ last - low < len
    <3>1. PICK len \in Nat : low < Len(stream) /\ Packet(low + 1, len) /\ last - low < len
        BY <2>2
    <3>2. PICK o \in 1 .. Len(stream) : o = low + 1
        BY <1>1, <3>1
    <3>3. SegFirst(o) = o /\ SegLast(o) = o + len - 1
        BY <3>1, <3>2, PacketIs
    <3>4. a \in SegFirst(o) .. SegLast(o) /\ a \in 1 .. Len(stream)
        BY <1>4, <1>5, <1>8, <1>10, <3>1, <3>2, <3>3
    <3>5. stream[a].seg = stream[o].seg
        BY <3>4, SameSegment
    <3>6. PICK y \in 1 .. Len(stream) : y = SegLast(o)
      <4>1. SegmentOK(o)
          BY SegmentIs
      <4> QED BY <1>1, <3>3, <3>4, <4>1 DEF SegmentOK
    <3>7. y \in SegFirst(o) .. SegLast(o)
        BY <3>3, <3>4, <3>6
    <3>8. stream[y].seg = stream[o].seg
        BY <3>7, SameSegment
    <3>9. y \in Positions(f)
        BY <1>7, <3>5, <3>8 DEF Positions
    <3>10. y <= last
        BY <3>9
    <3> QED BY <3>1, <3>2, <3>3, <3>6, <3>10
  <2> QED BY <2>1, <2>2
<1> QED BY <1>9, <1>10

\* A step that hands nothing on and keeps the oldest byte.
LEMMA SameFrames ==
    ASSUME ReleasedOK, DeliveredInOrder, stream' = stream, delivered' = delivered,
           conn' = "open" => conn = "open" /\ Low' = Low
    PROVE  ReleasedOK' /\ DeliveredInOrder'
<1>1. ReleasedOK'
    BY DEF ReleasedOK
<1>2. DeliveredInOrder'
    BY DEF DeliveredInOrder
<1> QED BY <1>1, <1>2

\* The connection is open after the step.
LEMMA StillOpen ==
    ASSUME conn' = "open"
    PROVE  ClosedDelivers' /\ (conn' = "closed" => fin')
BY DEF ClosedDelivers

\* The peer sends and closes its end; nothing is sent behind that.
LEMMA PeerFrames ==
    ASSUME IInv, PeerSend \/ PeerClose
    PROVE  FramesOK'
<1>1. /\ TypeOK /\ BuffersOK /\ ReleasedOK /\ EndOK /\ DeliveredInOrder /\ ClosedDelivers
    BY DEF IInv, FramesOK
<1>2. /\ ~fin /\ stream' = stream /\ delivered' = delivered /\ conn' = conn /\ rcvd' = rcvd
      /\ bb' = bb /\ lbb' = lbb /\ enable_lbb' = enable_lbb /\ retRecv' = retRecv /\ pc' = pc
    BY DEF PeerSend, PeerClose
<1>3. conn = "open"
    BY <1>1, <1>2 DEF TypeOK, EndOK
<1>4. ~(pc = "again" /\ retRecv = 0)
    BY <1>1, <1>2 DEF EndOK
<1>5. Low' = Low
    BY <1>1, <1>3, PeerStep, <1>2 DEF StaysOK
<1>6. ReleasedOK' /\ DeliveredInOrder'
    BY <1>1, <1>2, <1>3, <1>5, SameFrames
<1>7. EndOK'
    BY <1>2, <1>3, <1>4 DEF EndOK
<1> QED BY <1>2, <1>3, <1>6, <1>7, StillOpen DEF FramesOK

\* recv() changes nothing that was handed on.
LEMMA RecvNoSpaceFrames ==
    ASSUME IInv, RecvNoSpace
    PROVE  FramesOK'
<1>1. /\ TypeOK /\ BuffersOK /\ ReleasedOK /\ EndOK /\ DeliveredInOrder /\ ClosedDelivers
    BY DEF IInv, FramesOK
<1>2. /\ stream' = stream /\ delivered' = delivered /\ conn = "open" /\ conn' = "open" /\ retRecv' = 1
    BY DEF RecvNoSpace, Readable, netvars
<1>3. Low' = Low
    BY <1>1, <1>2, RecvNoSpaceStep DEF StaysOK
<1>4. ReleasedOK' /\ DeliveredInOrder'
    BY <1>1, <1>2, <1>3, SameFrames
<1>5. EndOK'
    BY <1>2 DEF EndOK
<1> QED BY <1>2, <1>4, <1>5, StillOpen DEF FramesOK

\* recv() returns 0 only when everything that was sent has been received.
LEMMA RecvToBBFrames ==
    ASSUME IInv, RecvToBB
    PROVE  FramesOK'
<1>1. /\ TypeOK /\ BuffersOK /\ ReleasedOK /\ EndOK /\ DeliveredInOrder /\ ClosedDelivers
    BY DEF IInv, FramesOK
<1>2. /\ stream' = stream /\ delivered' = delivered /\ conn = "open" /\ conn' = "open"
      /\ sent' = sent /\ fin' = fin /\ enable_lbb' = enable_lbb /\ ~enable_lbb
      /\ (sent > rcvd \/ fin)
    BY DEF RecvToBB, Readable, netvars
<1>3. /\ StaysOK
      /\ retRecv' = 0 => /\ sent' = rcvd'
                         /\ bb'.szb > 0 => \/ GetUsedSize(bb') < MINFRAME
                                           \/ /\ Opens(stream, bb', Base')
                                              /\ GetUsedSize(bb') < stream[Base' + 1].len
    BY <1>1, RecvToBBStep
<1>4. ReleasedOK' /\ DeliveredInOrder'
    BY <1>1, <1>2, <1>3, SameFrames DEF StaysOK
<1>5. retRecv' = 0 => fin
  <2>1. PICK n : rcvd' = rcvd + n /\ retRecv' = n
      BY DEF RecvToBB
  <2>2. rcvd \in Nat /\ sent \in Nat
      BY <1>1, <1>2, Now DEF BuffersOK
  <2>3. retRecv' = 0 => sent = rcvd + 0
      BY <1>2, <1>3, <2>1
  <2> QED BY <1>2, <2>2, <2>3
<1>6. EndOK'
    BY <1>2, <1>3, <1>5 DEF EndOK
<1> QED BY <1>2, <1>4, <1>6, StillOpen DEF FramesOK

\* A recv() that fails hands nothing on and does not end the connection.
LEMMA SpuriousFrames ==
    ASSUME IInv, RecvSpurious
    PROVE  FramesOK'
<1>1. /\ TypeOK /\ BuffersOK /\ ReleasedOK /\ EndOK /\ DeliveredInOrder /\ ClosedDelivers
    BY DEF IInv, FramesOK
<1>2. stream' = stream /\ delivered' = delivered /\ conn = "open"
    BY DEF RecvSpurious, AfterRecvToLBB, netvars
<1>3. StaysOK /\ retRecv' # 0 /\ conn' = "open"
    BY <1>1, SpuriousStep
<1>4. ReleasedOK' /\ DeliveredInOrder'
    BY <1>1, <1>2, <1>3, SameFrames DEF StaysOK
<1>5. EndOK'
    BY <1>3 DEF EndOK
<1> QED BY <1>3, <1>4, <1>5, StillOpen DEF FramesOK

\* What is left when the connection is removed cannot complete a frame.
Drained ==
    /\ fin /\ sent = rcvd
    /\ \/ rcvd - Low < MINFRAME
       \/ \E len \in Nat : Low < Len(stream) /\ Packet(Low + 1, len) /\ rcvd - Low < len

\* A step that removes the connection hands on nothing and leaves nothing to hand on.
LEMMA CloseFrames ==
    ASSUME IInv, conn = "open", conn' = "closed", Drained,
           stream' = stream, sent' = sent, fin' = fin, delivered' = delivered, pc' = "wait"
    PROVE  FramesOK'
<1>1. /\ TypeOK /\ BuffersOK /\ ReleasedOK /\ DeliveredInOrder
    BY DEF IInv, FramesOK
<1>2. ReleasedOK' /\ DeliveredInOrder'
    BY <1>1, SameFrames
<1>3. EndOK'
    BY DEF EndOK, Drained
<1>4. /\ Low \in Nat /\ rcvd \in Nat /\ Low <= rcvd /\ rcvd <= Len(stream) /\ sent = rcvd
      /\ stream \in Streams
  <2>1. /\ Base \in Nat /\ Low \in Nat /\ rcvd \in Nat /\ Base + GetUsedSize(bb) = rcvd
        /\ Low + GetUsedSize(lbb) = Base /\ GetUsedSize(bb) \in Nat /\ GetUsedSize(lbb) \in Nat
        /\ rcvd <= sent /\ sent <= Len(stream)
      BY <1>1, Now DEF BuffersOK
  <2> QED BY <1>1, <2>1 DEF TypeOK, Drained
<1>5. HandedOn(stream, Low, delivered)
    BY <1>1 DEF ReleasedOK
<1>6. ASSUME NEW f \in FramesOf(stream), \A p \in Positions(f) : p <= rcvd
      PROVE  f \in RangeOf(delivered)
  <2>1. PICK low \in Nat : low = Low
      BY <1>4
  <2>2. PICK last \in Nat : last = rcvd
      BY <1>4
  <2>3. PICK d : d = delivered
      OBVIOUS
  <2>4. \/ last - low < MINFRAME
        \/ \E len \in Nat : low < Len(stream) /\ Packet(low + 1, len) /\ last - low < len
      BY <2>1, <2>2 DEF Drained
  <2>5. low <= last /\ last <= Len(stream) /\ HandedOn(stream, low, d) /\ \A p \in Positions(f) : p <= last
      BY <1>4, <1>5, <1>6, <2>1, <2>2, <2>3
  <2>6. f \in RangeOf(d)
      BY <1>4, <2>4, <2>5, NothingWaits
  <2> QED BY <2>3, <2>6
<1>7. ClosedDelivers'
    BY <1>4, <1>6 DEF ClosedDelivers, Positions
<1> QED BY <1>2, <1>3, <1>7 DEF FramesOK

\* recv() into the large buffer: it goes on, it is full, or the peer has closed.
LEMMA RecvToLBBFrames ==
    ASSUME IInv, RecvToLBB
    PROVE  FramesOK'
<1>1. /\ TypeOK /\ BuffersOK /\ ReleasedOK /\ EndOK /\ DeliveredInOrder /\ ClosedDelivers
    BY DEF IInv, FramesOK
<1>2. /\ stream' = stream /\ delivered' = delivered /\ conn = "open"
      /\ sent' = sent /\ fin' = fin /\ pc = "wait" /\ enable_lbb
      /\ (sent > rcvd \/ fin)
    BY DEF RecvToLBB, Readable, netvars, AfterRecvToLBB
<1>3. /\ StaysOK
      /\ pc' = "again" => retRecv' > 0
      /\ conn' = "closed" => sent' = rcvd' /\ rcvd' = rcvd /\ delivered' = delivered
                             /\ GetUsedSize(lbb) < lbb.buflen
    BY <1>1, RecvToLBBStep
<1>4. conn' \in {"open", "closed"} /\ pc' \in {"wait", "again"} /\ (pc' = "again" => conn' = "open")
      /\ retRecv' \in Int
    BY <1>3 DEF StaysOK, TypeOK
<1>5. CASE conn' = "open"
  <2>1. ReleasedOK' /\ DeliveredInOrder'
      BY <1>1, <1>2, <1>3, SameFrames DEF StaysOK
  <2>2. pc' = "again" => retRecv' # 0
      BY <1>3, <1>4
  <2>3. EndOK'
      BY <1>5, <2>2 DEF EndOK
  <2> QED BY <1>5, <2>1, <2>3, StillOpen DEF FramesOK
<1>6. CASE conn' = "closed"
  <2>1. /\ Partial(lbb, lbyte, spurious) /\ Packet(Low + 1, lbb.buflen) /\ Empty(bb)
      BY <1>1, <1>2, WaitFilling
  <2>2. /\ Base \in Nat /\ Low \in Nat /\ rcvd \in Nat /\ Base + GetUsedSize(bb) = rcvd
        /\ Low + GetUsedSize(lbb) = Base /\ GetUsedSize(lbb) \in Nat
        /\ rcvd <= sent /\ sent <= Len(stream) /\ Len(stream) \in Nat /\ sent \in Nat
      BY <1>1, <1>2, Now DEF BuffersOK
  <2>3. GetUsedSize(bb) = 0 /\ lbb.sza > 0 /\ lbb.szb = 0
      BY <2>1 DEF Empty, GetUsedSize, Partial
  <2>4. lbb.sza \in Nat /\ GetUsedSize(lbb) = lbb.sza + lbb.szb /\ lbb.buflen \in Nat
      BY <1>1, Parts DEF TypeOK
  <2>5. sent = rcvd /\ fin
      BY <1>2, <1>3, <1>6, <2>2
  <2>6. rcvd - Low = GetUsedSize(lbb) /\ Low < Len(stream)
      BY <2>2, <2>3, <2>4
  <2>7. rcvd - Low < lbb.buflen
      BY <1>3, <1>6, <2>6
  <2>8. Drained
      BY <2>1, <2>4, <2>5, <2>6, <2>7 DEF Drained
  <2>9. pc' = "wait"
      BY <1>4, <1>6
  <2> QED BY <1>2, <1>6, <2>8, <2>9, CloseFrames
<1> QED BY <1>4, <1>5, <1>6

\* epFUI_OnRecv returns without looking for a frame.
LEMMA TooShortFrames ==
    ASSUME IInv, TooShort
    PROVE  FramesOK'
<1>1. /\ TypeOK /\ BuffersOK /\ ReleasedOK /\ EndOK /\ DeliveredInOrder /\ ClosedDelivers
    BY DEF IInv, FramesOK
<1>2. /\ stream' = stream /\ sent' = sent /\ fin' = fin /\ delivered' = delivered
      /\ pc = "again" /\ bb.sza < MINFRAME
    BY DEF TooShort, netvars
<1>3. /\ StaysOK /\ pc' = "wait" /\ retRecv' = retRecv
      /\ conn' = "closed" => retRecv = 0
    BY <1>1, TooShortStep
<1>4. /\ conn = "open" /\ Base \in Nat /\ Low \in Nat /\ rcvd \in Nat /\ Base + GetUsedSize(bb) = rcvd
      /\ GetUsedSize(bb) = bb.sza + bb.szb /\ bb.sza \in Nat /\ bb.szb \in Nat
    BY <1>1, <1>2, AgainNow
<1>5. conn' \in {"open", "closed"}
    BY <1>3 DEF StaysOK, TypeOK
<1>6. CASE conn' = "open"
  <2>1. ReleasedOK' /\ DeliveredInOrder'
      BY <1>1, <1>2, <1>3, <1>4, SameFrames DEF StaysOK
  <2>2. EndOK'
      BY <1>3, <1>6 DEF EndOK
  <2> QED BY <1>6, <2>1, <2>2, StillOpen DEF FramesOK
<1>7. CASE conn' = "closed"
  <2>1. /\ fin /\ sent = rcvd /\ ~enable_lbb
        /\ bb.szb > 0 => \/ GetUsedSize(bb) < MINFRAME
                         \/ /\ Opens(stream, bb, Base)
                            /\ GetUsedSize(bb) < stream[Base + 1].len
      BY <1>1, <1>2, <1>3, <1>7 DEF EndOK
  <2>2. Low = Base
      BY <1>1, <1>2, <2>1, RingNow
  <2>3. MINFRAME \in Nat
      BY RecvAssumption
  <2>4. GetUsedSize(bb) < MINFRAME
    <3>1. CASE bb.szb > 0
      <4>1. ~Opens(stream, bb, Base)
          BY <1>2, <1>4, <2>3 DEF Opens
      <4> QED BY <2>1, <3>1, <4>1
    <3>2. CASE bb.szb = 0
        BY <1>2, <1>4, <3>2
    <3> QED BY <1>4, <3>1, <3>2
  <2>5. Drained
      BY <1>4, <2>1, <2>2, <2>4 DEF Drained
  <2> QED BY <1>2, <1>3, <1>4, <1>7, <2>5, CloseFrames
<1> QED BY <1>5, <1>6, <1>7

\* An incomplete packet is kept, and when the peer has closed it stays incomplete.
LEMMA IncompleteFrames ==
    ASSUME IInv, Incomplete
    PROVE  FramesOK'
<1>1. /\ TypeOK /\ BuffersOK /\ ReleasedOK /\ EndOK /\ DeliveredInOrder /\ ClosedDelivers
    BY DEF IInv, FramesOK
<1>2. pc = "again" /\ bb.sza >= MINFRAME
    BY DEF Incomplete
<1>3. PICK len : Extends(len)
    BY <1>1, IncompleteStep
<1>4. /\ StaysOK /\ delivered' = delivered /\ retRecv' = retRecv /\ rcvd' = rcvd
      /\ stream' = stream /\ sent' = sent /\ fin' = fin
      /\ Low = Base /\ Packet(Low + 1, len) /\ len \in Nat /\ bb.sza < len /\ ~enable_lbb
      /\ pc' = "again" => bb'.szb = 0 /\ enable_lbb' = enable_lbb
      /\ conn' = "closed" => retRecv = 0
    BY <1>3 DEF Extends, netvars
<1>5. /\ conn = "open" /\ Base \in Nat /\ Low \in Nat /\ rcvd \in Nat /\ Base + GetUsedSize(bb) = rcvd
      /\ GetUsedSize(bb) = bb.sza + bb.szb /\ bb.sza \in Nat /\ bb.szb \in Nat
      /\ Base + bb.sza <= Len(stream) /\ Len(stream) \in Nat
    BY <1>1, <1>2, AgainNow
<1>6. conn' \in {"open", "closed"} /\ pc' \in {"wait", "again"} /\ (pc' = "again" => conn' = "open")
    BY <1>4 DEF StaysOK, TypeOK
<1>7. CASE conn' = "open"
  <2>1. ReleasedOK' /\ DeliveredInOrder'
      BY <1>1, <1>4, <1>5, SameFrames DEF StaysOK
  <2>2. EndOK'
      BY <1>1, <1>2, <1>4, <1>7 DEF EndOK
  <2> QED BY <1>7, <2>1, <2>2, StillOpen DEF FramesOK
<1>8. CASE conn' = "closed"
  <2>1. /\ fin /\ sent = rcvd
        /\ bb.szb > 0 => \/ GetUsedSize(bb) < MINFRAME
                         \/ /\ Opens(stream, bb, Base)
                            /\ GetUsedSize(bb) < stream[Base + 1].len
      BY <1>1, <1>2, <1>4, <1>8 DEF EndOK
  <2>2. MINFRAME \in Nat /\ MINFRAME > 0
      BY RecvAssumption
  <2>3. stream[Base + 1].len = len
      BY <1>4 DEF Packet, PacketIn
  <2>4. GetUsedSize(bb) < MINFRAME \/ GetUsedSize(bb) < len
    <3>1. CASE bb.szb > 0
        BY <2>1, <2>3, <3>1
    <3>2. CASE bb.szb = 0
        BY <1>4, <1>5, <3>2
    <3> QED BY <1>5, <3>1, <3>2
  <2>5. rcvd - Low = GetUsedSize(bb) /\ Low < Len(stream)
      BY SMTT(30), <1>2, <1>4, <1>5, <2>2
  <2>6. Drained
      BY <1>4, <2>1, <2>4, <2>5 DEF Drained
  <2> QED BY <1>4, <1>5, <1>6, <1>8, <2>6, CloseFrames
<1> QED BY <1>6, <1>7, <1>8

\* A frame is handed on and released.
LEMMA DeliverFrames ==
    ASSUME IInv, Deliver
    PROVE  FramesOK'
<1>1. /\ TypeOK /\ BuffersOK /\ ReleasedOK /\ EndOK /\ DeliveredInOrder /\ ClosedDelivers
    BY DEF IInv, FramesOK
<1>2. pc = "again" /\ bb.sza >= MINFRAME
    BY DEF Deliver
<1>3. PICK len : Delivers(len)
    BY <1>1, DeliverStep
<1>4. /\ conn' = "open" /\ Packet(Low + 1, len) /\ stream[Low + 1].kind = "frame" /\ len \in Nat
      /\ Low + len <= rcvd /\ Low' = Low + len
      /\ delivered' = Append(delivered, stream[Low + 1].seg)
      /\ retRecv' = retRecv /\ rcvd' = rcvd /\ stream' = stream /\ sent' = sent /\ fin' = fin
      /\ pc' = "again" => bb'.szb = 0 /\ enable_lbb' = enable_lbb
      /\ Low = Base
    BY <1>3 DEF Delivers, netvars
<1>5. /\ conn = "open" /\ Base \in Nat /\ bb.sza \in Nat
      /\ Base + bb.sza <= Len(stream) /\ Len(stream) \in Nat /\ stream \in Streams
    BY <1>1, <1>2, AgainNow
<1>6. PICK low \in Nat : low = Low
    BY <1>4, <1>5
<1>7. PICK d \in Seq(Nat) : d = delivered
    BY <1>1 DEF TypeOK
<1>8. PICK e : e = delivered'
    OBVIOUS
<1>9. low + 1 <= Len(stream)
  <2>1. MINFRAME \in Nat /\ MINFRAME > 0
      BY RecvAssumption
  <2> QED BY <1>2, <1>4, <1>5, <1>6, <2>1
<1>10. /\ Packet(low + 1, len) /\ stream[low + 1].kind = "frame" /\ HandedOn(stream, low, d)
       /\ RangeOf(d) \subseteq FramesOf(stream)
       /\ e = Append(d, stream[low + 1].seg)
    BY <1>1, <1>4, <1>5, <1>6, <1>7, <1>8 DEF ReleasedOK, DeliveredInOrder
<1>11. \A i, j \in 1 .. Len(d) : i < j => d[i] < d[j]
    BY <1>1, <1>7 DEF DeliveredInOrder
<1>12. /\ HandedOn(stream, low + len, e)
       /\ RangeOf(e) \subseteq FramesOf(stream)
       /\ \A i, j \in 1 .. Len(e) : i < j => e[i] < e[j]
    BY <1>5, <1>9, <1>10, <1>11, HandOn
<1>13. ReleasedOK'
    BY <1>4, <1>6, <1>8, <1>12 DEF ReleasedOK
<1>14. DeliveredInOrder'
    BY <1>4, <1>8, <1>12 DEF DeliveredInOrder
<1>15. EndOK'
    BY <1>1, <1>2, <1>4 DEF EndOK
<1> QED BY <1>4, <1>13, <1>14, <1>15, StillOpen DEF FramesOK

\* What cannot start a frame is released.
LEMMA SkipFrames ==
    ASSUME IInv, Skip
    PROVE  FramesOK'
<1>1. /\ TypeOK /\ BuffersOK /\ ReleasedOK /\ EndOK /\ DeliveredInOrder /\ ClosedDelivers
    BY DEF IInv, FramesOK
<1>2. pc = "again"
    BY DEF Skip
<1>3. PICK len : Skips(len)
    BY <1>1, SkipStep
<1>4. /\ conn' = "open" /\ pc' = "again" /\ len \in Nat /\ len >= 1 /\ Low + len <= rcvd /\ Low' = Low + len
      /\ delivered' = delivered /\ retRecv' = retRecv /\ rcvd' = rcvd
      /\ stream' = stream /\ sent' = sent /\ fin' = fin
      /\ bb'.szb = 0 /\ enable_lbb' = enable_lbb
    BY <1>3 DEF Skips, netvars
<1>5. \/ \A p \in Low + 1 .. Low + len : ~Tag(p)
      \/ Tag(Low + 1) /\ stream[Low + 1].kind = "badlen" /\ len = TAG
      \/ Packet(Low + 1, len) /\ stream[Low + 1].kind # "frame"
    BY <1>3 DEF Skips
<1>6. /\ conn = "open" /\ Low \in Nat /\ rcvd <= Len(stream) /\ stream \in Streams
      /\ Len(stream) \in Nat /\ rcvd \in Nat
  <2>1. conn = "open" /\ stream \in Streams
      BY <1>1, <1>2, AgainNow
  <2>2. Low \in Nat /\ rcvd \in Nat /\ rcvd <= sent /\ sent <= Len(stream) /\ sent \in Nat /\ Len(stream) \in Nat
      BY <1>1, <2>1, Now DEF BuffersOK
  <2> QED BY <2>1, <2>2
<1>7. PICK low \in Nat : low = Low
    BY <1>6
<1>8. PICK d : d = delivered
    OBVIOUS
<1>9. /\ HandedOn(stream, low, d) /\ low + len <= Len(stream)
    BY <1>1, <1>4, <1>6, <1>7, <1>8 DEF ReleasedOK
<1>10. \/ \A p \in low + 1 .. low + len : ~Tag(p)
       \/ Tag(low + 1) /\ stream[low + 1].kind = "badlen" /\ len = TAG
       \/ Packet(low + 1, len) /\ stream[low + 1].kind # "frame"
    BY <1>5, <1>7
<1>11. HandedOn(stream, low + len, d)
    BY <1>4, <1>6, <1>9, <1>10, SkipOn
<1>12. ReleasedOK'
    BY <1>4, <1>7, <1>8, <1>11 DEF ReleasedOK
<1>13. DeliveredInOrder'
    BY <1>1, <1>4 DEF DeliveredInOrder
<1>14. EndOK'
    BY <1>1, <1>2, <1>4 DEF EndOK
<1> QED BY <1>4, <1>12, <1>13, <1>14, StillOpen DEF FramesOK

\* Nothing happens.
LEMMA StutterFrames ==
    ASSUME IInv, UNCHANGED vars
    PROVE  FramesOK'
<1>1. /\ BuffersOK /\ ReleasedOK /\ EndOK /\ DeliveredInOrder /\ ClosedDelivers
    BY DEF IInv, FramesOK
<1>2. /\ stream' = stream /\ sent' = sent /\ fin' = fin /\ rcvd' = rcvd /\ conn' = conn
      /\ bb' = bb /\ lbb' = lbb /\ enable_lbb' = enable_lbb /\ retRecv' = retRecv /\ pc' = pc
      /\ delivered' = delivered
    BY DEF vars
<1>3. Base' = Base
    BY <1>2 DEF Base
<1>4. Low' = Low
    BY <1>2, <1>3 DEF Low
<1>5. ReleasedOK' /\ DeliveredInOrder'
    BY <1>1, <1>2, <1>4, SameFrames
<1>6. EndOK'
    BY <1>1, <1>2, <1>3 DEF EndOK
<1>7. ClosedDelivers'
    BY <1>1, <1>2 DEF ClosedDelivers, Positions
<1> QED BY <1>5, <1>6, <1>7 DEF FramesOK

\* The inductive invariant holds in every state.
THEOREM Invariance == Spec => []IInv
<1>1. Init => IInv
  <2>1. SUFFICES ASSUME Init PROVE IInv
      OBVIOUS
  <2>2. TypeOK /\ BuffersOK /\ Low = 0
      BY <2>1, InitIs
  <2>3. delivered = <<>> /\ retRecv = 0 /\ pc = "wait" /\ conn = "open"
      BY <2>1 DEF Init
  <2>4. RangeOf(delivered) = {}
      BY <2>3 DEF RangeOf
  <2>5. ReleasedOK
      BY <2>2, <2>4 DEF ReleasedOK, HandedOn
  <2>6. EndOK /\ ClosedDelivers
      BY <2>3 DEF EndOK, ClosedDelivers
  <2>7. DeliveredInOrder
      BY <2>3, <2>4 DEF DeliveredInOrder
  <2> QED BY <2>2, <2>5, <2>6, <2>7 DEF IInv, FramesOK
<1>2. IInv /\ [Next]_vars => IInv'
  <2>1. SUFFICES ASSUME IInv, [Next]_vars PROVE IInv'
      OBVIOUS
  <2>2. TypeOK' /\ BuffersOK'
      BY <2>1, BuffersStep DEF IInv
  <2>3. CASE PeerSend \/ PeerClose
      BY <2>1, <2>2, <2>3, PeerFrames DEF IInv
  <2>4. CASE RecvNoSpace
      BY <2>1, <2>2, <2>4, RecvNoSpaceFrames DEF IInv
  <2>5. CASE RecvToBB
      BY <2>1, <2>2, <2>5, RecvToBBFrames DEF IInv
  <2>6. CASE RecvToLBB
      BY <2>1, <2>2, <2>6, RecvToLBBFrames DEF IInv
  <2>7. CASE RecvSpurious
      BY <2>1, <2>2, <2>7, SpuriousFrames DEF IInv
  <2>8. CASE TooShort
      BY <2>1, <2>2, <2>8, TooShortFrames DEF IInv
  <2>9. CASE Deliver
      BY <2>1, <2>2, <2>9, DeliverFrames DEF IInv
  <2>10. CASE Skip
      BY <2>1, <2>2, <2>10, SkipFrames DEF IInv
  <2>11. CASE Incomplete
      BY <2>1, <2>2, <2>11, IncompleteFrames DEF IInv
  <2>12. CASE UNCHANGED vars
      BY <2>1, <2>2, <2>12, StutterFrames DEF IInv
  <2> QED BY <2>1, <2>3, <2>4, <2>5, <2>6, <2>7, <2>8, <2>9, <2>10, <2>11, <2>12 DEF Next, OnRecv
<1> QED BY <1>1, <1>2, PTL DEF Spec

\* What tms_Analyse is handed are correct frames of the stream, in order, each once.
THEOREM FramesInOrder == Spec => []DeliveredInOrder
<1>1. IInv => DeliveredInOrder
    BY DEF IInv, FramesOK
<1> QED BY <1>1, Invariance, PTL

\* When the connection is removed every frame that was sent completely was handed on.
THEOREM ClosedComplete == Spec => []ClosedDelivers
<1>1. IInv => ClosedDelivers
    BY DEF IInv, FramesOK
<1> QED BY <1>1, Invariance, PTL

\* No byte of a frame is released before the frame was handed on.
THEOREM FramesKept == Spec => []NoFrameLost
<1>1. IInv => NoFrameLost
  <2>1. SUFFICES ASSUME IInv, conn = "open", NEW p \in 1 .. rcvd,
                        stream[p].kind = "frame", stream[p].seg \notin RangeOf(delivered)
                 PROVE  p \in RangeOf(Held)
      BY DEF NoFrameLost
  <2>2. TypeOK /\ BuffersOK /\ HandedOn(stream, Low, delivered)
      BY <2>1 DEF IInv, FramesOK, ReleasedOK
  <2>3. Low \in Nat /\ rcvd \in Nat
      BY <2>1, <2>2, Now DEF BuffersOK
  <2>4. p > Low
    <3>1. p \notin 1 .. Low
        BY <2>1, <2>2 DEF HandedOn
    <3> QED BY <2>3, <3>1
  <2>5. PICK h : h = Held
      OBVIOUS
  <2>6. PICK n : n = rcvd - Low
      OBVIOUS
  <2>7. Len(h) = n /\ \A i \in 1 .. n : h[i] = Low + i
      BY <2>1, <2>2, <2>5, <2>6, HeldFollows DEF Follow
  <2>8. PICK i \in 1 .. n : i = p - Low
      BY <2>3, <2>4, <2>6
  <2>9. h[i] = p
      BY <2>3, <2>7, <2>8
  <2> QED BY <2>5, <2>7, <2>9 DEF RangeOf
<1> QED BY <1>1, Invariance, PTL

\* The byte at the head of a buffer.
LEMMA HeadByte ==
    ASSUME NEW b, Sound(b), NEW base \in Nat, Holds(b, base), b.sza > 0
    PROVE  b.mem[b.ixa] = base + 1
<1>1. b.sza \in Nat /\ b.ixa \in Nat
    BY Parts
<1>2. 0 \in 0 .. b.sza - 1 /\ b.ixa + 0 = b.ixa /\ base + 1 + 0 = base + 1
    BY <1>1
<1>3. b.mem[b.ixa + 0] = base + 1 + 0
    BY <1>2 DEF Holds
<1> QED BY <1>2, <1>3

\* No complete frame is left at the head of the ring by a pass that leaves it alone.
LEMMA NoneWaiting ==
    ASSUME TypeOK, BuffersOK, pc = "again", stream' = stream, bb' = bb,
           \/ GetUsedSize(bb) < MINFRAME
           \/ \E len \in Nat : Packet(Base + 1, len) /\ GetUsedSize(bb) < len
    PROVE  ~FrameWaiting'
<1>1. SUFFICES ASSUME FrameWaiting' PROVE FALSE
    OBVIOUS
<1>2. /\ Sound(bb) /\ stream \in Streams /\ Base \in Nat /\ bb.sza \in Nat /\ bb.szb \in Nat
      /\ GetUsedSize(bb) = bb.sza + bb.szb /\ Holds(bb, Base) /\ GetUsedSize(bb) \in Nat
      /\ Base + bb.sza <= Len(stream) /\ Len(stream) \in Nat
    BY AgainNow
<1>3. /\ bb.sza > 0
      /\ stream[bb.mem[bb.ixa]].kind = "frame"
      /\ stream[bb.mem[bb.ixa]].len <= GetUsedSize(bb)
    BY <1>1 DEF FrameWaiting
<1>4. PICK p \in 1 .. Len(stream) : p = Base + 1
    BY <1>2, <1>3
<1>5. bb.mem[bb.ixa] = p
    BY <1>2, <1>3, <1>4, HeadByte
<1>6. SegmentOK(p)
    BY <1>2, SegmentIs
<1>7. stream[p].len \in Nat /\ stream[p].len >= MINFRAME /\ MINFRAME \in Nat
    BY <1>3, <1>5, <1>6, RecvAssumption DEF SegmentOK
<1>8. \A len : Packet(Base + 1, len) => len = stream[p].len
    BY <1>4 DEF Packet, PacketIn
<1> QED BY <1>2, <1>3, <1>5, <1>7, <1>8

\* epFUI_OnRecv goes back to epoll_wait with a complete frame at the head of the ring
\* only from the early return of a block A that was too short and has been joined.
THEOREM LateOnlyJoined == Spec => LateOnlyAfterJoin
<1>1. ASSUME IInv, [Next]_vars
      PROVE  [pc = "again" /\ pc' = "wait" /\ conn' = "open" /\ FrameWaiting'
                => bb.sza < MINFRAME /\ bb.szb > 0 /\ bb'.sza >= MINFRAME]_vars
  <2>1. SUFFICES ASSUME Next, pc = "again", pc' = "wait", conn' = "open", FrameWaiting'
                 PROVE  bb.sza < MINFRAME /\ bb.szb > 0 /\ bb'.sza >= MINFRAME
      BY <1>1
  <2>2. TypeOK /\ BuffersOK
      BY <1>1 DEF IInv
  <2>3. GetUsedSize(bb') > 0
    <3>1. Sound(bb') /\ bb'.sza > 0
        BY <1>1, <2>1, <2>2, BuffersStep DEF TypeOK, FrameWaiting
    <3>2. PICK b : b = bb'
        OBVIOUS
    <3>3. b.sza \in Nat /\ b.szb \in Nat /\ GetUsedSize(b) = b.sza + b.szb
        BY <3>1, <3>2, Parts
    <3> QED BY <3>1, <3>2, <3>3
  <2>4. CASE TooShort
    <3>1. \/ bb' = bb /\ GetUsedSize(bb) < MINFRAME /\ Base' = Base
          \/ bb.szb > 0 /\ bb.sza < MINFRAME /\ bb'.sza >= MINFRAME
        BY <2>1, <2>2, <2>3, <2>4, TooShortStep
    <3>2. stream' = stream
        BY <2>4 DEF TooShort, netvars
    <3> QED BY <2>1, <2>2, <3>1, <3>2, NoneWaiting
  <2>5. CASE Deliver
    <3>1. GetUsedSize(bb') = 0
        BY <2>1, <2>2, <2>5, DeliverStep DEF Delivers
    <3> QED BY <2>3, <3>1
  <2>6. CASE Skip
    <3>1. pc' = "again"
        BY <2>2, <2>6, SkipStep DEF Skips
    <3> QED BY <2>1, <3>1
  <2>7. CASE Incomplete
    <3>1. PICK len : Extends(len)
        BY <2>2, <2>7, IncompleteStep
    <3>2. /\ len \in Nat /\ Packet(Low + 1, len) /\ Low = Base /\ stream' = stream
          /\ \/ GetUsedSize(bb') = 0
             \/ bb' = bb /\ Base' = Base /\ GetUsedSize(bb) < len
        BY <2>1, <3>1 DEF Extends, netvars
    <3>3. bb' = bb /\ GetUsedSize(bb) < len
        BY <2>3, <3>2
    <3>4. Packet(Base + 1, len)
        BY <3>2
    <3> QED BY <2>1, <2>2, <3>2, <3>3, <3>4, NoneWaiting
  <2>8. CASE PeerSend \/ PeerClose
      BY <2>1, <2>8 DEF PeerSend, PeerClose
  <2>9. CASE RecvNoSpace \/ RecvToBB \/ RecvToLBB \/ RecvSpurious
      BY <2>1, <2>9 DEF RecvNoSpace, RecvToBB, RecvToLBB, RecvSpurious
  <2> QED BY <2>1, <2>4, <2>5, <2>6, <2>7, <2>8, <2>9 DEF Next, OnRecv
<1>2. IInv /\ [Next]_vars => [pc = "again" /\ pc' = "wait" /\ conn' = "open" /\ FrameWaiting'
                => bb.sza < MINFRAME /\ bb.szb > 0 /\ bb'.sza >= MINFRAME]_vars
    BY <1>1
<1> QED BY <1>2, Invariance, PTL DEF Spec, LateOnlyAfterJoin
=============================================================================
