-------------------------- MODULE BipStreamProofs --------------------------
(***************************************************************************)
(* Proofs about BipStream.  The inductive invariant is IInv; the lemmas on *)
(* the operators of BipBuffer say what each of them does to the fields of  *)
(* a well-formed buffer.                                                   *)
(***************************************************************************)
EXTENDS BipStream, TLAPS

\* A buffer of the right type whose blocks are in order.
WellFormed(b) ==
    /\ b \in BufferType
    /\ DOMAIN b.mem = 0 .. b.buflen - 1
    /\ BlocksOK(b)

\* The inductive invariant: TypeOK, BlocksDisjoint and ReservationSafe need
\* each other.
IInv == /\ WellFormed(bb)
        /\ pending \in BOOLEAN
        /\ pending => ReservationOK(bb)

LEMMA LengthPositive == BUFLEN \in Nat /\ BUFLEN > 0
BY BufferAssumption

USE LengthPositive

\* The fields of a buffer, with the ranges arithmetic needs.
LEMMA Fields ==
    ASSUME NEW b \in BufferType
    PROVE  /\ b.mem \in Memory
           /\ b.buflen \in {0, BUFLEN}
           /\ b.ixa \in 0 .. BUFLEN /\ b.sza \in 0 .. BUFLEN
           /\ b.ixb = 0 /\ b.szb \in 0 .. BUFLEN
           /\ b.ixResrv \in 0 .. BUFLEN /\ b.szResrv \in 0 .. BUFLEN
BY DEF BufferType

\* Releasing bytes keeps a buffer well-formed, moves no byte in memory, and
\* keeps an outstanding reservation usable.
LEMMA DecommitBlockWellFormed ==
    ASSUME NEW b, WellFormed(b), NEW size \in Int
    PROVE  /\ WellFormed(DecommitBlock(b, size))
           /\ ReservationOK(b) => ReservationOK(DecommitBlock(b, size))
<1> DEFINE d == DecommitBlock(b, size)
<1>1. /\ b.mem \in Memory
      /\ b.buflen \in {0, BUFLEN}
      /\ b.ixa \in 0 .. BUFLEN /\ b.sza \in 0 .. BUFLEN
      /\ b.ixb = 0 /\ b.szb \in 0 .. BUFLEN
      /\ b.ixResrv \in 0 .. BUFLEN /\ b.szResrv \in 0 .. BUFLEN
    BY Fields DEF WellFormed
<1>2. CASE size < 0 \/ size >= b.sza
  <2>1. d = [b EXCEPT !.ixa = b.ixb, !.sza = b.szb, !.ixb = 0, !.szb = 0]
      BY <1>2 DEF DecommitBlock
  <2>2. d \in BufferType
    <3>1. d = [b EXCEPT !.ixa = 0, !.sza = b.szb, !.ixb = 0, !.szb = 0,
                        !.ixResrv = b.ixResrv, !.szResrv = b.szResrv]
        BY <1>1, <2>1 DEF WellFormed, BufferType
    <3>2. b \in BufferType /\ 0 \in 0 .. BUFLEN
        BY DEF WellFormed
    <3> QED BY ZenonT(60), <1>1, <3>1, <3>2 DEF BufferType
  <2>3. /\ d.mem = b.mem /\ d.buflen = b.buflen
        /\ d.ixa = 0 /\ d.sza = b.szb /\ d.ixb = 0 /\ d.szb = 0
        /\ d.ixResrv = b.ixResrv /\ d.szResrv = b.szResrv
      BY <1>1, <2>1 DEF WellFormed, BufferType
  <2>4. BlocksOK(d)
      BY <1>1, <2>3 DEF WellFormed, BlocksOK
  <2>5. ReservationOK(b) => ReservationOK(d)
      BY <1>1, <2>3 DEF WellFormed, BlocksOK, ReservationOK
  <2> QED BY <2>2, <2>3, <2>4, <2>5 DEF WellFormed
<1>3. CASE ~(size < 0 \/ size >= b.sza)
  <2>1. d = [b EXCEPT !.sza = b.sza - size, !.ixa = b.ixa + size]
      BY <1>3 DEF DecommitBlock
  <2>2. /\ b.sza - size \in 0 .. BUFLEN
        /\ b.ixa + size \in 0 .. BUFLEN
      BY SMTT(30), <1>1, <1>3 DEF WellFormed, BlocksOK
  <2>3. d \in BufferType
      BY <2>1, <2>2 DEF WellFormed, BufferType
  <2>4. /\ d.mem = b.mem /\ d.buflen = b.buflen
        /\ d.ixa = b.ixa + size /\ d.sza = b.sza - size
        /\ d.ixb = b.ixb /\ d.szb = b.szb
        /\ d.ixResrv = b.ixResrv /\ d.szResrv = b.szResrv
      BY <2>1 DEF WellFormed, BufferType
  <2>5. BlocksOK(d)
      BY SMTT(30), <1>1, <1>3, <2>4 DEF WellFormed, BlocksOK
  <2>6. ASSUME ReservationOK(b) PROVE ReservationOK(d)
    <3>1. b.sza > 0 /\ size >= 0
        BY <1>1, <1>3
    <3>2. b.szb = d.szb /\ b.ixa + b.sza = d.ixa + d.sza /\ b.ixa <= d.ixa
        BY <1>1, <1>3, <2>4
    <3> QED BY <1>1, <2>4, <2>6, <3>1, <3>2 DEF ReservationOK
  <2> QED BY <2>3, <2>4, <2>5, <2>6 DEF WellFormed
<1> QED BY <1>2, <1>3

LEMMA DecommitMultiWellFormed ==
    ASSUME NEW b, WellFormed(b), NEW size \in Int
    PROVE  /\ WellFormed(DecommitMulti(b, size))
           /\ ReservationOK(b) => ReservationOK(DecommitMulti(b, size))
<1>1. b.sza \in Int
    BY Fields DEF WellFormed
<1>2. size - b.sza \in Int
    BY <1>1
<1> QED BY <1>2, DecommitBlockWellFormed DEF DecommitMulti

LEMMA ReserveWellFormed ==
    ASSUME NEW b, WellFormed(b), NEW size \in 1 .. BUFLEN
    PROVE  /\ WellFormed(Reserve(b, size))
           /\ FreeSpace(b) # 0 => ReservationOK(Reserve(b, size))
<1> DEFINE r == Reserve(b, size)
<1>1. /\ b.mem \in Memory
      /\ b.buflen \in {0, BUFLEN}
      /\ b.ixa \in 0 .. BUFLEN /\ b.sza \in 0 .. BUFLEN
      /\ b.ixb = 0 /\ b.szb \in 0 .. BUFLEN
      /\ b.ixResrv \in 0 .. BUFLEN /\ b.szResrv \in 0 .. BUFLEN
    BY Fields DEF WellFormed
<1>2. CASE FreeSpace(b) = 0
    BY <1>2 DEF Reserve
<1>3. CASE FreeSpace(b) # 0
  <2>1. r = [b EXCEPT !.ixResrv = ReserveAt(b), !.szResrv = Smaller(size, FreeSpace(b))]
      BY <1>3 DEF Reserve
  <2>2. /\ FreeSpace(b) \in 1 .. BUFLEN
        /\ ReserveAt(b) \in 0 .. BUFLEN
        /\ ReserveAt(b) + FreeSpace(b) <= b.buflen
        /\ \/ b.szb = 0 /\ ReserveAt(b) = b.ixa + b.sza
           \/ ReserveAt(b) = b.ixb + b.szb /\ ReserveAt(b) + FreeSpace(b) <= b.ixa
    <3>1. CASE b.szb # 0
        BY SMTT(30), <1>1, <1>3, <3>1 DEF WellFormed, BlocksOK, ReserveAt, FreeSpace, GetBFreeSpace
    <3>2. CASE b.szb = 0 /\ GetSpaceAfterA(b) >= b.ixa
        BY SMTT(30), <1>1, <1>3, <3>2 DEF WellFormed, BlocksOK, ReserveAt, FreeSpace, GetSpaceAfterA
    <3>3. CASE b.szb = 0 /\ ~(GetSpaceAfterA(b) >= b.ixa)
        BY <1>1, <1>3, <3>3 DEF WellFormed, BlocksOK, ReserveAt, FreeSpace, GetSpaceAfterA
    <3> QED BY <3>1, <3>2, <3>3
  <2> DEFINE n == Smaller(size, FreeSpace(b))
  <2>3. n \in 0 .. BUFLEN /\ 0 < n /\ n <= FreeSpace(b)
      BY <2>2 DEF Smaller
  <2>4. r \in BufferType
      BY <2>1, <2>2, <2>3 DEF WellFormed, BufferType
  <2>5. /\ r.mem = b.mem /\ r.buflen = b.buflen
        /\ r.ixa = b.ixa /\ r.sza = b.sza /\ r.ixb = b.ixb /\ r.szb = b.szb
        /\ r.ixResrv = ReserveAt(b) /\ r.szResrv = n
      BY <2>1 DEF WellFormed, BufferType
  <2>6. BlocksOK(r)
      BY <2>5 DEF WellFormed, BlocksOK
  <2>7. ReservationOK(r)
      BY <1>1, <2>2, <2>3, <2>5 DEF ReservationOK
  <2> QED BY <2>4, <2>5, <2>6, <2>7 DEF WellFormed
<1> QED BY <1>2, <1>3

\* recv() changes memory only.
LEMMA FillWellFormed ==
    ASSUME NEW b, WellFormed(b), NEW s,
           \A i \in 1 .. Len(s) : s[i] \in Byte
    PROVE  /\ WellFormed(Fill(b, s))
           /\ ReservationOK(b) => ReservationOK(Fill(b, s))
<1> DEFINE f == Fill(b, s)
           memory == [i \in DOMAIN b.mem |->
                        IF i - b.ixResrv + 1 \in 1 .. Len(s)
                        THEN s[i - b.ixResrv + 1] ELSE b.mem[i]]
<1>1. b.mem \in Memory
    BY Fields DEF WellFormed
<1>2. memory \in Memory
    BY <1>1 DEF Memory
<1>3. f = [b EXCEPT !.mem = memory]
    BY DEF Fill
<1>4. f \in BufferType
    BY <1>2, <1>3 DEF WellFormed, BufferType
<1>5. /\ f.mem = memory /\ f.buflen = b.buflen
      /\ f.ixa = b.ixa /\ f.sza = b.sza /\ f.ixb = b.ixb /\ f.szb = b.szb
      /\ f.ixResrv = b.ixResrv /\ f.szResrv = b.szResrv
    BY <1>3 DEF WellFormed, BufferType
<1>6. DOMAIN memory = DOMAIN b.mem
    OBVIOUS
<1>7. BlocksOK(f) /\ (ReservationOK(b) => ReservationOK(f))
    BY <1>5 DEF WellFormed, BlocksOK, ReservationOK
<1> QED BY <1>4, <1>5, <1>6, <1>7 DEF WellFormed

\* A commit of a usable reservation keeps the buffer well-formed.
LEMMA CommitWellFormed ==
    ASSUME NEW b, WellFormed(b), ReservationOK(b), NEW size \in Int
    PROVE  WellFormed(Commit(b, size))
<1> DEFINE c == Commit(b, size)
           t == Smaller(size, b.szResrv)
           done == [b EXCEPT !.ixResrv = 0, !.szResrv = 0]
<1>1. /\ b.mem \in Memory
      /\ b.buflen \in {0, BUFLEN}
      /\ b.ixa \in 0 .. BUFLEN /\ b.sza \in 0 .. BUFLEN
      /\ b.ixb = 0 /\ b.szb \in 0 .. BUFLEN
      /\ b.ixResrv \in 0 .. BUFLEN /\ b.szResrv \in 0 .. BUFLEN
    BY Fields DEF WellFormed
<1>2. CASE size < 0
    BY <1>2 DEF Commit
<1>3. done \in BufferType
    BY <1>1, 0 \in 0 .. BUFLEN DEF WellFormed, BufferType
<1>4. /\ done.mem = b.mem /\ done.buflen = b.buflen
      /\ done.ixa = b.ixa /\ done.sza = b.sza /\ done.ixb = 0 /\ done.szb = b.szb
    BY <1>1 DEF WellFormed, BufferType
<1>5. CASE size = 0
  <2>1. c = done
      BY <1>5 DEF Commit
  <2> QED BY <1>1, <1>3, <1>4, <2>1 DEF WellFormed, BlocksOK
<1>6. CASE size > 0
  <2>1. t \in 0 .. BUFLEN /\ 0 < t /\ t <= b.szResrv
      BY <1>1, <1>6 DEF Smaller, ReservationOK
  <2>2. CASE b.sza = 0 /\ b.szb = 0
    <3>1. c = [done EXCEPT !.ixa = b.ixResrv, !.sza = t]
        BY <1>6, <2>2 DEF Commit
    <3> HIDE DEF t, done
    <3>2. c \in BufferType
        BY <1>1, <1>3, <2>1, <3>1 DEF BufferType
    <3>3. /\ c.mem = b.mem /\ c.buflen = b.buflen
          /\ c.ixa = b.ixResrv /\ c.sza = t /\ c.ixb = 0 /\ c.szb = 0
        BY <1>3, <1>4, <2>2, <3>1 DEF BufferType
    <3> QED BY SMTT(30), <1>1, <2>1, <3>2, <3>3 DEF WellFormed, BlocksOK, ReservationOK
  <2>3. CASE ~(b.sza = 0 /\ b.szb = 0) /\ b.ixResrv = b.sza + b.ixa
    <3>1. c = [done EXCEPT !.sza = b.sza + t]
        BY <1>6, <2>3 DEF Commit
    <3> HIDE DEF t, done
    <3>2. b.sza > 0 /\ b.szb = 0 /\ b.ixa + b.sza + t <= b.buflen
        BY SMTT(30), <1>1, <2>1, <2>3 DEF WellFormed, BlocksOK, ReservationOK
    <3>3. b.sza + t \in 0 .. BUFLEN
        BY <1>1, <2>1, <3>2
    <3>4. c \in BufferType
        BY <1>3, <3>1, <3>3 DEF BufferType
    <3>5. /\ c.mem = b.mem /\ c.buflen = b.buflen
          /\ c.ixa = b.ixa /\ c.sza = b.sza + t /\ c.ixb = 0 /\ c.szb = b.szb
        BY <1>3, <1>4, <3>1 DEF BufferType
    <3> QED BY <1>1, <2>1, <3>2, <3>4, <3>5 DEF WellFormed, BlocksOK
  <2>4. CASE ~(b.sza = 0 /\ b.szb = 0) /\ b.ixResrv # b.sza + b.ixa
    <3>1. c = [done EXCEPT !.szb = b.szb + t]
        BY <1>6, <2>4 DEF Commit
    <3> HIDE DEF t, done
    <3>2. b.sza > 0 /\ b.szb + t <= b.ixa
      <4>1. b.sza > 0
          BY <1>1, <2>4 DEF WellFormed, BlocksOK
      <4>2. b.ixResrv = b.ixb + b.szb /\ b.ixResrv + b.szResrv <= b.ixa
          BY <1>1, <2>4, <4>1 DEF ReservationOK
      <4> QED BY <1>1, <2>1, <4>1, <4>2
    <3>3. b.szb + t \in 0 .. BUFLEN
        BY <1>1, <2>1, <3>2
    <3>4. c \in BufferType
        BY <1>3, <3>1, <3>3 DEF BufferType
    <3>5. /\ c.mem = b.mem /\ c.buflen = b.buflen
          /\ c.ixa = b.ixa /\ c.sza = b.sza /\ c.ixb = 0 /\ c.szb = b.szb + t
        BY <1>3, <1>4, <3>1 DEF BufferType
    <3> QED BY <1>1, <2>1, <3>2, <3>4, <3>5 DEF WellFormed, BlocksOK
  <2> QED BY <2>2, <2>3, <2>4
<1> QED BY <1>2, <1>5, <1>6

\* Compaction needs no reservation: the blocks become one at offset 0.
LEMMA CompactWellFormed ==
    ASSUME NEW b, WellFormed(b)
    PROVE  WellFormed(GetUnContiguousBlock(b))
<1> DEFINE g == GetUnContiguousBlock(b)
           memory == [i \in DOMAIN b.mem |->
                        IF i < b.sza + b.szb THEN Contents(b)[i + 1] ELSE b.mem[i]]
<1>1. /\ b.mem \in Memory
      /\ b.buflen \in {0, BUFLEN}
      /\ b.ixa \in 0 .. BUFLEN /\ b.sza \in 0 .. BUFLEN
      /\ b.ixb = 0 /\ b.szb \in 0 .. BUFLEN
      /\ b.ixResrv \in 0 .. BUFLEN /\ b.szResrv \in 0 .. BUFLEN
    BY Fields DEF WellFormed
<1>2. CASE b.sza = 0 \/ b.szb = 0
    BY <1>2 DEF GetUnContiguousBlock
<1>3. CASE ~(b.sza = 0 \/ b.szb = 0)
  <2>1. g = [b EXCEPT !.ixa = 0, !.sza = b.sza + b.szb, !.ixb = 0, !.szb = 0,
                      !.mem = memory]
      BY <1>3 DEF GetUnContiguousBlock
  <2>2. /\ b.szb <= b.ixa /\ b.ixa + b.sza <= b.buflen
        /\ b.buflen = BUFLEN /\ b.sza + b.szb \in 0 .. BUFLEN
        /\ b.mem \in [0 .. BUFLEN - 1 -> Byte]
      BY SMTT(30), <1>1, <1>3 DEF WellFormed, BlocksOK, Memory
  <2>3. memory \in [0 .. BUFLEN - 1 -> Byte]
    <3>1. \A i \in 0 .. BUFLEN - 1 : i < b.sza + b.szb => Contents(b)[i + 1] \in Byte
        BY SMTT(30), <1>1, <2>2 DEF Contents
    <3> QED BY <2>2, <3>1
  <2> HIDE DEF memory
  <2>0. 0 \in 0 .. BUFLEN
      OBVIOUS
  <2>4. g \in BufferType
      BY ZenonT(60), <1>1, <2>1, <2>2, <2>3, <2>0 DEF WellFormed, BufferType, Memory
  <2>5. /\ g.mem = memory /\ g.buflen = b.buflen
        /\ g.ixa = 0 /\ g.sza = b.sza + b.szb /\ g.ixb = 0 /\ g.szb = 0
      BY <2>1 DEF WellFormed, BufferType
  <2> QED BY <1>1, <1>3, <2>2, <2>3, <2>4, <2>5 DEF WellFormed, BlocksOK
<1> QED BY <1>2, <1>3

LEMMA ClearWellFormed ==
    ASSUME NEW b, WellFormed(b)
    PROVE  WellFormed(Clear(b))
<1> DEFINE c == Clear(b)
<1>1. c \in BufferType
    BY 0 \in 0 .. BUFLEN DEF Clear, WellFormed, BufferType
<1>2. /\ c.mem = b.mem /\ c.buflen = b.buflen
      /\ c.ixa = 0 /\ c.sza = 0 /\ c.ixb = 0 /\ c.szb = 0
    BY DEF Clear, WellFormed, BufferType
<1>3. b.buflen >= 0
    BY Fields DEF WellFormed
<1> QED BY <1>1, <1>2, <1>3 DEF WellFormed, BlocksOK

LEMMA FreeWellFormed ==
    ASSUME NEW b, WellFormed(b)
    PROVE  WellFormed(FreeBuffer(b))
<1> DEFINE f == FreeBuffer(b)
           memory == [i \in {} |-> ZeroByte]
<1>1. CASE b.buflen = 0
    BY <1>1 DEF FreeBuffer
<1>2. CASE b.buflen # 0
  <2>1. f = [b EXCEPT !.mem = memory, !.buflen = 0,
                      !.ixa = 0, !.sza = 0, !.ixb = 0, !.szb = 0]
      BY <1>2 DEF FreeBuffer
  <2>2. memory \in Memory /\ DOMAIN memory = 0 .. 0 - 1
      BY DEF Memory
  <2> HIDE DEF memory
  <2>0. 0 \in 0 .. BUFLEN
      OBVIOUS
  <2>3. f \in BufferType
      BY ZenonT(60), <2>1, <2>2, <2>0 DEF WellFormed, BufferType
  <2>4. /\ f.mem = memory /\ f.buflen = 0
        /\ f.ixa = 0 /\ f.sza = 0 /\ f.ixb = 0 /\ f.szb = 0
      BY <2>1 DEF WellFormed, BufferType
  <2> QED BY <2>2, <2>3, <2>4 DEF WellFormed, BlocksOK
<1> QED BY <1>1, <1>2

\* Memory obtained from AllocateBuffer belongs to an empty buffer.
LEMMA AllocateWellFormed ==
    ASSUME NEW b, WellFormed(FreeBuffer(b)), FreeBuffer(b).buflen = 0
    PROVE  WellFormed(AllocateBuffer(b, BUFLEN))
<1> DEFINE f == FreeBuffer(b)
           a == AllocateBuffer(b, BUFLEN)
           memory == [i \in 0 .. BUFLEN - 1 |-> ZeroByte]
<1>1. a = [f EXCEPT !.buflen = BUFLEN, !.mem = memory]
    BY DEF AllocateBuffer
<1>2. memory \in Memory /\ DOMAIN memory = 0 .. BUFLEN - 1
    BY BufferAssumption DEF Memory
<1> HIDE DEF memory
<1>3. a \in BufferType
    BY <1>1, <1>2 DEF WellFormed, BufferType
<1>4. /\ a.mem = memory /\ a.buflen = BUFLEN
      /\ a.ixa = f.ixa /\ a.sza = f.sza /\ a.ixb = f.ixb /\ a.szb = f.szb
    BY <1>1 DEF WellFormed, BufferType
<1>5. BlocksOK(a)
  <2>1. f.ixa \in 0 .. BUFLEN /\ f.sza \in 0 .. BUFLEN /\ f.szb \in 0 .. BUFLEN
      BY Fields DEF WellFormed
  <2> QED BY <1>4, <2>1 DEF WellFormed, BlocksOK
<1> QED BY <1>2, <1>3, <1>4, <1>5 DEF WellFormed

LEMMA FreedIsEmpty ==
    ASSUME NEW b, WellFormed(b)
    PROVE  FreeBuffer(b).buflen = 0 /\ FreeBuffer(b).sza = 0 /\ FreeBuffer(b).szb = 0
<1>1. CASE b.buflen = 0
    BY <1>1, Fields DEF FreeBuffer, WellFormed, BlocksOK
<1>2. CASE b.buflen # 0
    BY <1>2 DEF FreeBuffer, WellFormed, BufferType
<1> QED BY <1>1, <1>2

LEMMA InitIInv == Init => IInv
<1> SUFFICES ASSUME Init PROVE IInv
    OBVIOUS
<1>1. FreeBuffer(InitBuffer) = InitBuffer
    BY DEF FreeBuffer, InitBuffer
<1>2. WellFormed(InitBuffer)
  <2>1. InitBuffer \in BufferType
      BY 0 \in 0 .. BUFLEN DEF InitBuffer, BufferType, Memory
  <2> QED BY <2>1 DEF InitBuffer, WellFormed, BlocksOK
<1>3. InitBuffer.buflen = 0
    BY DEF InitBuffer
<1> QED BY <1>1, <1>2, <1>3, AllocateWellFormed DEF Init, IInv

LEMMA NextIInv == IInv /\ [Next]_vars => IInv'
<1> SUFFICES ASSUME IInv, [Next]_vars PROVE IInv'
    OBVIOUS
<1> USE DEF IInv
<1>1. ASSUME NEW size \in 1 .. BUFLEN, DoReserve(size) PROVE IInv'
    BY <1>1, ReserveWellFormed DEF DoReserve
<1>2. ASSUME NEW size \in 0 .. BUFLEN, NEW s \in Received(size), DoCommit(size, s)
      PROVE  IInv'
  <2>1. \A i \in 1 .. Len(s) : s[i] \in Byte
    <3>1. Smaller(size, bb.szResrv) \in Nat
        BY Fields DEF Smaller, WellFormed
    <3> QED BY <3>1 DEF Received
  <2>2. WellFormed(Fill(bb, s)) /\ ReservationOK(Fill(bb, s))
      BY <1>2, <2>1, FillWellFormed DEF DoCommit
  <2>3. WellFormed(Commit(Fill(bb, s), size))
      BY <2>2, CommitWellFormed
  <2> QED BY <1>2, <2>3 DEF DoCommit
<1>3. ASSUME DoCommitFailed PROVE IInv'
  <2>1. Commit(bb, -1) = bb
      BY DEF Commit
  <2> QED BY <1>3, <2>1 DEF DoCommitFailed
<1>4. ASSUME NEW size \in 0 .. BUFLEN + 1, DoDecommitBlock(size) PROVE IInv'
    BY <1>4, DecommitBlockWellFormed DEF DoDecommitBlock
<1>5. ASSUME NEW size \in 0 .. BUFLEN + 1, DoDecommitMulti(size) PROVE IInv'
    BY <1>5, DecommitMultiWellFormed DEF DoDecommitMulti
<1>6. ASSUME NEW k \in 0 .. BUFLEN - 1, DoDecommitTo(k) PROVE IInv'
  <2>1. FrameLen(bb, k) \in Int
      BY Fields DEF FrameLen, WellFormed
  <2> QED BY <1>6, <2>1, DecommitMultiWellFormed DEF DoDecommitTo, DecommitTo
<1>7. ASSUME DoCompact PROVE IInv'
    BY <1>7, CompactWellFormed DEF DoCompact
<1>8. ASSUME DoClear PROVE IInv'
    BY <1>8, ClearWellFormed DEF DoClear
<1>9. ASSUME DoFree PROVE IInv'
    BY <1>9, FreeWellFormed DEF DoFree
<1>10. ASSUME DoAllocate PROVE IInv'
    BY <1>10, FreeWellFormed, FreedIsEmpty, AllocateWellFormed DEF DoAllocate
<1>11. ASSUME UNCHANGED vars PROVE IInv'
    BY <1>11 DEF vars
<1> QED BY <1>1, <1>2, <1>3, <1>4, <1>5, <1>6, <1>7, <1>8, <1>9, <1>10, <1>11 DEF Next

THEOREM Invariance == Spec => []IInv
BY InitIInv, NextIInv, PTL DEF Spec

\* The memory and the indices of the buffer stay in their ranges, for every
\* buffer length and every set of bytes.
THEOREM TypeCorrect == Spec => []TypeOK
<1>1. IInv => TypeOK
    BY DEF IInv, WellFormed, TypeOK
<1> QED BY <1>1, Invariance, PTL

\* No sequence of the calls bipbuffer.c offers makes the two blocks overlap or
\* leave the memory.
THEOREM BlocksAlwaysDisjoint == Spec => []BlocksDisjoint
<1>1. IInv => BlocksDisjoint
    BY DEF IInv, WellFormed, BlocksDisjoint
<1> QED BY <1>1, Invariance, PTL

\* recv() never overwrites a live byte, and Commit always finds the reserved
\* region behind the youngest block, whatever the reader released in between.
THEOREM ReservationsSafe == Spec => []ReservationSafe
<1>1. IInv => ReservationSafe
    BY DEF IInv, ReservationSafe
<1> QED BY <1>1, Invariance, PTL

-----------------------------------------------------------------------------
(* BipStream implements ByteFifo.                                          *)

LEMMA UsedSize ==
    ASSUME NEW b, WellFormed(b)
    PROVE  /\ GetUsedSize(b) \in 0 .. BUFLEN
           /\ DOMAIN Contents(b) = 1 .. GetUsedSize(b)
<1>1. /\ b.buflen \in {0, BUFLEN}
      /\ b.ixa \in 0 .. BUFLEN /\ b.sza \in 0 .. BUFLEN
      /\ b.ixb = 0 /\ b.szb \in 0 .. BUFLEN
    BY Fields DEF WellFormed
<1>2. b.sza + b.szb <= b.buflen
    BY <1>1 DEF WellFormed, BlocksOK
<1>3. GetUsedSize(b) \in 0 .. BUFLEN
    BY <1>1, <1>2 DEF GetUsedSize
<1>4. DOMAIN Contents(b) = 1 .. GetUsedSize(b)
    BY DEF Contents, GetUsedSize
<1> QED BY <1>3, <1>4

\* The contents are a sequence of bytes.
LEMMA ContentsAreBytes ==
    ASSUME NEW b, WellFormed(b)
    PROVE  /\ Contents(b) \in Seq(Byte)
           /\ Len(Contents(b)) = GetUsedSize(b)
           /\ \A i \in 1 .. GetUsedSize(b) : Contents(b)[i] \in Byte
<1>1. /\ b.mem \in Memory /\ DOMAIN b.mem = 0 .. b.buflen - 1
      /\ b.buflen \in {0, BUFLEN}
      /\ b.ixa \in 0 .. BUFLEN /\ b.sza \in 0 .. BUFLEN
      /\ b.ixb = 0 /\ b.szb \in 0 .. BUFLEN
    BY Fields DEF WellFormed
<1>2. \A i \in 0 .. b.buflen - 1 : b.mem[i] \in Byte
    BY <1>1 DEF Memory
<1>3. \A i \in 1 .. b.sza + b.szb :
         IF i <= b.sza THEN b.ixa + i - 1 \in 0 .. b.buflen - 1
                       ELSE b.ixb + i - 1 - b.sza \in 0 .. b.buflen - 1
    BY SMTT(30), <1>1 DEF WellFormed, BlocksOK
<1>4. \A i \in 1 .. GetUsedSize(b) : Contents(b)[i] \in Byte
    BY <1>1, <1>2, <1>3 DEF Contents, GetUsedSize
<1>5. Contents(b) \in [1 .. GetUsedSize(b) -> Byte]
    BY <1>4 DEF Contents, GetUsedSize
<1>6. GetUsedSize(b) \in Nat
    BY UsedSize
<1> QED BY <1>4, <1>5, <1>6

\* Buffers with the same blocks over the same memory have the same contents.
LEMMA SameContents ==
    ASSUME NEW b, NEW d, d.mem = b.mem,
           d.ixa = b.ixa, d.sza = b.sza, d.ixb = b.ixb, d.szb = b.szb
    PROVE  Contents(d) = Contents(b)
BY DEF Contents

\* d holds what b holds without its n oldest bytes.
Released(b, d, n) ==
    /\ n \in 0 .. GetUsedSize(b)
    /\ GetUsedSize(d) = GetUsedSize(b) - n
    /\ \A i \in 1 .. GetUsedSize(d) : Contents(d)[i] = Contents(b)[i + n]

LEMMA ReleasedIsDrop ==
    ASSUME NEW b, NEW d, WellFormed(b), WellFormed(d), NEW n, Released(b, d, n)
    PROVE  Contents(d) = SubSeq(Contents(b), n + 1, Len(Contents(b)))
<1>1. /\ Contents(b) \in Seq(Byte) /\ Len(Contents(b)) = GetUsedSize(b)
      /\ Contents(d) \in Seq(Byte) /\ Len(Contents(d)) = GetUsedSize(d)
      /\ GetUsedSize(b) \in Nat
    BY ContentsAreBytes, UsedSize
<1> DEFINE rest == SubSeq(Contents(b), n + 1, Len(Contents(b)))
<1>2. rest \in Seq(Byte) /\ Len(rest) = GetUsedSize(b) - n
    BY <1>1 DEF Released
<1>3. \A i \in 1 .. Len(rest) : rest[i] = Contents(b)[i + n]
    BY <1>1, <1>2 DEF Released
<1> HIDE DEF rest
<1> QED BY <1>1, <1>2, <1>3 DEF Released

\* DecommitBlock releases the oldest bytes, at most those of A.
LEMMA DecommitBlockReleases ==
    ASSUME NEW b, WellFormed(b), NEW size \in Int
    PROVE  \E n \in 0 .. GetUsedSize(b) : Released(b, DecommitBlock(b, size), n)
<1> DEFINE d == DecommitBlock(b, size)
<1>1. /\ b.ixa \in 0 .. BUFLEN /\ b.sza \in 0 .. BUFLEN
      /\ b.ixb = 0 /\ b.szb \in 0 .. BUFLEN
    BY Fields DEF WellFormed
<1>2. CASE size < 0 \/ size >= b.sza
  <2>1. /\ d.mem = b.mem
        /\ d.ixa = 0 /\ d.sza = b.szb /\ d.ixb = 0 /\ d.szb = 0
      BY <1>1, <1>2 DEF DecommitBlock, WellFormed, BufferType
  <2>2. GetUsedSize(d) = b.szb /\ GetUsedSize(b) = b.sza + b.szb
      BY <1>1, <2>1 DEF GetUsedSize
  <2>3. \A i \in 1 .. b.szb : Contents(d)[i] = Contents(b)[i + b.sza]
      BY SMTT(30), <1>1, <2>1 DEF Contents
  <2>4. Released(b, d, b.sza) /\ b.sza \in 0 .. GetUsedSize(b)
      BY <1>1, <2>2, <2>3 DEF Released
  <2> QED BY <2>4
<1>3. CASE ~(size < 0 \/ size >= b.sza)
  <2>1. /\ d.mem = b.mem
        /\ d.ixa = b.ixa + size /\ d.sza = b.sza - size /\ d.ixb = 0 /\ d.szb = b.szb
      BY <1>1, <1>3 DEF DecommitBlock, WellFormed, BufferType
  <2>2. GetUsedSize(d) = b.sza + b.szb - size /\ GetUsedSize(b) = b.sza + b.szb
      BY <1>1, <1>3, <2>1 DEF GetUsedSize
  <2>3. ASSUME NEW i \in 1 .. b.sza + b.szb - size
        PROVE  Contents(d)[i] = Contents(b)[i + size]
    <3>1. i \in 1 .. d.sza + d.szb /\ i + size \in 1 .. b.sza + b.szb
        BY <1>1, <1>3, <2>1
    <3>2. i <= d.sza <=> i + size <= b.sza
        BY <1>1, <1>3, <2>1
    <3>3. /\ d.ixa + i - 1 = b.ixa + (i + size) - 1
          /\ d.ixb + i - 1 - d.sza = b.ixb + (i + size) - 1 - b.sza
        BY <1>1, <1>3, <2>1
    <3> QED BY <2>1, <3>1, <3>2, <3>3 DEF Contents
  <2>4. Released(b, d, size) /\ size \in 0 .. GetUsedSize(b)
      BY <1>1, <1>3, <2>2, <2>3 DEF Released
  <2> QED BY <2>4
<1> QED BY <1>2, <1>3

LEMMA ReleasedTwice ==
    ASSUME NEW b, NEW d, NEW e, WellFormed(b), WellFormed(d), WellFormed(e),
           NEW n \in Nat, NEW m \in Nat, Released(b, d, n), Released(d, e, m)
    PROVE  Released(b, e, n + m)
<1>1. /\ GetUsedSize(b) \in Nat /\ GetUsedSize(d) \in Nat /\ GetUsedSize(e) \in Nat
    BY UsedSize
<1>2. /\ n + m \in 0 .. GetUsedSize(b)
      /\ GetUsedSize(e) = GetUsedSize(b) - (n + m)
    BY <1>1 DEF Released
<1>3. ASSUME NEW i \in 1 .. GetUsedSize(e)
      PROVE  Contents(e)[i] = Contents(b)[i + (n + m)]
  <2>1. i + m \in 1 .. GetUsedSize(d)
      BY <1>1 DEF Released
  <2>2. Contents(e)[i] = Contents(d)[i + m]
      BY DEF Released
  <2>3. Contents(d)[i + m] = Contents(b)[(i + m) + n]
      BY <2>1 DEF Released
  <2>4. (i + m) + n = i + (n + m)
      BY <1>1
  <2> QED BY <2>2, <2>3, <2>4
<1> QED BY <1>2, <1>3 DEF Released

LEMMA DecommitMultiReleases ==
    ASSUME NEW b, WellFormed(b), NEW size \in Int
    PROVE  \E n \in 0 .. GetUsedSize(b) : Released(b, DecommitMulti(b, size), n)
<1> DEFINE d == DecommitBlock(b, size)
           e == DecommitBlock(d, size - b.sza)
<1>1. b.sza \in Int /\ GetUsedSize(b) \in Nat
    BY Fields, UsedSize DEF WellFormed
<1>2. WellFormed(d)
    BY DecommitBlockWellFormed
<1>3. WellFormed(e)
    BY <1>1, <1>2, DecommitBlockWellFormed
<1>4. PICK n \in 0 .. GetUsedSize(b) : Released(b, d, n)
    BY DecommitBlockReleases
<1>5. PICK m \in 0 .. GetUsedSize(d) : Released(d, e, m)
    BY <1>1, <1>2, DecommitBlockReleases
<1>6. n \in Nat /\ m \in Nat
    BY <1>1, <1>2, UsedSize
<1>7. Released(b, e, n + m)
    BY <1>2, <1>3, <1>4, <1>5, <1>6, ReleasedTwice
<1>8. n + m \in 0 .. GetUsedSize(b)
    BY <1>7 DEF Released
<1> QED BY <1>4, <1>7, <1>8 DEF DecommitMulti

\* Compaction moves bytes without changing what a reader sees.
LEMMA CompactKeepsContents ==
    ASSUME NEW b, WellFormed(b)
    PROVE  Contents(GetUnContiguousBlock(b)) = Contents(b)
<1> DEFINE g == GetUnContiguousBlock(b)
           memory == [i \in DOMAIN b.mem |->
                        IF i < b.sza + b.szb THEN Contents(b)[i + 1] ELSE b.mem[i]]
<1>1. /\ b.ixa \in 0 .. BUFLEN /\ b.sza \in 0 .. BUFLEN
      /\ b.ixb = 0 /\ b.szb \in 0 .. BUFLEN
      /\ DOMAIN b.mem = 0 .. b.buflen - 1 /\ b.buflen \in {0, BUFLEN}
    BY Fields DEF WellFormed
<1>2. CASE b.sza = 0 \/ b.szb = 0
    BY <1>2 DEF GetUnContiguousBlock
<1>3. CASE ~(b.sza = 0 \/ b.szb = 0)
  <2>1. /\ g.mem = memory
        /\ g.ixa = 0 /\ g.sza = b.sza + b.szb /\ g.ixb = 0 /\ g.szb = 0
      BY <1>3 DEF GetUnContiguousBlock, WellFormed, BufferType
  <2>2. b.sza + b.szb <= b.buflen
      BY <1>1, <1>3 DEF WellFormed, BlocksOK
  <2>3. ASSUME NEW i \in 1 .. b.sza + b.szb
        PROVE  Contents(g)[i] = Contents(b)[i]
    <3>1. Contents(g)[i] = memory[i - 1]
        BY <1>1, <2>1 DEF Contents
    <3>2. i - 1 \in DOMAIN b.mem /\ i - 1 < b.sza + b.szb /\ (i - 1) + 1 = i
        BY <1>1, <2>2
    <3> QED BY <3>1, <3>2
  <2>4. Contents(g) = [i \in 1 .. b.sza + b.szb |-> Contents(g)[i]]
      BY SMTT(30), <1>1, <2>1 DEF Contents
  <2>5. Contents(b) = [i \in 1 .. b.sza + b.szb |-> Contents(b)[i]]
      BY DEF Contents
  <2> QED BY <2>3, <2>4, <2>5
<1> QED BY <1>2, <1>3

\* recv() overwrites no live byte.
LEMMA FillKeepsContents ==
    ASSUME NEW b, WellFormed(b), ReservationOK(b), NEW size \in Nat,
           NEW s \in [1 .. Smaller(size, b.szResrv) -> Byte]
    PROVE  Contents(Fill(b, s)) = Contents(b)
<1> DEFINE f == Fill(b, s)
           t == Smaller(size, b.szResrv)
<1>1. /\ b.ixa \in 0 .. BUFLEN /\ b.sza \in 0 .. BUFLEN
      /\ b.ixb = 0 /\ b.szb \in 0 .. BUFLEN
      /\ b.ixResrv \in 0 .. BUFLEN /\ b.szResrv \in 0 .. BUFLEN
      /\ DOMAIN b.mem = 0 .. b.buflen - 1 /\ b.buflen \in {0, BUFLEN}
    BY Fields DEF WellFormed
<1>2. t \in Nat /\ t <= b.szResrv /\ Len(s) = t
    BY <1>1 DEF Smaller
<1>3. /\ f.ixa = b.ixa /\ f.sza = b.sza /\ f.ixb = 0 /\ f.szb = b.szb
      /\ DOMAIN f.mem = DOMAIN b.mem
    BY <1>1 DEF Fill, WellFormed, BufferType
<1>4. ASSUME NEW i \in DOMAIN b.mem, i < b.ixResrv \/ i >= b.ixResrv + b.szResrv
      PROVE  f.mem[i] = b.mem[i]
  <2>1. i - b.ixResrv + 1 \notin 1 .. Len(s)
      BY <1>1, <1>2, <1>4
  <2> QED BY <2>1 DEF Fill, WellFormed, BufferType
<1>5. ASSUME NEW i \in 1 .. b.sza
      PROVE  f.mem[b.ixa + i - 1] = b.mem[b.ixa + i - 1]
  <2>1. b.ixa + i - 1 \in DOMAIN b.mem
      BY SMTT(30), <1>1 DEF WellFormed, BlocksOK
  <2>2. b.ixa + i - 1 < b.ixResrv \/ b.ixa + i - 1 >= b.ixResrv + b.szResrv
    <3>1. CASE b.szb = 0 /\ b.ixResrv = b.ixa + b.sza
        BY <1>1, <3>1
    <3>2. CASE b.ixResrv + b.szResrv <= b.ixa
        BY <1>1, <3>2
    <3> QED BY <1>1, <3>1, <3>2 DEF ReservationOK
  <2> QED BY <1>4, <2>1, <2>2
<1>6. ASSUME NEW i \in b.sza + 1 .. b.sza + b.szb
      PROVE  f.mem[b.ixb + i - 1 - b.sza] = b.mem[b.ixb + i - 1 - b.sza]
  <2>1. b.szb > 0 /\ b.sza > 0 /\ b.szb <= b.ixa /\ b.ixa + b.sza <= b.buflen
      BY <1>1 DEF WellFormed, BlocksOK
  <2>2. b.ixb + i - 1 - b.sza \in DOMAIN b.mem
      BY SMTT(30), <1>1, <2>1
  <2>3. b.ixResrv = b.szb
      BY SMTT(30), <1>1, <2>1 DEF ReservationOK
  <2>4. b.ixb + i - 1 - b.sza < b.ixResrv
      BY <1>1, <2>3
  <2> QED BY <1>4, <2>2, <2>4
<1>7. \A i \in 1 .. b.sza + b.szb :
         (IF i <= b.sza THEN f.mem[b.ixa + i - 1] ELSE f.mem[b.ixb + i - 1 - b.sza])
           = (IF i <= b.sza THEN b.mem[b.ixa + i - 1] ELSE b.mem[b.ixb + i - 1 - b.sza])
    BY <1>1, <1>5, <1>6
<1>8. Contents(f) = [i \in 1 .. b.sza + b.szb |->
         IF i <= b.sza THEN f.mem[b.ixa + i - 1] ELSE f.mem[b.ixb + i - 1 - b.sza]]
    BY <1>1, <1>3 DEF Contents
<1> HIDE DEF f
<1>9. Contents(f) = Contents(b)
    BY <1>7, <1>8 DEF Contents
<1> QED BY <1>9 DEF f

\* Commit appends: the bytes that were there keep their places.
LEMMA CommitAppends ==
    ASSUME NEW b, WellFormed(b), ReservationOK(b), NEW size \in Nat
    PROVE  LET c == Commit(b, size)
           IN  /\ GetUsedSize(c) >= GetUsedSize(b)
               /\ \A i \in 1 .. GetUsedSize(b) : Contents(c)[i] = Contents(b)[i]
<1> DEFINE c == Commit(b, size)
           t == Smaller(size, b.szResrv)
<1>1. /\ b.ixa \in 0 .. BUFLEN /\ b.sza \in 0 .. BUFLEN
      /\ b.ixb = 0 /\ b.szb \in 0 .. BUFLEN
      /\ b.ixResrv \in 0 .. BUFLEN /\ b.szResrv \in 0 .. BUFLEN
    BY Fields DEF WellFormed
<1>2. t \in Nat /\ c.mem = b.mem /\ c.ixb = 0
  <2>1. t \in Nat
      BY <1>1 DEF Smaller
  <2>2. c.mem = b.mem /\ c.ixb = b.ixb
      BY DEF Commit, WellFormed, BufferType
  <2> QED BY <1>1, <2>1, <2>2
<1>3. CASE size = 0
  <2>1. c.ixa = b.ixa /\ c.sza = b.sza /\ c.szb = b.szb
      BY <1>3 DEF Commit, WellFormed, BufferType
  <2>2. Contents(c) = Contents(b)
      BY <1>1, <1>2, <2>1, SameContents
  <2> QED BY <1>1, <2>1, <2>2 DEF GetUsedSize
<1>4. CASE size # 0 /\ b.sza = 0 /\ b.szb = 0
  <2>1. GetUsedSize(b) = 0
      BY <1>4 DEF GetUsedSize
  <2>2. c.sza = t /\ c.szb = 0
      BY <1>4 DEF Commit, WellFormed, BufferType
  <2> QED BY <1>2, <2>1, <2>2 DEF GetUsedSize
<1>5. CASE size # 0 /\ ~(b.sza = 0 /\ b.szb = 0) /\ b.ixResrv = b.sza + b.ixa
  <2>1. b.sza > 0 /\ b.szb = 0
    <3>1. b.sza > 0
        BY <1>1, <1>5 DEF WellFormed, BlocksOK
    <3> QED BY <1>1, <1>5, <3>1 DEF ReservationOK
  <2>2. c.ixa = b.ixa /\ c.sza = b.sza + t /\ c.szb = 0
      BY <1>5, <2>1 DEF Commit, WellFormed, BufferType
  <2>3. GetUsedSize(c) = b.sza + t /\ GetUsedSize(b) = b.sza
      BY <1>1, <1>2, <2>1, <2>2 DEF GetUsedSize
  <2>4. \A i \in 1 .. b.sza : Contents(c)[i] = Contents(b)[i]
      BY <1>1, <1>2, <2>1, <2>2 DEF Contents
  <2> QED BY <1>1, <1>2, <2>3, <2>4
<1>6. CASE size # 0 /\ ~(b.sza = 0 /\ b.szb = 0) /\ b.ixResrv # b.sza + b.ixa
  <2>1. c.ixa = b.ixa /\ c.sza = b.sza /\ c.szb = b.szb + t
      BY <1>6 DEF Commit, WellFormed, BufferType
  <2>2. GetUsedSize(c) = b.sza + b.szb + t /\ GetUsedSize(b) = b.sza + b.szb
      BY <1>1, <1>2, <2>1 DEF GetUsedSize
  <2>3. \A i \in 1 .. b.sza + b.szb : Contents(c)[i] = Contents(b)[i]
      BY <1>1, <1>2, <2>1 DEF Contents
  <2> QED BY <1>1, <1>2, <2>2, <2>3
<1> QED BY <1>3, <1>4, <1>5, <1>6

\* Emptying the buffer releases everything.
LEMMA EmptiedIsReleased ==
    ASSUME NEW b, NEW d, WellFormed(b), d.sza = 0, d.szb = 0
    PROVE  Released(b, d, GetUsedSize(b))
<1>1. GetUsedSize(b) \in Nat
    BY UsedSize
<1>2. GetUsedSize(d) = 0
    BY DEF GetUsedSize
<1> QED BY <1>1, <1>2 DEF Released

LEMMA FifoStep == IInv /\ [Next]_vars => [Fifo!Next]_(Contents(bb))
<1> SUFFICES ASSUME IInv, [Next]_vars
             PROVE  Fifo!Next \/ UNCHANGED Contents(bb)
    OBVIOUS
<1>1. WellFormed(bb) /\ WellFormed(bb') /\ (pending => ReservationOK(bb))
    BY NextIInv DEF IInv
<1>2. /\ Len(Contents(bb)) = GetUsedSize(bb) /\ GetUsedSize(bb) \in 0 .. BUFLEN
      /\ Len(Contents(bb')) = GetUsedSize(bb') /\ GetUsedSize(bb') \in 0 .. BUFLEN
      /\ \A i \in 1 .. GetUsedSize(bb') : Contents(bb')[i] \in Byte
    BY <1>1, ContentsAreBytes, UsedSize
<1>3. ASSUME NEW n \in 0 .. GetUsedSize(bb), Released(bb, bb', n) PROVE Fifo!Next
  <2>1. Contents(bb') = SubSeq(Contents(bb), n + 1, Len(Contents(bb)))
      BY <1>1, <1>3, ReleasedIsDrop
  <2> QED BY <1>2, <2>1 DEF Fifo!Next, Fifo!Drop
<1>4. ASSUME NEW size \in 1 .. BUFLEN, DoReserve(size) PROVE UNCHANGED Contents(bb)
  <2>1. /\ bb'.mem = bb.mem /\ bb'.ixa = bb.ixa /\ bb'.sza = bb.sza
        /\ bb'.ixb = bb.ixb /\ bb'.szb = bb.szb
      BY <1>1, <1>4 DEF DoReserve, Reserve, WellFormed, BufferType
  <2> QED BY <2>1, SameContents
<1>5. ASSUME NEW size \in 0 .. BUFLEN, NEW s \in Received(size), DoCommit(size, s)
      PROVE  Fifo!Next
  <2>1. s \in [1 .. Smaller(size, bb.szResrv) -> Byte] /\ size \in Nat
      BY DEF Received
  <2>2. \A i \in 1 .. Len(s) : s[i] \in Byte
    <3>1. Smaller(size, bb.szResrv) \in Nat
        BY <1>1, Fields DEF Smaller, WellFormed
    <3> QED BY <2>1, <3>1
  <2>3. ReservationOK(bb)
      BY <1>1, <1>5 DEF DoCommit
  <2>4. WellFormed(Fill(bb, s)) /\ ReservationOK(Fill(bb, s))
      BY <1>1, <2>2, <2>3, FillWellFormed
  <2>5. Contents(Fill(bb, s)) = Contents(bb)
      BY <1>1, <2>1, <2>3, FillKeepsContents
  <2>6. GetUsedSize(Fill(bb, s)) = GetUsedSize(bb)
      BY <1>1 DEF Fill, GetUsedSize, WellFormed, BufferType
  <2>7. /\ GetUsedSize(bb') >= GetUsedSize(bb)
        /\ \A i \in 1 .. GetUsedSize(bb) : Contents(bb')[i] = Contents(bb)[i]
      BY <1>5, <2>1, <2>4, <2>5, <2>6, CommitAppends DEF DoCommit
  <2>8. Fifo!Put
      BY <1>2, <2>7 DEF Fifo!Put
  <2> QED BY <2>8 DEF Fifo!Next
<1>6. ASSUME DoCommitFailed PROVE UNCHANGED Contents(bb)
  <2>1. Commit(bb, -1) = bb
      BY DEF Commit
  <2> QED BY <1>6, <2>1 DEF DoCommitFailed
<1>7. ASSUME NEW size \in 0 .. BUFLEN + 1, DoDecommitBlock(size) PROVE Fifo!Next
    BY <1>1, <1>3, <1>7, DecommitBlockReleases DEF DoDecommitBlock
<1>8. ASSUME NEW size \in 0 .. BUFLEN + 1, DoDecommitMulti(size) PROVE Fifo!Next
    BY <1>1, <1>3, <1>8, DecommitMultiReleases DEF DoDecommitMulti
<1>9. ASSUME NEW k \in 0 .. BUFLEN - 1, DoDecommitTo(k) PROVE Fifo!Next
  <2>1. FrameLen(bb, k) \in Int
      BY <1>1, Fields DEF FrameLen, WellFormed
  <2> QED BY <1>1, <1>3, <1>9, <2>1, DecommitMultiReleases DEF DoDecommitTo, DecommitTo
<1>10. ASSUME DoCompact PROVE UNCHANGED Contents(bb)
    BY <1>1, <1>10, CompactKeepsContents DEF DoCompact
<1>11. ASSUME DoClear PROVE Fifo!Next
  <2>1. bb'.sza = 0 /\ bb'.szb = 0
      BY <1>1, <1>11 DEF DoClear, Clear, WellFormed, BufferType
  <2>2. Released(bb, bb', GetUsedSize(bb))
      BY <1>1, <2>1, EmptiedIsReleased
  <2> QED BY <1>2, <1>3, <2>2
<1>12. ASSUME DoFree PROVE Fifo!Next
  <2>1. bb'.sza = 0 /\ bb'.szb = 0
      BY <1>1, <1>12, FreedIsEmpty DEF DoFree
  <2>2. Released(bb, bb', GetUsedSize(bb))
      BY <1>1, <2>1, EmptiedIsReleased
  <2> QED BY <1>2, <1>3, <2>2
<1>13. ASSUME DoAllocate PROVE Fifo!Next
  <2>1. WellFormed(FreeBuffer(bb)) /\ FreeBuffer(bb).sza = 0 /\ FreeBuffer(bb).szb = 0
      BY <1>1, FreeWellFormed, FreedIsEmpty
  <2>2. bb'.sza = 0 /\ bb'.szb = 0
      BY <1>13, <2>1 DEF DoAllocate, AllocateBuffer, WellFormed, BufferType
  <2>3. Released(bb, bb', GetUsedSize(bb))
      BY <1>1, <2>2, EmptiedIsReleased
  <2> QED BY <1>2, <1>3, <2>3
<1>14. ASSUME UNCHANGED vars PROVE UNCHANGED Contents(bb)
    BY <1>14 DEF vars
<1> QED BY <1>4, <1>5, <1>6, <1>7, <1>8, <1>9, <1>10, <1>11, <1>12, <1>13, <1>14 DEF Next

\* The bip buffer implements the byte queue: for every length and every set of
\* bytes, no legal sequence of calls loses, repeats or reorders a byte.
THEOREM ImplementsFifo == Spec => FifoSpec
<1>1. Init => Fifo!Init
  <2> SUFFICES ASSUME Init PROVE Contents(bb) = << >>
      BY DEF Fifo!Init
  <2>1. FreeBuffer(InitBuffer) = InitBuffer
      BY DEF FreeBuffer, InitBuffer
  <2>2. bb.sza = 0 /\ bb.szb = 0
      BY <2>1 DEF Init, AllocateBuffer, InitBuffer
  <2>3. DOMAIN Contents(bb) = 1 .. 0
      BY <2>2 DEF Contents
  <2>4. WellFormed(bb)
      BY InitIInv DEF IInv
  <2>5. Contents(bb) \in Seq(Byte) /\ Len(Contents(bb)) = 0
      BY <2>2, <2>4, ContentsAreBytes DEF GetUsedSize
  <2> QED BY <2>5
<1> QED BY <1>1, FifoStep, Invariance, PTL DEF Spec, FifoSpec, Fifo!Spec

-----------------------------------------------------------------------------
(* How much is released, and how much can be reserved.                     *)

\* DecommitBlock releases what it is asked for, or all of A.
LEMMA DecommitBlockExact ==
    ASSUME NEW b, WellFormed(b), NEW size \in Nat
    PROVE  Released(b, DecommitBlock(b, size), Smaller(size, b.sza))
<1> DEFINE d == DecommitBlock(b, size)
<1>1. /\ b.ixa \in 0 .. BUFLEN /\ b.sza \in 0 .. BUFLEN
      /\ b.ixb = 0 /\ b.szb \in 0 .. BUFLEN
    BY Fields DEF WellFormed
<1>2. CASE size >= b.sza
  <2>1. d.mem = b.mem /\ d.ixa = 0 /\ d.sza = b.szb /\ d.ixb = 0 /\ d.szb = 0
      BY <1>1, <1>2 DEF DecommitBlock, WellFormed, BufferType
  <2>2. GetUsedSize(d) = b.szb /\ GetUsedSize(b) = b.sza + b.szb
      BY <1>1, <2>1 DEF GetUsedSize
  <2>3. \A i \in 1 .. b.szb : Contents(d)[i] = Contents(b)[i + b.sza]
      BY SMTT(30), <1>1, <2>1 DEF Contents
  <2>4. Smaller(size, b.sza) = b.sza
      BY <1>1, <1>2 DEF Smaller
  <2> QED BY <1>1, <2>2, <2>3, <2>4 DEF Released
<1>3. CASE size < b.sza
  <2>1. /\ d.mem = b.mem
        /\ d.ixa = b.ixa + size /\ d.sza = b.sza - size /\ d.ixb = 0 /\ d.szb = b.szb
      BY <1>1, <1>3 DEF DecommitBlock, WellFormed, BufferType
  <2>2. GetUsedSize(d) = b.sza + b.szb - size /\ GetUsedSize(b) = b.sza + b.szb
      BY <1>1, <1>3, <2>1 DEF GetUsedSize
  <2>3. ASSUME NEW i \in 1 .. b.sza + b.szb - size
        PROVE  Contents(d)[i] = Contents(b)[i + size]
    <3>1. i \in 1 .. d.sza + d.szb /\ i + size \in 1 .. b.sza + b.szb
        BY <1>1, <1>3, <2>1
    <3>2. i <= d.sza <=> i + size <= b.sza
        BY <1>1, <1>3, <2>1
    <3>3. /\ d.ixa + i - 1 = b.ixa + (i + size) - 1
          /\ d.ixb + i - 1 - d.sza = b.ixb + (i + size) - 1 - b.sza
        BY <1>1, <1>3, <2>1
    <3> QED BY <2>1, <3>1, <3>2, <3>3 DEF Contents
  <2>4. Smaller(size, b.sza) = size
      BY <1>1, <1>3 DEF Smaller
  <2> QED BY <1>1, <1>3, <2>2, <2>3, <2>4 DEF Released
<1> QED BY <1>1, <1>2, <1>3

\* DecommitMulti releases what it is asked for, or everything.
LEMMA DecommitMultiReleasesExactly ==
    ASSUME NEW b, WellFormed(b), NEW size \in Nat
    PROVE  Released(b, DecommitMulti(b, size), Smaller(size, GetUsedSize(b)))
<1> DEFINE d == DecommitBlock(b, size)
           e == DecommitBlock(d, size - b.sza)
<1>1. /\ b.ixa \in 0 .. BUFLEN /\ b.sza \in 0 .. BUFLEN
      /\ b.ixb = 0 /\ b.szb \in 0 .. BUFLEN
    BY Fields DEF WellFormed
<1>2. GetUsedSize(b) = b.sza + b.szb
    BY DEF GetUsedSize
<1>3. CASE size <= b.sza
  <2>1. DecommitMulti(b, size) = d
      BY <1>1, <1>3 DEF DecommitMulti
  <2>2. Smaller(size, b.sza) = size /\ Smaller(size, GetUsedSize(b)) = size
      BY <1>1, <1>2, <1>3 DEF Smaller
  <2> QED BY <2>1, <2>2, DecommitBlockExact
<1>4. CASE size > b.sza
  <2>1. DecommitMulti(b, size) = e
      BY <1>4 DEF DecommitMulti
  <2>2. d.sza = b.szb
      BY <1>1, <1>4 DEF DecommitBlock, WellFormed, BufferType
  <2>3. WellFormed(d) /\ WellFormed(e)
    <3>1. WellFormed(d)
        BY DecommitBlockWellFormed
    <3>2. size - b.sza \in Int
        BY <1>1
    <3> QED BY <3>1, <3>2, DecommitBlockWellFormed
  <2>4. Released(b, d, b.sza)
    <3>1. Smaller(size, b.sza) = b.sza
        BY <1>1, <1>4 DEF Smaller
    <3> QED BY <3>1, DecommitBlockExact
  <2>5. Released(d, e, Smaller(size - b.sza, b.szb))
    <3>1. size - b.sza \in Nat
        BY <1>1, <1>4
    <3> QED BY <2>2, <2>3, <3>1, DecommitBlockExact
  <2>6. /\ Smaller(size - b.sza, b.szb) \in Nat
        /\ b.sza + Smaller(size - b.sza, b.szb) = Smaller(size, GetUsedSize(b))
      BY <1>1, <1>2, <1>4 DEF Smaller
  <2>7. Released(b, e, b.sza + Smaller(size - b.sza, b.szb))
      BY <1>1, <2>3, <2>4, <2>5, <2>6, ReleasedTwice
  <2> QED BY <2>1, <2>6, <2>7
<1> QED BY <1>1, <1>3, <1>4

\* bipbuffer_DecommitMulti releases exactly the bytes asked for, counted over
\* both blocks, whatever the length and the split of the contents.
THEOREM DecommitsExactly == Spec => []DecommitMultiExact
<1>1. ASSUME IInv, NEW n \in 0 .. BUFLEN
      PROVE  Contents(DecommitMulti(bb, n)) = SubSeq(Contents(bb), n + 1, GetUsedSize(bb))
  <2> DEFINE d == DecommitMulti(bb, n)
             k == Smaller(n, GetUsedSize(bb))
  <2>1. WellFormed(bb) /\ WellFormed(d)
      BY <1>1, DecommitMultiWellFormed DEF IInv
  <2>2. Contents(bb) \in Seq(Byte) /\ Len(Contents(bb)) = GetUsedSize(bb)
      BY <2>1, ContentsAreBytes
  <2>3. GetUsedSize(bb) \in Nat
      BY <2>1, UsedSize
  <2>4. Released(bb, d, k)
      BY <2>1, DecommitMultiReleasesExactly
  <2>5. Contents(d) = SubSeq(Contents(bb), k + 1, GetUsedSize(bb))
      BY <2>1, <2>2, <2>4, ReleasedIsDrop
  <2>6. CASE n <= GetUsedSize(bb)
      BY <2>3, <2>5, <2>6 DEF Smaller
  <2>7. CASE n > GetUsedSize(bb)
    <3>1. k + 1 > GetUsedSize(bb) /\ n + 1 > GetUsedSize(bb) /\ k \in Nat
        BY <2>3, <2>7 DEF Smaller
    <3>2. ASSUME NEW m \in Nat, m + 1 > GetUsedSize(bb)
          PROVE  SubSeq(Contents(bb), m + 1, GetUsedSize(bb)) = << >>
        BY <2>2, <2>3, <3>2
    <3> QED BY <2>3, <2>5, <3>1, <3>2
  <2> QED BY <2>3, <2>6, <2>7
<1>2. IInv => DecommitMultiExact
    BY <1>1 DEF DecommitMultiExact
<1> QED BY <1>2, Invariance, PTL

\* Whatever was released and wherever, compacting two blocks, or emptying the
\* buffer, makes all bytes that are not in use available to one reservation.
THEOREM FreeSpaceComesBack == Spec => []FreeSpaceRecoverable
<1>1. ASSUME IInv, bb.sza = 0 \/ bb.szb > 0
      PROVE  FreeSpace(GetUnContiguousBlock(bb)) = bb.buflen - GetUsedSize(bb)
  <2> DEFINE g == GetUnContiguousBlock(bb)
  <2>1. /\ bb.buflen \in {0, BUFLEN}
        /\ bb.ixa \in 0 .. BUFLEN /\ bb.sza \in 0 .. BUFLEN
        /\ bb.ixb = 0 /\ bb.szb \in 0 .. BUFLEN
        /\ BlocksOK(bb)
      BY <1>1, Fields DEF IInv, WellFormed
  <2>2. CASE bb.sza = 0
    <3>1. bb.szb = 0 /\ bb.ixa = 0 /\ g = bb
        BY <2>1, <2>2 DEF BlocksOK, GetUnContiguousBlock
    <3> QED BY <2>1, <2>2, <3>1 DEF FreeSpace, GetSpaceAfterA, GetUsedSize
  <2>3. CASE bb.szb > 0
    <3>1. bb.sza > 0
        BY <2>1, <2>3 DEF BlocksOK
    <3>2. /\ g.buflen = bb.buflen /\ g.ixa = 0 /\ g.sza = bb.sza + bb.szb
          /\ g.ixb = 0 /\ g.szb = 0
        BY <1>1, <2>1, <2>3, <3>1 DEF GetUnContiguousBlock, IInv, WellFormed, BufferType
    <3>3. bb.sza + bb.szb <= bb.buflen
        BY <2>1, <2>3, <3>1 DEF BlocksOK
    <3> QED BY <2>1, <3>2, <3>3 DEF FreeSpace, GetSpaceAfterA, GetUsedSize
  <2> QED BY <1>1, <2>2, <2>3
<1>2. IInv => FreeSpaceRecoverable
    BY <1>1 DEF FreeSpaceRecoverable
<1> QED BY <1>2, Invariance, PTL
=============================================================================
