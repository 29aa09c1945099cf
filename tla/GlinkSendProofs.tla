-------------------------- MODULE GlinkSendProofs --------------------------
(***************************************************************************)
(* The proof that a peer reads whole frames: for frames of any length,     *)
(* sockets of any size, and any split of a piece by send().                *)
(*                                                                         *)
(* FramesWhole alone is not inductive: it says nothing of the unit a       *)
(* thread will send next.  While the peer is there, the thread that is     *)
(* within a frame goes on right behind the last unit on the wire, and when *)
(* there is no such thread the wire ends with a frame.                     *)
(***************************************************************************)
EXTENDS GlinkSend, TLAPS

Task == [by : {"none", "Send", "Parts"}, size : Nat, at : Nat \ {0}, here : BOOLEAN]

TypeOK ==
    /\ peer \in {"none", "there", "gone"} /\ tabled \in BOOLEAN /\ mixed \in BOOLEAN
    /\ wire \in Seq(Nat \X Nat)
    /\ task \in [Threads -> Task]

\* Each thread is inside its frame, and what it has not begun it will send to
\* whoever is there.
TasksOK ==
    \A t \in Threads : /\ task[t].at <= FrameEnd(task[t].size)
                       /\ task[t].at = 1 => task[t].here

LastUnit == wire[Len(wire)]

\* A thread that is within a frame continues the wire; without one the wire ends
\* with a frame; and nobody is within a frame to a peer that is yet to come.
Continued ==
    /\ peer = "there" /\ ~mixed =>
        /\ \A t \in Threads : Within(t) =>
                wire # <<>> /\ LastUnit = <<task[t].size, task[t].at - 1>>
        /\ \/ wire = <<>>
           \/ LastUnit[2] = FrameEnd(LastUnit[1])
           \/ \E t \in Threads : Within(t)
    /\ peer = "none" => \A t \in Threads : ~Within(t)

IInv == TypeOK /\ TasksOK /\ Continued /\ FramesWhole

-----------------------------------------------------------------------------
(* Frames and pieces. *)

\* What FramesWhole says of one unit.
Follows(w, i) ==
    LET before == IF i = 1 THEN <<0, FrameEnd(0)>> ELSE w[i - 1]
    IN IF before[2] = FrameEnd(before[1]) THEN w[i][2] = 1
       ELSE w[i] = <<before[1], before[2] + 1>>

LEMMA FramesWholeIs == FramesWhole <=> (~mixed => \A i \in DOMAIN wire : Follows(wire, i))
    BY DEF FramesWhole, Follows

LEMMA FramesWholeIsNext ==
    FramesWhole' <=> (~mixed' => \A i \in DOMAIN wire' : Follows(wire', i))
    BY DEF FramesWhole, Follows

LEMMA FrameEndIs == \A n \in Nat : FrameEnd(n) = n + 4
    BY DEF FrameEnd, HREAD, BASE

LEMMA FrameEndNat == \A n \in Nat : FrameEnd(n) \in Nat
    BY FrameEndIs

LEMMA FreeIs ==
    Free \in Task /\ Free.at = 1 /\ Free.here = TRUE /\ Free.size = 0
<1>1. Free = [by |-> "none", size |-> 0, at |-> 1, here |-> TRUE]
    BY DEF Free
<1>2. Free \in Task
    BY <1>1 DEF Task
<1>3. Free.at = 1 /\ Free.here = TRUE /\ Free.size = 0
    BY <1>1
<1> QED BY <1>2, <1>3

LEMMA TaskParts ==
    ASSUME NEW k \in Task
    PROVE  k.size \in Nat /\ k.at \in Nat /\ k.at >= 1 /\ k.here \in BOOLEAN
    BY DEF Task

\* What is behind one sequence when another is put behind it.
LEMMA Behind ==
    ASSUME NEW S, NEW w \in Seq(S), NEW s \in Seq(S)
    PROVE  /\ w \o s \in Seq(S) /\ Len(w \o s) = Len(w) + Len(s)
           /\ \A i \in 1 .. Len(w) : (w \o s)[i] = w[i]
           /\ \A i \in 1 .. Len(s) : (w \o s)[Len(w) + i] = s[i]
<1>1. w \o s \in Seq(S) /\ Len(w \o s) = Len(w) + Len(s)
    OBVIOUS
<1>2. \A i \in 1 .. Len(w) : (w \o s)[i] = w[i]
    OBVIOUS
<1>3. \A i \in 1 .. Len(s) : (w \o s)[Len(w) + i] = s[i]
    OBVIOUS
<1> QED BY <1>1, <1>2, <1>3

\* A unit behind one that does not end its frame.
LEMMA NextUnit ==
    ASSUME NEW w \in Seq(Nat \X Nat), NEW i \in 2 .. Len(w),
           w[i - 1][2] # FrameEnd(w[i - 1][1]),
           w[i][1] = w[i - 1][1], w[i][2] = w[i - 1][2] + 1
    PROVE  Follows(w, i)
<1>1. w[i] \in Nat \X Nat
    OBVIOUS
<1>2. w[i] = <<w[i][1], w[i][2]>>
    BY SMTT(30), <1>1
<1>3. w[i] = <<w[i - 1][1], w[i - 1][2] + 1>>
    BY <1>2
<1> QED BY SMTT(30), <1>3 DEF Follows

\* The first unit of a frame behind the last one of another, or in front.
LEMMA FirstUnit ==
    ASSUME NEW w \in Seq(Nat \X Nat), NEW i \in Nat, w[i][2] = 1,
           i # 1 => w[i - 1][2] = FrameEnd(w[i - 1][1])
    PROVE  Follows(w, i)
<1>1. CASE i = 1
    BY <1>1 DEF Follows
<1>2. CASE i # 1
    BY <1>2 DEF Follows
<1> QED BY <1>1, <1>2

\* Units of one frame, in order, behind those that are on the wire: of a new
\* frame behind a whole one, of a frame that is begun behind its last unit.
Continues(w, s, size, at) ==
    /\ at >= 1 /\ at + Len(s) <= FrameEnd(size) + 1
    /\ \A i \in 1 .. Len(s) : s[i] = <<size, at + i - 1>>
    /\ \A i \in DOMAIN w : Follows(w, i)
    /\ at = 1 => Len(w) = 0 \/ w[Len(w)][2] = FrameEnd(w[Len(w)][1])
    /\ at > 1 => Len(w) > 0 /\ w[Len(w)] = <<size, at - 1>>

LEMMA GoOnBehind ==
    ASSUME NEW w \in Seq(Nat \X Nat), NEW s \in Seq(Nat \X Nat),
           NEW size \in Nat, NEW at \in Nat, Continues(w, s, size, at)
    PROVE  \A i \in 1 .. Len(w) + Len(s) : Follows(w \o s, i)
<1> DEFINE L == Len(w)
           k == Len(s)
           v == w \o s
           end == FrameEnd(size)
<1>1. /\ L \in Nat /\ k \in Nat /\ DOMAIN w = 1 .. L /\ end \in Nat
      /\ v \in Seq(Nat \X Nat) /\ Len(v) = L + k
  <2>1. L \in Nat /\ k \in Nat
      OBVIOUS
  <2>2. DOMAIN w = 1 .. L
      OBVIOUS
  <2>3. end \in Nat
      BY FrameEndNat, Zenon
  <2>4. v \in Seq(Nat \X Nat) /\ Len(v) = L + k
      BY Behind
  <2> QED BY <2>1, <2>2, <2>3, <2>4
<1>2. at >= 1 /\ at + k <= end + 1
    BY DEF Continues
<1>3. \A i \in 1 .. L : v[i] = w[i]
    BY Behind
<1>4. \A i \in 1 .. k : v[L + i] = <<size, at + i - 1>>
  <2>1. \A i \in 1 .. k : v[L + i] = s[i]
      BY Behind
  <2> QED BY <2>1 DEF Continues
<1>5. \A i \in 1 .. L : Follows(w, i)
    BY <1>1 DEF Continues
<1>6. /\ at = 1 => L = 0 \/ w[L][2] = FrameEnd(w[L][1])
      /\ at > 1 => L > 0 /\ w[L] = <<size, at - 1>>
    BY DEF Continues
<1> HIDE DEF L, k, v, end
<1>7. ASSUME NEW i \in 1 .. L
      PROVE  Follows(v, i)
  <2>1. Follows(w, i)
      BY <1>5
  <2>2. v[i] = w[i]
      BY <1>3
  <2>3. i # 1 => v[i - 1] = w[i - 1]
      BY <1>1, <1>3
  <2> QED BY SMTT(30), <2>1, <2>2, <2>3 DEF Follows
<1>8. ASSUME NEW j \in Nat, j = L + 1, k >= 1
      PROVE  Follows(v, j)
  <2>1. v[j] = <<size, at>>
    <3>1. 1 \in 1 .. k /\ at + 1 - 1 = at
        BY <1>1, <1>8
    <3> QED BY <1>4, <1>8, <3>1
  <2>2. v[j][1] = size /\ v[j][2] = at
      BY <2>1
  <2>3. j - 1 = L /\ j \in 1 .. Len(v) /\ (L # 0 => L \in 1 .. L)
      BY <1>1, <1>8
  <2>4. L # 0 => v[j - 1] = w[L]
      BY <1>3, <2>3
  <2>5. CASE at = 1
    <3>1. v \in Seq(Nat \X Nat) /\ v[j][2] = 1
        BY <1>1, <2>2, <2>5
    <3>2. j # 1 => v[j - 1][2] = FrameEnd(v[j - 1][1])
        BY <1>1, <1>6, <1>8, <2>4, <2>5
    <3> QED BY <3>1, <3>2, FirstUnit, Zenon
  <2>6. CASE at > 1
    <3>1. L > 0 /\ v[j - 1] = <<size, at - 1>>
        BY <1>6, <2>4, <2>6
    <3>2. v[j - 1][1] = size /\ v[j - 1][2] = at - 1
        BY <3>1
    <3>3. at - 1 # FrameEnd(size) /\ at = at - 1 + 1 /\ j \in 2 .. Len(v)
        BY <1>1, <1>2, <1>8, <2>3, <3>1 DEF end
    <3>4. /\ v \in Seq(Nat \X Nat) /\ v[j - 1][2] # FrameEnd(v[j - 1][1])
          /\ v[j][1] = v[j - 1][1] /\ v[j][2] = v[j - 1][2] + 1
        BY <1>1, <2>2, <3>2, <3>3
    <3> QED BY <3>3, <3>4, NextUnit, Zenon
  <2> QED BY <1>2, <2>5, <2>6
<1>9. ASSUME NEW j \in L + 2 .. L + k
      PROVE  Follows(v, j)
  <2>1. PICK i \in 2 .. k : j = L + i
    <3>1. j - L \in 2 .. k /\ j = L + (j - L)
        BY <1>1
    <3> QED BY <3>1
  <2>2. /\ i \in 1 .. k /\ i - 1 \in 1 .. k /\ j \in 2 .. Len(v)
        /\ j - 1 = L + (i - 1) /\ at + (i - 1) - 1 = at + i - 2
      BY <1>1, <2>1
  <2>3. v[j] = <<size, at + i - 1>> /\ v[j - 1] = <<size, at + i - 2>>
      BY <1>4, <2>1, <2>2
  <2>4. /\ v[j - 1][1] = size /\ v[j - 1][2] = at + i - 2
        /\ v[j][1] = size /\ v[j][2] = at + i - 1
      BY <2>3
  <2>5. at + i - 2 # FrameEnd(size) /\ at + i - 1 = at + i - 2 + 1
      BY <1>1, <1>2 DEF end
  <2>6. /\ v \in Seq(Nat \X Nat) /\ v[j - 1][2] # FrameEnd(v[j - 1][1])
        /\ v[j][1] = v[j - 1][1] /\ v[j][2] = v[j - 1][2] + 1
      BY <1>1, <2>4, <2>5
  <2> QED BY <2>2, <2>6, NextUnit, Zenon
<1>10. ASSUME NEW j \in 1 .. L + k
       PROVE  Follows(v, j)
  <2>1. j \in 1 .. L \/ (j \in Nat /\ j = L + 1 /\ k >= 1) \/ j \in L + 2 .. L + k
      BY <1>1
  <2> QED BY <1>7, <1>8, <1>9, <2>1
<1> QED BY <1>10 DEF L, k, v

\* The piece ends in the frame, behind the unit that is next or with it.
LEMMA PieceInFrame ==
    ASSUME NEW t \in Task, t.at <= FrameEnd(t.size)
    PROVE  PieceEnd(t) \in t.at .. FrameEnd(t.size)
<1>1. /\ t.size \in Nat /\ t.at \in Nat /\ t.at >= 1 /\ t.at <= t.size + 4
      /\ FrameEnd(t.size) = t.size + 4
    BY FrameEndIs DEF Task
<1>2. t.size \div 2 \in Nat /\ t.size \div 2 <= t.size
    BY <1>1
<1> DEFINE half == t.size \div 2
<1>3. PieceEnd(t) =
        CASE t.at <= 1 -> 1
          [] t.at \in 2 .. 3 -> 3
          [] t.at \in 4 .. 3 + t.size ->
                IF t.by = "Parts" /\ t.at <= 3 + half THEN 3 + half ELSE 3 + t.size
          [] OTHER -> t.size + 4
    BY <1>1 DEF PieceEnd, HREAD, BASE
<1> HIDE DEF half
<1> QED BY <1>1, <1>2, <1>3 DEF half

\* A thread goes on with a unit of its frame, or is done with the frame.
LEMMA GoesOnFits ==
    ASSUME TypeOK, TasksOK, NEW t \in Threads, NEW n \in Nat, n > 1, NEW here \in BOOLEAN,
           GoesOn(t, n, here)
    PROVE  /\ task' \in [Threads -> Task]
           /\ \A o \in Threads : o # t => task'[o] = task[o]
           /\ n <= FrameEnd(task[t].size) =>
                task'[t] = [task[t] EXCEPT !.at = n, !.here = here]
           /\ n > FrameEnd(task[t].size) => task'[t] = Free
           /\ TasksOK'
<1>1. task \in [Threads -> Task] /\ task[t] \in Task
    BY DEF TypeOK
<1>2. FrameEnd(task[t].size) \in Nat
    BY <1>1, FrameEndIs DEF Task
<1> DEFINE next == IF n > FrameEnd(task[t].size) THEN Free
                   ELSE [task[t] EXCEPT !.at = n, !.here = here]
<1>3. task' = [task EXCEPT ![t] = next]
    BY DEF GoesOn
<1>4. Free \in Task /\ Free.at = 1 /\ Free.here = TRUE /\ Free.size = 0
    BY FreeIs
<1>5. next \in Task
  <2>1. n \in Nat \ {0}
      OBVIOUS
  <2> QED BY <1>1, <1>4, <2>1 DEF Task
<1>6. next.at <= FrameEnd(next.size) /\ (next.at = 1 => next.here)
  <2>1. CASE n > FrameEnd(task[t].size)
      BY <1>4, <2>1, FrameEndIs
  <2>2. CASE n <= FrameEnd(task[t].size)
    <3>1. next = [task[t] EXCEPT !.at = n, !.here = here]
        BY <1>2, <2>2
    <3>2. next.at = n /\ next.size = task[t].size
        BY <1>1, <3>1 DEF Task
    <3> QED BY <2>2, <3>2
  <2> QED BY <1>2, <2>1, <2>2
<1>7. task'[t] = next /\ \A o \in Threads : o # t => task'[o] = task[o]
    BY <1>1, <1>3
<1>8. task' \in [Threads -> Task]
    BY <1>1, <1>3, <1>5
<1>9. TasksOK'
    BY <1>6, <1>7 DEF TasksOK
<1> QED BY <1>2, <1>7, <1>8, <1>9

\* A frame that is begun is no part of what is on the wire.
LEMMA StartSendFits ==
    ASSUME TypeOK, TasksOK, NEW t \in Threads, NEW size \in Nat, StartSend(t, size)
    PROVE  /\ task' \in [Threads -> Task]
           /\ \A o \in Threads : o # t => task'[o] = task[o]
           /\ task[t].at = 1 /\ task'[t].at = 1
           /\ TasksOK'
<1> DEFINE kind == IF size > 1 THEN "Parts" ELSE "Send"
           new == [Free EXCEPT !.by = kind, !.size = size]
<1>1. task[t] = Free /\ task' = [task EXCEPT ![t] = new]
    BY DEF StartSend
<1>2. Free.at = 1 /\ new \in Task /\ new.at = 1 /\ new.here = TRUE /\ new.size = size
  <2>1. kind \in {"none", "Send", "Parts"}
      OBVIOUS
  <2> HIDE DEF kind
  <2>2. new \in Task
      BY <2>1, FreeIs DEF Task
  <2>3. new.at = 1 /\ new.here = TRUE /\ new.size = size
      BY FreeIs DEF Task
  <2> QED BY <2>2, <2>3, FreeIs
<1> HIDE DEF new
<1>3. new.at <= FrameEnd(new.size)
    BY <1>2, FrameEndIs
<1>4. task' \in [Threads -> Task] /\ task'[t] = new
      /\ \A o \in Threads : o # t => task'[o] = task[o]
    BY <1>1, <1>2 DEF TypeOK
<1>5. TasksOK'
    BY <1>2, <1>3, <1>4 DEF TasksOK
<1> QED BY <1>1, <1>2, <1>4, <1>5

-----------------------------------------------------------------------------
(* Every step keeps the invariant. *)

LEMMA InitOK == SendInit => IInv
<1> SUFFICES ASSUME SendInit
             PROVE  IInv
    OBVIOUS
<1> USE DEF SendInit
<1>1. Free \in Task /\ Free.at = 1 /\ Free.here = TRUE /\ Free.size = 0
    BY FreeIs
<1>2. \A t \in Threads : task[t] = Free
    OBVIOUS
<1>3. TypeOK
  <2>1. wire \in Seq(Nat \X Nat)
      OBVIOUS
  <2>2. task \in [Threads -> Task]
      BY <1>1
  <2> QED BY <2>1, <2>2 DEF TypeOK
<1>4. TasksOK
  <2>1. 1 <= FrameEnd(0)
      BY FrameEndIs
  <2> QED BY <1>1, <1>2, <2>1 DEF TasksOK
<1>5. Continued
    BY <1>1 DEF Continued, Within
<1>6. FramesWhole
    BY DEF FramesWhole
<1> QED BY <1>3, <1>4, <1>5, <1>6 DEF IInv

\* Nothing has gone out yet: answers, commands and the heartbeat.
LEMMA StartOK == IInv /\ (Answer \/ ThreadConnectCU) => IInv'
<1> SUFFICES ASSUME IInv, NEW t \in Threads, NEW size \in Nat, StartSend(t, size),
                    UNCHANGED <<peer, tabled, wire, mixed>>
             PROVE  IInv'
  <2>1. Sizes \subseteq Nat /\ 0 \in Nat
      BY SendAssumption
  <2> QED BY <2>1 DEF Answer, ThreadConnectCU, Threads
<1>1. /\ task' \in [Threads -> Task]
      /\ \A o \in Threads : o # t => task'[o] = task[o]
      /\ task[t].at = 1 /\ task'[t].at = 1
      /\ TasksOK'
    BY StartSendFits DEF IInv
<1>2. \A o \in Threads : /\ Within(o)' <=> Within(o)
                         /\ Within(o) => task'[o] = task[o]
    BY <1>1 DEF Within
<1>3. TypeOK'
    BY <1>1 DEF IInv, TypeOK
<1>4. Continued'
  <2>1. Continued /\ LastUnit' = LastUnit
      BY DEF IInv, LastUnit
  <2> QED BY <1>2, <2>1 DEF Continued
<1>5. FramesWhole'
    BY DEF IInv, FramesWhole
<1> QED BY <1>1, <1>3, <1>4, <1>5 DEF IInv

\* send() takes units of a piece: they stand behind the last unit of the same
\* frame, or behind a whole frame.
LEMMA UnitsOK == \A t \in Threads : IInv /\ SendUnits(t) => IInv'
<1> SUFFICES ASSUME IInv, NEW t \in Threads, SendUnits(t)
             PROVE  IInv'
    OBVIOUS
<1>1. /\ TypeOK /\ TasksOK /\ task[t] \in Task /\ peer = "there"
      /\ wire \in Seq(Nat \X Nat) /\ task \in [Threads -> Task]
      /\ UNCHANGED <<peer, tabled>>
    BY DEF IInv, TypeOK, SendUnits
<1> DEFINE size == task[t].size
           at == task[t].at
<1>2. /\ size \in Nat /\ at \in Nat /\ at >= 1 /\ at <= FrameEnd(size)
      /\ FrameEnd(size) \in Nat /\ task[t].here \in BOOLEAN
  <2>1. size \in Nat /\ at \in Nat /\ at >= 1 /\ task[t].here \in BOOLEAN
      BY <1>1, TaskParts
  <2>2. at <= FrameEnd(size)
      BY <1>1 DEF TasksOK
  <2> HIDE DEF size, at
  <2>3. FrameEnd(size) \in Nat
      BY <2>1, FrameEndIs
  <2> QED BY <2>1, <2>2, <2>3
<1>3. PICK n \in 1 .. PieceEnd(task[t]) - at + 1 :
        Took(t, n) /\ GoesOn(t, at + n, task[t].here)
    BY DEF SendUnits, glink_SendSerial
<1>4. n \in Nat /\ n >= 1 /\ at + n <= FrameEnd(size) + 1
  <2>1. PieceEnd(task[t]) \in at .. FrameEnd(size)
      BY <1>1, <1>2, PieceInFrame
  <2> QED BY <1>2, <2>1
<1>5. /\ task' \in [Threads -> Task]
      /\ \A o \in Threads : o # t => task'[o] = task[o]
      /\ at + n <= FrameEnd(size) => task'[t] = [task[t] EXCEPT !.at = at + n]
      /\ at + n > FrameEnd(size) => task'[t] = Free
      /\ TasksOK'
  <2>1. at + n \in Nat /\ at + n > 1
      BY <1>2, <1>4
  <2>2. /\ task' \in [Threads -> Task]
        /\ \A o \in Threads : o # t => task'[o] = task[o]
        /\ at + n <= FrameEnd(task[t].size) =>
             task'[t] = [task[t] EXCEPT !.at = at + n, !.here = task[t].here]
        /\ at + n > FrameEnd(task[t].size) => task'[t] = Free
        /\ TasksOK'
      BY <1>1, <1>2, <1>3, <2>1, GoesOnFits
  <2>3. [task[t] EXCEPT !.at = at + n, !.here = task[t].here] = [task[t] EXCEPT !.at = at + n]
      BY <1>1 DEF Task
  <2> QED BY <2>2, <2>3
<1> DEFINE sent == [i \in 1 .. n |-> <<size, at + i - 1>>]
<1>6. mixed' = (mixed \/ Mixes(t)) /\ wire' = IF mixed' THEN <<>> ELSE wire \o sent
    BY <1>3 DEF Took
<1>7. sent \in Seq(Nat \X Nat) /\ Len(sent) = n /\ \A i \in 1 .. n : sent[i] = <<size, at + i - 1>>
    BY <1>2, <1>4
<1> HIDE DEF size, at, sent
<1>8. TypeOK'
  <2>1. mixed' \in BOOLEAN
      BY <1>1, <1>6 DEF TypeOK, Mixes
  <2>2. wire' \in Seq(Nat \X Nat)
      BY <1>1, <1>6, <1>7
  <2> QED BY <1>1, <1>5, <2>1, <2>2 DEF TypeOK
<1>9. CASE mixed'
  <2>1. Continued'
      BY <1>1, <1>9 DEF Continued
  <2>2. FramesWhole'
      BY <1>9 DEF FramesWhole
  <2> QED BY <1>5, <1>8, <2>1, <2>2 DEF IInv
<1>10. CASE ~mixed'
  <2>1. /\ ~mixed /\ \A o \in Threads \ {t} : ~Within(o)
        /\ at > 1 => task[t].here
      BY <1>6, <1>10 DEF Mixes, at
  <2>2. task[t].here
      BY <1>1, <1>2, <2>1 DEF TasksOK, at
  <2> DEFINE L == Len(wire)
  <2>3. L \in Nat /\ DOMAIN wire = 1 .. L
      BY <1>1
  <2>4. /\ DOMAIN wire' = 1 .. L + n /\ Len(wire') = L + n
        /\ \A i \in 1 .. L : wire'[i] = wire[i]
        /\ \A i \in 1 .. n : wire'[L + i] = <<size, at + i - 1>>
    <3>1. wire' = wire \o sent
        BY <1>6, <1>10
    <3> HIDE DEF L
    <3>2. Len(wire \o sent) = L + n
        BY <1>1, <1>7, Behind DEF L
    <3>3. \A i \in 1 .. L : (wire \o sent)[i] = wire[i]
        BY <1>1, <1>7, Behind DEF L
    <3>4. \A i \in 1 .. n : (wire \o sent)[L + i] = <<size, at + i - 1>>
        BY <1>1, <1>7, Behind DEF L
    <3>5. wire' \in Seq(Nat \X Nat)
        BY <1>8 DEF TypeOK
    <3>6. Len(wire') = L + n /\ DOMAIN wire' = 1 .. L + n
        BY <3>1, <3>2, <3>5
    <3> QED BY <3>1, <3>3, <3>4, <3>6
  <2>5. at > 1 => L > 0 /\ wire[L] = <<size, at - 1>>
    <3>1. Within(t) => wire # <<>> /\ LastUnit = <<size, at - 1>>
        BY <1>1, <2>1 DEF IInv, Continued, size, at
    <3> QED BY <1>1, <2>2, <2>3, <3>1 DEF Within, at, LastUnit
  <2>6. at = 1 => L = 0 \/ wire[L][2] = FrameEnd(wire[L][1])
    <3>1. at = 1 => \A o \in Threads : ~Within(o)
        BY <2>1 DEF Within, at
    <3> QED BY <1>1, <2>1, <2>3, <3>1 DEF IInv, Continued, LastUnit
  <2> HIDE DEF L
  <2>7. FramesWhole'
    <3>1. \A i \in DOMAIN wire : Follows(wire, i)
        BY <2>1, FramesWholeIs DEF IInv
    <3>2. /\ at = 1 => Len(wire) = 0 \/ wire[Len(wire)][2] = FrameEnd(wire[Len(wire)][1])
          /\ at > 1 => Len(wire) > 0 /\ wire[Len(wire)] = <<size, at - 1>>
        BY <2>5, <2>6 DEF L
    <3>3. at + Len(sent) <= FrameEnd(size) + 1
        BY <1>4, <1>7
    <3>4. \A i \in 1 .. Len(sent) : sent[i] = <<size, at + i - 1>>
        BY <1>7
    <3>5. \A i \in 1 .. Len(wire) + Len(sent) : Follows(wire \o sent, i)
      <4>1. Continues(wire, sent, size, at)
          BY <1>2, <3>1, <3>2, <3>3, <3>4 DEF Continues
      <4> QED BY <1>1, <1>2, <1>7, <4>1, GoOnBehind
    <3>6. \A i \in DOMAIN wire' : Follows(wire', i)
        BY <1>6, <1>7, <1>10, <2>4, <3>5 DEF L
    <3> QED BY <3>6, FramesWholeIsNext
  <2>8. Continued'
    <3>1. wire' # <<>> /\ LastUnit' = <<size, at + n - 1>>
        BY SMTT(30), <1>4, <2>3, <2>4 DEF LastUnit
    <3>2. \A o \in Threads : o # t => ~Within(o)'
        BY <1>5, <2>1 DEF Within
    <3>3. CASE at + n <= FrameEnd(size)
      <4>1. task'[t].size = size /\ task'[t].at = at + n /\ task'[t].here
        <5>1. task'[t] = [task[t] EXCEPT !.at = at + n]
            BY <1>5, <3>3
        <5>2. /\ [task[t] EXCEPT !.at = at + n].at = at + n
              /\ [task[t] EXCEPT !.at = at + n].size = task[t].size
              /\ [task[t] EXCEPT !.at = at + n].here = task[t].here
            BY <1>1 DEF Task
        <5> QED BY <2>2, <5>1, <5>2 DEF size
      <4>2. Within(t)'
          BY <1>2, <1>4, <4>1 DEF Within
      <4>3. ASSUME NEW o \in Threads, Within(o)'
            PROVE  wire' # <<>> /\ LastUnit' = <<task'[o].size, task'[o].at - 1>>
        <5>1. o = t
            BY <3>2, <4>3
        <5>2. task'[o].size = size /\ task'[o].at - 1 = at + n - 1
            BY <1>2, <1>4, <4>1, <5>1
        <5> QED BY <3>1, <5>2
      <4> QED BY <1>1, <4>2, <4>3 DEF Continued
    <3>4. CASE at + n > FrameEnd(size)
      <4>1. ~Within(t)'
          BY <1>5, <3>4 DEF Within, Free
      <4>2. at + n - 1 = FrameEnd(size)
          BY <1>2, <1>4, <3>4
      <4> QED BY <1>1, <3>1, <3>2, <4>1, <4>2 DEF Continued
    <3> QED BY <1>2, <1>4, <3>3, <3>4
  <2> QED BY <1>5, <1>8, <2>7, <2>8 DEF IInv
<1> QED BY <1>9, <1>10

\* A part that fails, or a frame that is given up: nobody is there to get it.
LEMMA SendFailsOK == \A t \in Threads : IInv /\ SendFails(t) => IInv'
<1> SUFFICES ASSUME IInv, NEW t \in Threads, SendFails(t)
             PROVE  IInv'
    OBVIOUS
<1>1. /\ TypeOK /\ TasksOK /\ task[t] \in Task /\ peer # "there"
      /\ task \in [Threads -> Task] /\ UNCHANGED <<peer, tabled, wire, mixed>>
    BY DEF IInv, TypeOK, SendFails
<1>2. /\ task' \in [Threads -> Task] /\ TasksOK'
      /\ \A o \in Threads : o # t => task'[o] = task[o]
      /\ task'[t].at > 1 => ~task'[t].here
  <2>1. CASE task[t].by = "Send"
    <3>1. task' = [task EXCEPT ![t] = Free]
        BY <2>1 DEF SendFails
    <3>2. task'[t] = Free /\ \A o \in Threads : o # t => task'[o] = task[o]
        BY <1>1, <3>1
    <3>3. task' \in [Threads -> Task]
        BY <1>1, <3>1, FreeIs
    <3>4. TasksOK'
      <4>1. Free.at <= FrameEnd(Free.size)
          BY FreeIs, FrameEndIs
      <4> QED BY <1>1, <3>2, <4>1, FreeIs DEF TasksOK
    <3>5. ~(task'[t].at > 1)
        BY <3>2, FreeIs
    <3> QED BY <3>2, <3>3, <3>4, <3>5
  <2>2. CASE task[t].by # "Send"
    <3> DEFINE next == IF task[t].at <= HREAD + BASE THEN HREAD + BASE + 1
                       ELSE PieceEnd(task[t]) + 1
    <3>1. GoesOn(t, next, FALSE)
        BY <2>2 DEF SendFails
    <3>2. next \in Nat /\ next > 1
      <4>1. PieceEnd(task[t]) \in task[t].at .. FrameEnd(task[t].size)
          BY <1>1, PieceInFrame DEF TasksOK
      <4>2. /\ task[t].at \in Nat /\ task[t].at >= 1
            /\ FrameEnd(task[t].size) \in Nat
          BY <1>1, TaskParts, FrameEndNat
      <4>3. PieceEnd(task[t]) \in Nat /\ PieceEnd(task[t]) >= 1
          BY <4>1, <4>2
      <4>4. HREAD + BASE + 1 = 4
          BY DEF HREAD, BASE
      <4> QED BY <4>3, <4>4
    <3> HIDE DEF next
    <3>3. /\ task' \in [Threads -> Task]
          /\ \A o \in Threads : o # t => task'[o] = task[o]
          /\ next <= FrameEnd(task[t].size) =>
               task'[t] = [task[t] EXCEPT !.at = next, !.here = FALSE]
          /\ next > FrameEnd(task[t].size) => task'[t] = Free
          /\ TasksOK'
        BY <1>1, <3>1, <3>2, GoesOnFits
    <3>4. [task[t] EXCEPT !.at = next, !.here = FALSE].here = FALSE
        BY <1>1 DEF Task
    <3>5. task'[t] = Free \/ task'[t].here = FALSE
      <4>1. FrameEnd(task[t].size) \in Nat
          BY <1>1, TaskParts, FrameEndNat
      <4>2. next <= FrameEnd(task[t].size) \/ next > FrameEnd(task[t].size)
          BY <3>2, <4>1
      <4> QED BY <3>3, <3>4, <4>2
    <3> QED BY <3>3, <3>5, FreeIs
  <2> QED BY <2>1, <2>2
<1>3. TypeOK'
    BY <1>1, <1>2 DEF TypeOK
<1>4. Continued'
  <2>1. Within(t)' <=> FALSE
      BY <1>2 DEF Within
  <2>2. \A o \in Threads : o # t => (Within(o)' <=> Within(o))
      BY <1>2 DEF Within
  <2>3. peer = "none" => \A o \in Threads : ~Within(o)
      BY DEF IInv, Continued
  <2> QED BY <1>1, <2>1, <2>2, <2>3 DEF Continued
<1>5. FramesWhole'
    BY <1>1 DEF IInv, FramesWhole
<1> QED BY <1>2, <1>3, <1>4, <1>5 DEF IInv

-----------------------------------------------------------------------------
(* The peers come and go. *)

\* Nobody is within a frame to a peer that has just come.
LEMMA AcceptOK == IInv /\ Accept => IInv'
<1> SUFFICES ASSUME IInv, Accept
             PROVE  IInv'
    OBVIOUS
<1>1. /\ peer = "none" /\ peer' = "there" /\ wire' = <<>> /\ mixed' = FALSE
      /\ tabled' = tabled /\ task' = task
    BY DEF Accept
<1>2. TypeOK'
  <2>1. wire' \in Seq(Nat \X Nat)
      BY <1>1
  <2> QED BY <1>1, <2>1 DEF IInv, TypeOK
<1>3. TasksOK'
    BY <1>1 DEF IInv, TasksOK
<1>4. Continued'
  <2>1. \A t \in Threads : ~Within(t)'
      BY <1>1 DEF IInv, Continued, Within
  <2> QED BY <1>1, <2>1 DEF Continued
<1>5. FramesWhole'
    BY <1>1 DEF FramesWhole
<1> QED BY <1>2, <1>3, <1>4, <1>5 DEF IInv

LEMMA AddManageOK == IInv /\ tms_AddManage => IInv'
<1> SUFFICES ASSUME IInv, tms_AddManage
             PROVE  IInv'
    OBVIOUS
<1>1. tabled' = TRUE /\ UNCHANGED <<peer, wire, mixed, task>>
    BY DEF tms_AddManage
<1>2. TypeOK'
    BY <1>1 DEF IInv, TypeOK
<1>3. TasksOK'
    BY <1>1 DEF IInv, TasksOK
<1>4. Continued'
    BY <1>1 DEF IInv, Continued, Within, LastUnit
<1>5. FramesWhole'
    BY <1>1 DEF IInv, FramesWhole
<1> QED BY <1>2, <1>3, <1>4, <1>5 DEF IInv

LEMMA PeerClosesOK == IInv /\ PeerCloses => IInv'
<1> SUFFICES ASSUME IInv, PeerCloses
             PROVE  IInv'
    OBVIOUS
<1>1. peer' = "gone" /\ UNCHANGED <<tabled, wire, mixed, task>>
    BY DEF PeerCloses
<1>2. TypeOK'
    BY <1>1 DEF IInv, TypeOK
<1>3. TasksOK'
    BY <1>1 DEF IInv, TasksOK
<1>4. Continued'
    BY <1>1 DEF Continued
<1>5. FramesWhole'
    BY <1>1 DEF IInv, FramesWhole
<1> QED BY <1>2, <1>3, <1>4, <1>5 DEF IInv

\* What was begun for the peer that is gone is behind nobody's frame.
LEMMA RemoveCloseOK == IInv /\ RemoveClose => IInv'
<1> SUFFICES ASSUME IInv, RemoveClose
             PROVE  IInv'
    OBVIOUS
<1>1. /\ peer' = "none" /\ tabled' = FALSE /\ UNCHANGED <<wire, mixed>>
      /\ task' = [t \in Threads |-> IF task[t].at = 1 THEN task[t]
                                    ELSE [task[t] EXCEPT !.here = FALSE]]
    BY DEF RemoveClose
<1>2. task \in [Threads -> Task] /\ TasksOK
    BY DEF IInv, TypeOK
<1>3. ASSUME NEW t \in Threads
      PROVE  /\ task'[t] \in Task
             /\ task'[t].at <= FrameEnd(task'[t].size)
             /\ task'[t].at = 1 => task'[t].here
             /\ ~Within(t)'
  <2>1. task[t] \in Task /\ task[t].at \in Nat /\ task[t].at >= 1
      BY <1>2, TaskParts
  <2>2. task[t].at <= FrameEnd(task[t].size) /\ (task[t].at = 1 => task[t].here)
      BY <1>2 DEF TasksOK
  <2>3. CASE task[t].at = 1
    <3>1. task'[t] = task[t]
        BY <1>1, <2>3
    <3>2. ~Within(t)'
        BY <2>3, <3>1 DEF Within
    <3> QED BY <2>1, <2>2, <3>1, <3>2
  <2>4. CASE task[t].at # 1
    <3> DEFINE lost == [task[t] EXCEPT !.here = FALSE]
    <3>1. task'[t] = lost
        BY <1>1, <2>4
    <3>2. lost \in Task /\ lost.at = task[t].at /\ lost.size = task[t].size /\ lost.here = FALSE
        BY <2>1 DEF Task
    <3> HIDE DEF lost
    <3>3. ~Within(t)'
        BY <3>1, <3>2 DEF Within
    <3> QED BY <2>2, <2>4, <3>1, <3>2, <3>3
  <2> QED BY <2>3, <2>4
<1>4. TypeOK'
  <2>1. task' \in [Threads -> Task]
      BY <1>1, <1>3
  <2> QED BY <1>1, <2>1 DEF IInv, TypeOK
<1>5. TasksOK'
    BY <1>3 DEF TasksOK
<1>6. Continued'
    BY <1>1, <1>3 DEF Continued
<1>7. FramesWhole'
    BY <1>1 DEF IInv, FramesWhole
<1> QED BY <1>4, <1>5, <1>6, <1>7 DEF IInv

\* What is left behind a whole frame goes on as before.
Whole(w) == \A i \in 1 .. Len(w) : Follows(w, i)

LEMMA RestIs ==
    ASSUME NEW S, NEW w \in Seq(S), NEW n \in 1 .. Len(w)
    PROVE  /\ SubSeq(w, n + 1, Len(w)) \in Seq(S)
           /\ Len(SubSeq(w, n + 1, Len(w))) = Len(w) - n
           /\ \A i \in 1 .. Len(w) - n : SubSeq(w, n + 1, Len(w))[i] = w[n + i]
<1>1. Len(w) \in Nat /\ n \in Nat
    OBVIOUS
<1>2. SubSeq(w, n + 1, Len(w)) \in Seq(S)
    OBVIOUS
<1>3. Len(SubSeq(w, n + 1, Len(w))) = Len(w) - n
    BY <1>1
<1>4. \A i \in 1 .. Len(w) - n : SubSeq(w, n + 1, Len(w))[i] = w[n + i]
    BY <1>1
<1> QED BY <1>2, <1>3, <1>4

LEMMA RestFollows ==
    ASSUME NEW w \in Seq(Nat \X Nat), NEW n \in 1 .. Len(w),
           w[n][2] = FrameEnd(w[n][1]), Whole(w),
           NEW v, v = SubSeq(w, n + 1, Len(w))
    PROVE  /\ v \in Seq(Nat \X Nat) /\ Len(v) = Len(w) - n
           /\ \A i \in 1 .. Len(v) : v[i] = w[n + i]
           /\ Whole(v)
<1> DEFINE L == Len(w)
<1>1. v \in Seq(Nat \X Nat) /\ Len(v) = L - n /\ L \in Nat /\ n \in Nat /\ n <= L
  <2>1. L \in Nat /\ n \in Nat /\ n <= L
      OBVIOUS
  <2> QED BY <2>1, RestIs
<1>2. \A i \in 1 .. Len(v) : v[i] = w[n + i]
    BY RestIs
<1>3. \A i \in 1 .. L : Follows(w, i)
    BY DEF Whole
<1> HIDE DEF L
<1>4. ASSUME NEW i \in 1 .. Len(v)
      PROVE  Follows(v, i)
  <2>1. i \in Nat /\ n + i \in 1 .. L /\ n + i # 1 /\ n + i - 1 = n + (i - 1)
      BY <1>1
  <2>2. PICK j \in 1 .. L : j = n + i
      BY <2>1
  <2>3. Follows(w, j) /\ v[i] = w[j] /\ j # 1
      BY <1>2, <1>3, <2>1, <2>2
  <2>4. CASE i = 1
    <3>1. j - 1 = n
        BY <1>1, <2>2, <2>4
    <3>2. w[j][2] = 1
        BY <2>3, <3>1 DEF Follows
    <3> QED BY <1>1, <2>1, <2>3, <2>4, <3>2, FirstUnit, Zenon
  <2>5. CASE i # 1
    <3>1. n + i - 1 = n + (i - 1) /\ i - 1 \in 1 .. Len(v)
      <4>1. Len(v) \in Nat
          BY <1>1
      <4>2. \A m \in Nat : \A h \in 1 .. m : h # 1 => h - 1 \in 1 .. m
          OBVIOUS
      <4>3. i - 1 \in 1 .. Len(v)
          BY <2>5, <4>1, <4>2, Zenon
      <4> QED BY <2>1, <4>3
    <3>2. v[i - 1] = w[j - 1]
        BY <1>2, <2>2, <3>1
    <3> QED BY <2>3, <2>5, <3>2 DEF Follows
  <2> QED BY <2>4, <2>5
<1> QED BY <1>1, <1>2, <1>4 DEF Whole, L

\* A thread that is within a frame goes on behind units that no whole frame ends with.
LEMMA PeerReadsOK == IInv /\ PeerReads => IInv'
<1> SUFFICES ASSUME IInv, PeerReads
             PROVE  IInv'
    OBVIOUS
<1> DEFINE q == wire[1][1]
           L == Len(wire)
           n == FrameEnd(q)
<1>1. /\ TypeOK /\ TasksOK /\ wire \in Seq(Nat \X Nat) /\ wire # <<>>
      /\ task \in [Threads -> Task]
      /\ peer = "there" /\ L >= n /\ wire[n] = <<q, n>> /\ wire' = SubSeq(wire, n + 1, L)
      /\ UNCHANGED <<peer, tabled, mixed, task>>
    BY DEF IInv, TypeOK, PeerReads
<1>2. L \in Nat /\ q \in Nat /\ n \in 1 .. L
  <2>1. L \in Nat /\ L >= 1
      BY SMTT(30), <1>1
  <2>2. q \in Nat
    <3>1. wire[1] \in Nat \X Nat
        BY <1>1, <2>1
    <3> QED BY <3>1
  <2>3. n = q + 4
      BY <2>2, FrameEndIs
  <2> QED BY SMTT(30), <1>1, <2>1, <2>2, <2>3
<1> HIDE DEF q, L, n
<1>3. wire[n][1] = q /\ wire[n][2] = FrameEnd(q)
    BY <1>1 DEF n
<1>4. TypeOK'
  <2>1. wire' \in Seq(Nat \X Nat)
      BY <1>1, <1>2 DEF L
  <2> QED BY <1>1, <2>1 DEF TypeOK
<1>5. TasksOK'
    BY <1>1 DEF TasksOK
<1>6. CASE mixed
  <2>1. Continued' /\ FramesWhole'
      BY <1>1, <1>6 DEF Continued, FramesWhole
  <2> QED BY <1>4, <1>5, <2>1 DEF IInv
<1>7. CASE ~mixed
  <2>1. PICK v : v = SubSeq(wire, n + 1, L)
      OBVIOUS
  <2>2. Whole(wire)
    <3>1. \A i \in DOMAIN wire : Follows(wire, i)
        BY <1>7, FramesWholeIs DEF IInv
    <3> QED BY <1>1, <3>1 DEF Whole
  <2>3. /\ v \in Seq(Nat \X Nat) /\ Len(v) = L - n
        /\ \A i \in 1 .. Len(v) : v[i] = wire[n + i]
        /\ Whole(v)
      BY ZenonT(60), <1>1, <1>2, <1>3, <2>1, <2>2, RestFollows DEF L
  <2>4. wire' = v
      BY <1>1, <2>1
  <2>5. FramesWhole'
    <3>1. \A i \in DOMAIN v : Follows(v, i)
        BY <2>3 DEF Whole
    <3>2. \A i \in DOMAIN wire' : Follows(wire', i)
        BY <2>4, <3>1
    <3> QED BY <3>2, FramesWholeIsNext
  <2>6. v # <<>> => wire' # <<>> /\ LastUnit' = LastUnit
    <3>1. v # <<>> => Len(v) \in 1 .. Len(v) /\ n + Len(v) = L
        BY <1>2, <2>3
    <3>2. v # <<>> => v[Len(v)] = wire[L]
        BY <2>3, <3>1
    <3> QED BY <2>4, <3>2 DEF LastUnit, L
  <2>7. v = <<>> => LastUnit = <<q, n>>
    <3>1. v = <<>> => n = L
        BY <1>2, <2>3
    <3> QED BY <1>1, <3>1 DEF LastUnit, L
  <2>8. ASSUME NEW t \in Threads, Within(t)
        PROVE  v # <<>> /\ LastUnit = <<task[t].size, task[t].at - 1>>
    <3>1. LastUnit = <<task[t].size, task[t].at - 1>>
        BY <1>1, <1>7, <2>8 DEF IInv, Continued
    <3>2. task[t].at \in Nat /\ task[t].size \in Nat /\ task[t].at <= FrameEnd(task[t].size)
        BY <1>1, TaskParts DEF TasksOK
    <3>3. ASSUME v = <<>>
          PROVE  FALSE
      <4>1. <<q, n>> = <<task[t].size, task[t].at - 1>>
          BY <2>7, <3>1, <3>3
      <4>2. q = task[t].size /\ n = task[t].at - 1
          BY <4>1
      <4>3. n = FrameEnd(task[t].size)
          BY <4>2 DEF n
      <4> QED BY <1>2, <3>2, <4>2, <4>3
    <3> QED BY <3>1, <3>3
  <2>9. Continued'
    <3>1. \A t \in Threads : (Within(t)' <=> Within(t)) /\ task'[t] = task[t]
        BY <1>1 DEF Within
    <3>2. \A t \in Threads : Within(t) =>
            wire' # <<>> /\ LastUnit' = <<task'[t].size, task'[t].at - 1>>
        BY <2>6, <2>8, <3>1
    <3>3. \/ wire' = <<>>
          \/ LastUnit'[2] = FrameEnd(LastUnit'[1])
          \/ \E t \in Threads : Within(t)'
      <4>1. \/ LastUnit[2] = FrameEnd(LastUnit[1])
            \/ \E t \in Threads : Within(t)
          BY <1>1, <1>7 DEF IInv, Continued
      <4> QED BY <2>4, <2>6, <3>1, <4>1
    <3> QED BY <1>1, <3>1, <3>2, <3>3 DEF Continued
  <2> QED BY <1>4, <1>5, <2>5, <2>9 DEF IInv
<1> QED BY <1>6, <1>7

-----------------------------------------------------------------------------

LEMMA StutterOK == IInv /\ UNCHANGED sendVars => IInv'
<1> SUFFICES ASSUME IInv, UNCHANGED sendVars
             PROVE  IInv'
    OBVIOUS
<1>1. UNCHANGED <<peer, tabled, wire, mixed, task>>
    BY DEF sendVars
<1>2. TypeOK' /\ TasksOK'
    BY <1>1 DEF IInv, TypeOK, TasksOK
<1>3. Continued'
    BY <1>1 DEF IInv, Continued, Within, LastUnit
<1>4. FramesWhole'
    BY <1>1 DEF IInv, FramesWhole
<1> QED BY <1>2, <1>3, <1>4 DEF IInv

\* The inductive invariant holds of every behaviour of the senders and the peers.
THEOREM Invariance == SendSpec => []IInv
<1>1. SendInit => IInv
    BY InitOK
<1>2. IInv /\ [SendNext]_sendVars => IInv'
    BY StartOK, UnitsOK, SendFailsOK, AcceptOK, AddManageOK, PeerClosesOK, RemoveCloseOK,
       PeerReadsOK, StutterOK DEF SendNext
<1> QED BY <1>1, <1>2, PTL DEF SendSpec

\* Whatever send() takes at a time, however often the descriptor fails or changes
\* hands, and however long the frames are: a peer reads frame behind frame, each
\* complete and in order, unless the threads got into each other's frames
\* (glink_SendSerial, glink_Send, ThreadConnectCU).
THEOREM FramesAreWhole == SendSpec => []FramesWhole
<1>1. IInv => FramesWhole
    BY DEF IInv
<1> QED BY <1>1, Invariance, PTL
=============================================================================
