------------------------- MODULE TmsDispatchProofs -------------------------
(***************************************************************************)
(* Proofs about TmsDispatch, for every set of frames, peers and places:    *)
(* what is passed on is the frame as it arrived, a device or a manager     *)
(* gets it once, and the acknowledgement comes first.                      *)
(*                                                                         *)
(* The argument follows one frame.  What is left to do with it is always   *)
(* the rest of a list in one order (Rank), so a step that is at the head   *)
(* of the list has everything before it behind it, and nothing twice; the  *)
(* analyser, of which the proofs assume nothing, comes after the copies;   *)
(* and a frame that was given new addresses is refused a second time.      *)
(***************************************************************************)
EXTENDS TmsDispatch, FiniteSetTheorems, CommonLemmas, TLAPS

-----------------------------------------------------------------------------
(* The inductive invariant. *)

Rank(step) == CASE step = "ack" -> 1     [] step = "device" -> 2 [] step = "manager" -> 3
                [] step = "analyse" -> 4 [] step = "copy" -> 5   [] OTHER -> 6
Plan(cmd) == {step \in {"ack", "device", "manager", "analyse", "copy", "release"} :
  /\ step = "device" => cmd \in ToDevice
  /\ step = "manager" => cmd \in ToManager
  /\ step = "analyse" => cmd \notin Ignored
  /\ step = "copy" => cmd \notin OnlyAnalysed \cup Ignored}
Pending(step) == \E i \in DOMAIN todo : todo[i] = step

\* What is left to do is planned, in the order of the ranks, and lacks of the
\* plan only what comes before all of it.
RestOfPlan(steps, plan) ==
  /\ steps \in Seq(plan)
  /\ \A i, j \in DOMAIN steps : i < j => Rank(steps[i]) < Rank(steps[j])
  /\ \A step \in plan : \/ \E i \in DOMAIN steps : steps[i] = step
                        \/ \A i \in DOMAIN steps : Rank(step) < Rank(steps[i])
TodoOK == ~Idle => RestOfPlan(todo, Plan(rx.cmd))

\* The frame is one that its sender sends, and lies in the buffer as it arrived
\* until it has been passed on; when that is done, it is not passed on again.
FrameOK == ~Idle => /\ rx.fd \in Sockets /\ Sends(rx.fd, rx.cmd)
                    /\ Filled(arrived, rx.cmd, Origin[rx.fd])
MemOK ==
  /\ Pending("ack") \/ Pending("device") \/ Pending("manager") => mem = arrived
  /\ Pending("analyse") => IF rx.cmd \notin ToManager THEN mem = arrived
                                                      ELSE Pending("manager") \/ Refused

\* What has been sent because of the frame, in the order of the plan.
IsSeq(s) == s \in Seq({s[i] : i \in DOMAIN s})
AckOK ==
  /\ Idle => \A i \in DOMAIN sent : sent[i].how = "alarm"
  /\ ~Idle =>
       /\ IsSeq(sent)
       /\ Pending("ack") => sent = <<>>
       /\ ~Pending("ack") /\ Origin[rx.fd] = GLINK_DEV_ADDR => sent # <<>>
       /\ \A i \in DOMAIN sent :
            /\ sent[i].how = "ack" <=> i = 1 /\ Origin[rx.fd] = GLINK_DEV_ADDR
            /\ sent[i].how = "ack" => sent[i].about = rx.cmd
            /\ sent[i].how \in {"ack", "tick", "reply", "echo"} => sent[i].fd = rx.fd
PlaceOf(m) == <<CellAt(m, GLINK_OFFSET_DATA).v, CellAt(m, GLINK_OFFSET_DATA + 4).v>>
Only(copies, fd) == \E k \in copies : copies = {k} /\ sent[k].fd = fd
DeviceOK == ~Idle =>
  IF rx.cmd \in ToDevice /\ ~Pending("device") /\ PlaceOf(arrived) \in Locs
       /\ devnet[PlaceOf(arrived)].fd # 0
    THEN Only(Copies("device"), devnet[PlaceOf(arrived)].fd)
    ELSE Copies("device") = {}
Readers == {i \in Slots : /\ manage[i].fd # 0
                          /\ manage[i].addr = CellAt(arrived, HeadAt("dst")).v}
ManagerOK == ~Idle =>
  IF rx.cmd \in ToManager /\ ~Pending("manager") /\ Origin[rx.fd] # GLINK_4412_ADDR
       /\ Readers # {}
    THEN Only(Copies("manager"), manage[First(Readers)].fd)
    ELSE Copies("manager") = {}

\* A slot in use names a manager, by the address that it writes.
ManageOK ==
  /\ manage \in [Slots -> [fd : Sockets \cup {0}, addr : Managers \cup {0}]]
  /\ \A i \in Slots : /\ manage[i].fd = 0 <=> manage[i].addr = 0
                      /\ manage[i].fd # 0 => Origin[manage[i].fd] = manage[i].addr

\* What was reported went to everyone registered, and to nobody twice.
ReachesAll(frame) ==
  /\ \A k \in DOMAIN sent : \E a \in 58 .. 63 : Registered(a) /\ sent[k] = ToEach(frame, a)
  /\ \A a \in 58 .. 63 : Registered(a) => \E k \in DOMAIN sent : sent[k] = ToEach(frame, a)
  /\ \A j, k \in DOMAIN sent : sent[j].fd = sent[k].fd => j = k
ReportOK == Idle /\ sent # <<>> => \E frame \in Reports : ReachesAll(frame)

IInv == /\ TodoOK /\ FrameOK /\ MemOK /\ AckOK /\ DeviceOK /\ ManagerOK /\ ManageOK
        /\ ReportOK /\ ForwardedAsReceived

-----------------------------------------------------------------------------
(* Sequences of what was sent. *)

\* The sequence t is s with e behind it.
Longer(s, t, e) ==
  /\ IsSeq(t) /\ Len(s) \in Nat /\ DOMAIN s = 1 .. Len(s)
  /\ Len(t) = Len(s) + 1 /\ DOMAIN t = 1 .. Len(s) + 1
  /\ \A i \in DOMAIN s : t[i] = s[i]
  /\ t[Len(s) + 1] = e

\* A sequence stays one when something is appended.
LEMMA Appended == ASSUME NEW s, IsSeq(s), NEW e
                  PROVE  Longer(s, Append(s, e), e)
<1> DEFINE S == {s[i] : i \in DOMAIN s}
           t == Append(s, e)
<1>1. s \in Seq(S)
    BY DEF IsSeq
<1> HIDE DEF S
<1>2. s \in Seq(S \cup {e}) /\ Len(s) \in Nat /\ DOMAIN s = 1 .. Len(s)
    BY <1>1
<1>3. /\ t \in Seq(S \cup {e}) /\ Len(t) = Len(s) + 1 /\ t[Len(s) + 1] = e
      /\ \A i \in DOMAIN s : t[i] = s[i]
    BY <1>2
<1>4. DOMAIN t = 1 .. Len(t)
    BY <1>3
<1> HIDE DEF t
<1>5. IsSeq(t)
  <2> DEFINE T == {t[i] : i \in DOMAIN t}
  <2>1. \A i \in 1 .. Len(t) : t[i] \in T
      BY <1>4
  <2> HIDE DEF T
  <2>2. t \in Seq(T)
      BY <1>3, <2>1
  <2> QED BY <2>2 DEF IsSeq, T
<1>6. Longer(s, t, e)
    BY <1>2, <1>3, <1>4, <1>5 DEF Longer
<1> QED BY <1>6 DEF t

\* The empty sequence is one.
LEMMA NothingIsSeq == IsSeq(<<>>)
BY DEF IsSeq

-----------------------------------------------------------------------------
(* What is left to do. *)

\* The rank of a step is a number, and no two steps have the same.
LEMMA RankType == \A step : Rank(step) \in 1 .. 6
BY DEF Rank

\* At a step of the plan everything before it is done, nothing twice, and the
\* rest of the plan without it is again a rest of the plan.
TakesOff(steps, rest, plan, step) ==
  /\ step \in plan /\ steps # <<>>
  /\ RestOfPlan(rest, plan)
  /\ \A s : (\E i \in DOMAIN rest : rest[i] = s)
              <=> (\E i \in DOMAIN steps : steps[i] = s) /\ s # step
  /\ \E i \in DOMAIN steps : steps[i] = step
  /\ \A i \in DOMAIN steps : Rank(step) <= Rank(steps[i])

\* Taking the first step off the rest of a plan leaves the rest of that plan, and
\* the step is not in it again.
LEMMA HeadIsNext ==
    ASSUME NEW steps, NEW plan, RestOfPlan(steps, plan), steps # <<>>
    PROVE  TakesOff(steps, Tail(steps), plan, Head(steps))
<1> DEFINE rest == Tail(steps)
           step == Head(steps)
<1>1. /\ steps \in Seq(plan) /\ Len(steps) \in Nat /\ Len(steps) # 0
      /\ DOMAIN steps = 1 .. Len(steps)
    BY DEF RestOfPlan
<1>2. /\ rest \in Seq(plan) /\ DOMAIN rest = 1 .. Len(steps) - 1
      /\ \A i \in 1 .. Len(steps) - 1 : rest[i] = steps[i + 1]
    BY <1>1
<1>3. step = steps[1] /\ 1 \in DOMAIN steps /\ step \in plan
    BY <1>1
<1> HIDE DEF rest, step
<1>4. \A i, j \in DOMAIN steps : i < j => Rank(steps[i]) < Rank(steps[j])
    BY DEF RestOfPlan
<1>5. \A i \in DOMAIN rest : /\ i + 1 \in DOMAIN steps /\ rest[i] = steps[i + 1]
                             /\ Rank(step) < Rank(rest[i])
  <2> SUFFICES ASSUME NEW i \in DOMAIN rest
               PROVE  /\ i + 1 \in DOMAIN steps /\ rest[i] = steps[i + 1]
                      /\ Rank(step) < Rank(rest[i])
      OBVIOUS
  <2>1. i + 1 \in DOMAIN steps /\ rest[i] = steps[i + 1] /\ 1 < i + 1
      BY <1>1, <1>2
  <2> QED BY <1>3, <1>4, <2>1, Zenon
<1>6. \A i, j \in DOMAIN rest : i < j => Rank(rest[i]) < Rank(rest[j])
  <2> SUFFICES ASSUME NEW i \in DOMAIN rest, NEW j \in DOMAIN rest, i < j
               PROVE  Rank(rest[i]) < Rank(rest[j])
      OBVIOUS
  <2>1. i + 1 < j + 1
      BY <1>2
  <2> QED BY <1>4, <1>5, <2>1, Zenon
<1>7. \A s : (\E i \in DOMAIN rest : rest[i] = s)
               <=> (\E i \in DOMAIN steps : steps[i] = s) /\ s # step
  <2> TAKE s
  <2>1. ASSUME NEW i \in DOMAIN rest, rest[i] = s
        PROVE  (\E k \in DOMAIN steps : steps[k] = s) /\ s # step
    <3>1. Rank(step) < Rank(s) /\ Rank(step) \in Int
        BY <1>5, <2>1, RankType
    <3>2. s # step
        BY <3>1
    <3> QED BY <1>5, <2>1, <3>2
  <2>2. ASSUME NEW k \in DOMAIN steps, steps[k] = s, s # step
        PROVE  \E i \in DOMAIN rest : rest[i] = s
    <3>1. k # 1
        BY <1>3, <2>2
    <3>2. k - 1 \in 1 .. Len(steps) - 1 /\ (k - 1) + 1 = k
        BY <1>1, <3>1
    <3> QED BY <1>2, <2>2, <3>2
  <2> QED BY <2>1, <2>2
<1>8. \A s \in plan : \/ \E i \in DOMAIN rest : rest[i] = s
                      \/ \A i \in DOMAIN rest : Rank(s) < Rank(rest[i])
  <2> SUFFICES ASSUME NEW s \in plan, ~ \E i \in DOMAIN rest : rest[i] = s
               PROVE  \A i \in DOMAIN rest : Rank(s) < Rank(rest[i])
      OBVIOUS
  <2>1. CASE s = step
      BY <1>5, <2>1
  <2>2. CASE s # step
    <3>1. ~ \E i \in DOMAIN steps : steps[i] = s
        BY <1>7, <2>2
    <3>2. \A i \in DOMAIN steps : Rank(s) < Rank(steps[i])
        BY <3>1 DEF RestOfPlan
    <3> QED BY <1>5, <3>2
  <2> QED BY <2>1, <2>2
<1>9. \A i \in DOMAIN steps : Rank(step) <= Rank(steps[i])
  <2> SUFFICES ASSUME NEW i \in DOMAIN steps
               PROVE  Rank(step) <= Rank(steps[i])
      OBVIOUS
  <2>1. CASE i = 1
      BY <1>3, <2>1, RankType
  <2>2. CASE i # 1
    <3>1. 1 < i
        BY <1>1, <2>2
    <3>2. Rank(step) < Rank(steps[i])
        BY <1>3, <1>4, <3>1, Zenon
    <3> QED BY <3>2, RankType
  <2> QED BY <2>1, <2>2
<1> QED BY <1>2, <1>3, <1>6, <1>7, <1>8, <1>9 DEF TakesOff, RestOfPlan, rest, step

\* The sequence holds what the plan has of a rank from lo + 1 to hi, in order.
Covers(steps, plan, rank, lo, hi) ==
  /\ rank \in [plan -> Int]
  /\ steps \in Seq(plan)
  /\ \A i, j \in DOMAIN steps : i < j => rank[steps[i]] < rank[steps[j]]
  /\ \A i \in DOMAIN steps : lo < rank[steps[i]] /\ rank[steps[i]] <= hi
  /\ \A step \in plan : lo < rank[step] /\ rank[step] <= hi
                          => \E i \in DOMAIN steps : steps[i] = step

\* Two such sequences, one behind the other, cover both ranges.
LEMMA CoversBoth ==
    ASSUME NEW s, NEW t, NEW plan, NEW rank, NEW lo \in Int, NEW mid \in Int, NEW hi \in Int,
           lo <= mid, mid <= hi, Covers(s, plan, rank, lo, mid), Covers(t, plan, rank, mid, hi)
    PROVE  Covers(s \o t, plan, rank, lo, hi)
<1> DEFINE u == s \o t
<1>0. rank \in [plan -> Int]
    BY DEF Covers
<1>1. /\ s \in Seq(plan) /\ Len(s) \in Nat /\ DOMAIN s = 1 .. Len(s)
      /\ t \in Seq(plan) /\ Len(t) \in Nat /\ DOMAIN t = 1 .. Len(t)
    BY DEF Covers
<1>2. /\ u \in Seq(plan) /\ DOMAIN u = 1 .. Len(s) + Len(t)
      /\ \A i \in 1 .. Len(s) : u[i] = s[i]
      /\ \A i \in 1 .. Len(t) : u[Len(s) + i] = t[i]
    BY <1>1
<1> HIDE DEF u
<1>3. \A i \in DOMAIN u : \/ i \in DOMAIN s /\ u[i] = s[i]
                          \/ i - Len(s) \in DOMAIN t /\ u[i] = t[i - Len(s)]
  <2> SUFFICES ASSUME NEW i \in DOMAIN u
               PROVE  \/ i \in DOMAIN s /\ u[i] = s[i]
                      \/ i - Len(s) \in DOMAIN t /\ u[i] = t[i - Len(s)]
      OBVIOUS
  <2>1. CASE i <= Len(s)
      BY <1>1, <1>2, <2>1
  <2>2. CASE ~(i <= Len(s))
    <3>1. i - Len(s) \in 1 .. Len(t) /\ Len(s) + (i - Len(s)) = i
        BY <1>1, <1>2, <2>2
    <3> QED BY <1>1, <1>2, <3>1
  <2> QED BY <2>1, <2>2
<1>4. \A i \in DOMAIN s : rank[s[i]] \in Int /\ lo < rank[s[i]] /\ rank[s[i]] <= mid
    BY <1>0, <1>1 DEF Covers
<1>5. \A i \in DOMAIN t : rank[t[i]] \in Int /\ mid < rank[t[i]] /\ rank[t[i]] <= hi
    BY <1>0, <1>1 DEF Covers
<1>6. \A i \in DOMAIN u : lo < rank[u[i]] /\ rank[u[i]] <= hi
    BY <1>3, <1>4, <1>5
<1>7. \A i, j \in DOMAIN u : i < j => rank[u[i]] < rank[u[j]]
  <2> SUFFICES ASSUME NEW i \in DOMAIN u, NEW j \in DOMAIN u, i < j
               PROVE  rank[u[i]] < rank[u[j]]
      OBVIOUS
  <2>1. CASE i \in DOMAIN s /\ j \in DOMAIN s
      BY <1>1, <1>2, <2>1 DEF Covers
  <2>2. CASE i \in DOMAIN s /\ j \notin DOMAIN s
    <3>1. u[i] = s[i] /\ rank[s[i]] \in Int /\ rank[s[i]] <= mid
        BY <1>2, <1>1, <1>4, <2>2
    <3>2. PICK k \in DOMAIN t : u[j] = t[k]
        BY <1>3, <2>2
    <3>3. rank[t[k]] \in Int /\ mid < rank[t[k]]
        BY <1>5
    <3> QED BY <3>1, <3>2, <3>3
  <2>3. CASE i \notin DOMAIN s
    <3>1. i - Len(s) \in DOMAIN t /\ j - Len(s) \in DOMAIN t /\ i - Len(s) < j - Len(s)
        BY <1>1, <1>2, <1>3, <2>3
    <3>2. rank[t[i - Len(s)]] < rank[t[j - Len(s)]]
        BY <3>1 DEF Covers
    <3>3. u[i] = t[i - Len(s)] /\ u[j] = t[j - Len(s)]
        BY <1>1, <1>2, <1>3, <2>3
    <3> QED BY <3>2, <3>3
  <2> QED BY <2>1, <2>2, <2>3
<1>8. \A step \in plan : lo < rank[step] /\ rank[step] <= hi
                           => \E i \in DOMAIN u : u[i] = step
  <2> SUFFICES ASSUME NEW step \in plan, lo < rank[step], rank[step] <= hi
               PROVE  \E i \in DOMAIN u : u[i] = step
      OBVIOUS
  <2>1. CASE rank[step] <= mid
    <3>1. PICK i \in DOMAIN s : s[i] = step
        BY <2>1 DEF Covers
    <3> QED BY <1>1, <1>2, <3>1
  <2>2. CASE ~(rank[step] <= mid)
    <3>1. mid < rank[step]
        BY <1>0, <2>2
    <3>2. PICK i \in DOMAIN t : t[i] = step
        BY <3>1 DEF Covers
    <3>3. Len(s) + i \in DOMAIN u /\ u[Len(s) + i] = step
        BY <1>1, <1>2, <3>2
    <3> QED BY <3>3
  <2> QED BY <2>1, <2>2
<1> QED BY <1>0, <1>2, <1>6, <1>7, <1>8 DEF Covers, u

\* The list that tms_Analyse goes by is the whole plan, in order, and not empty.
Whole(steps, plan) ==
  /\ RestOfPlan(steps, plan) /\ steps # <<>>
  /\ \A step \in plan : \E i \in DOMAIN steps : steps[i] = step

\* The steps that tms_Analyse sets out for a command are its plan, all of it.
LEMMA WholePlan == ASSUME NEW cmd PROVE Whole(tms_Analyse(cmd), Plan(cmd))
<1> DEFINE D == IF cmd \in ToDevice THEN <<"device">> ELSE <<>>
           M == IF cmd \in ToManager THEN <<"manager">> ELSE <<>>
           A == IF cmd \in Ignored THEN <<>>
                ELSE IF cmd \in OnlyAnalysed THEN <<"analyse">> ELSE <<"analyse", "copy">>
           P == Plan(cmd)
           R == [s \in P |-> Rank(s)]
           all == <<"ack">> \o D \o M \o A \o <<"release">>
<1>1. Covers(<<"ack">>, P, R, 0, 1)
    BY DEF Covers, Plan, Rank
<1>2. Covers(D, P, R, 1, 2)
  <2>1. CASE cmd \in ToDevice
    <3>1. Covers(<<"device">>, P, R, 1, 2)
        BY <2>1 DEF Covers, Plan, Rank
    <3> QED BY <2>1, <3>1
  <2>2. CASE cmd \notin ToDevice
    <3>1. Covers(<<>>, P, R, 1, 2)
        BY <2>2 DEF Covers, Plan, Rank
    <3> QED BY <2>2, <3>1
  <2> QED BY <2>1, <2>2
<1>3. Covers(M, P, R, 2, 3)
  <2>1. CASE cmd \in ToManager
    <3>1. Covers(<<"manager">>, P, R, 2, 3)
        BY <2>1 DEF Covers, Plan, Rank
    <3> QED BY <2>1, <3>1
  <2>2. CASE cmd \notin ToManager
    <3>1. Covers(<<>>, P, R, 2, 3)
        BY <2>2 DEF Covers, Plan, Rank
    <3> QED BY <2>2, <3>1
  <2> QED BY <2>1, <2>2
<1>4. Covers(A, P, R, 3, 5)
  <2>1. CASE cmd \in Ignored
    <3>1. Covers(<<>>, P, R, 3, 5)
        BY <2>1 DEF Covers, Plan, Rank
    <3> QED BY <2>1, <3>1
  <2>2. CASE cmd \notin Ignored /\ cmd \in OnlyAnalysed
    <3>1. Covers(<<"analyse">>, P, R, 3, 5)
        BY <2>2 DEF Covers, Plan, Rank
    <3> QED BY <2>2, <3>1
  <2>3. CASE cmd \notin Ignored /\ cmd \notin OnlyAnalysed
    <3>1. Covers(<<"analyse", "copy">>, P, R, 3, 5)
        BY <2>3 DEF Covers, Plan, Rank
    <3> QED BY <2>3, <3>1
  <2> QED BY <2>1, <2>2, <2>3
<1>5. Covers(<<"release">>, P, R, 5, 6)
    BY DEF Covers, Plan, Rank
<1>6. "release" \in P
    BY DEF Plan
<1> HIDE DEF D, M, A, P, R
<1>7. Covers(<<"ack">> \o D, P, R, 0, 2)
    BY <1>1, <1>2, CoversBoth
<1>8. Covers(<<"ack">> \o D \o M, P, R, 0, 3)
    BY <1>3, <1>7, CoversBoth
<1>9. Covers(<<"ack">> \o D \o M \o A, P, R, 0, 5)
    BY <1>4, <1>8, CoversBoth
<1>10. Covers(all, P, R, 0, 6)
    BY <1>5, <1>9, CoversBoth
<1>11. tms_Analyse(cmd) = all
    BY DEF tms_Analyse, D, M, A
<1> HIDE DEF all
<1>12. RestOfPlan(all, P)
  <2>1. \A step \in P : R[step] = Rank(step) /\ 0 < R[step] /\ R[step] <= 6
      BY RankType DEF R
  <2>2. \A i \in DOMAIN all : all[i] \in P
      BY <1>10 DEF Covers
  <2>3. \A i, j \in DOMAIN all : i < j => Rank(all[i]) < Rank(all[j])
      BY <1>10, <2>1, <2>2 DEF Covers
  <2> QED BY <1>10, <2>1, <2>3 DEF Covers, RestOfPlan
<1>13. \A step \in P : \E i \in DOMAIN all : all[i] = step
    BY <1>10, RankType DEF Covers, R
<1>14. all # <<>>
    BY <1>6, <1>13
<1> QED BY <1>11, <1>12, <1>13, <1>14 DEF P, Whole

-----------------------------------------------------------------------------
(* The buffer. *)

\* What CellAt finds in a buffer with a cell at that byte.
Found(m, at, orders) ==
  LET c == CellAt(m, at)
  IN /\ c \in Cell /\ c.at = at /\ c.o \in orders
     /\ \A i \in DOMAIN m : m[i].at = at => m[i] = c
     /\ \E i \in DOMAIN m : m[i] = c

\* In cells that are in order a written place is found, as the one cell there.
LEMMA CellFound ==
    ASSUME NEW m, NEW at, NEW orders, Ordered(m), Written(m, at, orders)
    PROVE  Found(m, at, orders)
<1>1. PICK i \in DOMAIN m : m[i].at = at /\ m[i].o \in orders
    BY DEF Written
<1>2. DOMAIN m = 1 .. Len(m) /\ Len(m) \in Nat /\ \A k \in DOMAIN m : m[k] \in Cell
    BY DEF Ordered
<1>3. \A k \in DOMAIN m : m[k].at = at => k = i
  <2> SUFFICES ASSUME NEW k \in DOMAIN m, m[k].at = at, k # i
               PROVE  FALSE
      OBVIOUS
  <2>1. k < i \/ i < k
      BY <1>2
  <2>2. m[k].at \in Nat /\ m[i].at \in Nat
      BY <1>2 DEF Cell
  <2>3. CASE k < i
    <3>1. m[k].at < m[i].at
        BY <2>3 DEF Ordered
    <3> QED BY <1>1, <2>2, <3>1
  <2>4. CASE i < k
    <3>1. m[i].at < m[k].at
        BY <2>4 DEF Ordered
    <3> QED BY <1>1, <2>2, <3>1
  <2> QED BY <2>1, <2>3, <2>4
<1>4. m[i] \in ToSet(m) /\ \A c \in ToSet(m) : \E k \in DOMAIN m : c = m[k]
    BY DEF ToSet
<1>5. CellAt(m, at) = m[i]
  <2> DEFINE c == CHOOSE x \in ToSet(m) : x.at = at
  <2>1. c \in ToSet(m) /\ c.at = at
      BY <1>1, <1>4
  <2> HIDE DEF c
  <2>2. c = m[i]
      BY <1>3, <1>4, <2>1
  <2> QED BY <2>2 DEF CellAt, c
<1>6. \A k \in DOMAIN m : m[k].at = at => m[k] = m[i]
    BY <1>3
<1> QED BY <1>1, <1>2, <1>5, <1>6 DEF Found

\* The cells of one frame are cells of the buffer.
LEMMA FrameInBuffer ==
    ASSUME NEW m, NEW len, Ordered(m), NEW c \in ToSet(OneFrame(m, len))
    PROVE  \E i \in DOMAIN m : c = m[i]
<1> DEFINE D == DOMAIN m
           S == {i \in D : m[i].at < len}
           k == Cardinality(S)
<1>1. m \in Seq(Cell) /\ Len(m) \in Nat /\ D = 1 .. Len(m)
    BY DEF Ordered
<1>2. IsFiniteSet(D) /\ Cardinality(D) = Len(m)
  <2>1. IsFiniteSet(1 .. Len(m)) /\ Cardinality(1 .. Len(m)) = Len(m)
      BY <1>1, FS_Interval, 1 \in Int, SMTT(30)
  <2> QED BY <1>1, <2>1
<1>3. S \subseteq D
    OBVIOUS
<1> HIDE DEF S, D
<1>4. IsFiniteSet(S) /\ k <= Len(m)
    BY <1>2, <1>3, FS_Subset
<1>5. k \in Nat
    BY <1>4, FS_CardinalityType
<1>6. OneFrame(m, len) = SubSeq(m, 1, k)
    BY DEF OneFrame, S, D
<1> HIDE DEF k
<1>7. DOMAIN SubSeq(m, 1, k) = 1 .. k /\ \A i \in 1 .. k : SubSeq(m, 1, k)[i] = m[i]
    BY <1>1, <1>4, <1>5
<1>8. PICK i \in 1 .. k : c = m[i]
    BY <1>6, <1>7 DEF ToSet
<1>9. i \in D
    BY <1>1, <1>4, <1>5
<1> QED BY <1>8, <1>9 DEF D

\* A buffer with another address in it.
LEMMA AddressedSound ==
    ASSUME NEW m, NEW name, NEW addr \in Int, Ordered(m)
    PROVE  LET a == Addressed(m, name, addr)
           IN /\ Ordered(a) /\ DOMAIN a = DOMAIN m
              /\ \A i \in DOMAIN m :
                   /\ a[i].at = m[i].at
                   /\ m[i].at # HeadAt(name) => a[i] = m[i]
                   /\ m[i].at = HeadAt(name) => a[i].o = "net" /\ a[i].v = addr
<1> DEFINE a == Addressed(m, name, addr)
           h == HeadAt(name)
<1> HIDE DEF h
<1>1. m \in Seq(Cell) /\ Len(m) \in Nat /\ DOMAIN m = 1 .. Len(m)
    BY DEF Ordered
<1>2. \A i \in DOMAIN m : m[i] \in Cell
    BY <1>1
<1>3. /\ DOMAIN a = DOMAIN m
      /\ \A i \in DOMAIN m :
           a[i] = IF m[i].at = h THEN [m[i] EXCEPT !.o = "net", !.v = addr] ELSE m[i]
    BY DEF Addressed, h
<1> HIDE DEF a
<1>4. \A i \in DOMAIN m : /\ a[i] \in Cell /\ a[i].at = m[i].at
                          /\ m[i].at # h => a[i] = m[i]
                          /\ m[i].at = h => a[i].o = "net" /\ a[i].v = addr
  <2> SUFFICES ASSUME NEW i \in DOMAIN m
               PROVE  /\ a[i] \in Cell /\ a[i].at = m[i].at
                      /\ m[i].at # h => a[i] = m[i]
                      /\ m[i].at = h => a[i].o = "net" /\ a[i].v = addr
      OBVIOUS
  <2>1. PICK c \in Cell : c = m[i]
      BY <1>2
  <2> DEFINE d == [c EXCEPT !.o = "net", !.v = addr]
  <2>2. d \in Cell /\ d.at = c.at /\ d.o = "net" /\ d.v = addr
    <3>1. PICK e \in Cell : e = [c EXCEPT !.o = "net"]
        BY DEF Cell
    <3>2. e.at = c.at /\ e.o = "net" /\ d = [e EXCEPT !.v = addr]
        BY <3>1 DEF Cell
    <3> QED BY <3>2 DEF Cell
  <2>3. a[i] = IF c.at = h THEN d ELSE c
      BY <1>3, <2>1
  <2> HIDE DEF d
  <2> QED BY <2>1, <2>2, <2>3
<1>5. a \in Seq(Cell)
  <2>1. a = [i \in 1 .. Len(m) |-> a[i]]
      BY <1>1, <1>3 DEF a, Addressed
  <2>2. \A i \in 1 .. Len(m) : a[i] \in Cell
      BY <1>1, <1>4
  <2> QED BY <1>1, <2>1, <2>2
<1>6. \A i, j \in DOMAIN a : i < j => a[i].at < a[j].at
    BY <1>3, <1>4 DEF Ordered
<1> QED BY <1>3, <1>4, <1>5, <1>6 DEF Ordered, a, h

-----------------------------------------------------------------------------
(* One thing done with the frame. *)

\* The step was pending and first, is done, and the release is not forgotten.
StepTaken(step) ==
  /\ ~Idle /\ Pending(step) /\ step \in Plan(rx.cmd)
  /\ \A s : Pending(s) => Rank(step) <= Rank(s)
  /\ \A s : Pending(s)' <=> Pending(s) /\ s # step
  /\ RestOfPlan(todo', Plan(rx.cmd))
  /\ step # "release" <=> ~Idle'

\* Doing a step is what StepTaken says of it.
LEMMA DoingSound ==
    ASSUME NEW step, TodoOK, Doing(step)
    PROVE  StepTaken(step)
<1>1. ~Idle /\ todo # <<>> /\ Head(todo) = step /\ todo' = Tail(todo)
    BY DEF Doing, Idle
<1>2. PICK P : P = Plan(rx.cmd)
    OBVIOUS
<1>3. RestOfPlan(todo, P)
    BY <1>1, <1>2 DEF TodoOK
<1>4. TakesOff(todo, todo', P, step)
  <2>1. TakesOff(todo, Tail(todo), P, Head(todo))
      BY <1>1, <1>3, HeadIsNext
  <2> QED BY <1>1, <2>1
<1>5. "release" \in P
    BY <1>2 DEF Plan
<1>6. Pending("release")
  <2>1. todo \in Seq(P) /\ 1 \in DOMAIN todo
      BY <1>1, <1>3 DEF RestOfPlan
  <2>2. ~(Rank("release") < Rank(todo[1]))
      BY RankType DEF Rank
  <2> QED BY <1>3, <1>5, <2>1, <2>2 DEF RestOfPlan, Pending
<1>7. \A s : Pending(s) => Rank(step) <= Rank(s)
    BY <1>4 DEF TakesOff, Pending
<1>8. \A s : Pending(s)' <=> Pending(s) /\ s # step
    BY <1>4 DEF TakesOff, Pending
<1>9. step # "release" => ~Idle'
  <2> SUFFICES ASSUME step # "release"
               PROVE  ~Idle'
      OBVIOUS
  <2>1. PICK i \in DOMAIN todo' : todo'[i] = "release"
      BY <1>6, <1>8 DEF Pending
  <2> QED BY <2>1 DEF Idle
<1>10. step = "release" => Idle'
  <2> SUFFICES ASSUME step = "release", ~Idle'
               PROVE  FALSE
      OBVIOUS
  <2>1. todo' \in Seq(P) /\ todo' # <<>>
      BY <1>4 DEF TakesOff, RestOfPlan, Idle
  <2>2. PICK w : w = todo'[1]
      OBVIOUS
  <2>3. 1 \in DOMAIN todo' /\ w \in P
      BY <2>1, <2>2
  <2>4. Pending(w)'
      BY <2>2, <2>3 DEF Pending
  <2>5. Pending(w) /\ w # "release"
      BY <1>8, <2>4
  <2>6. Rank("release") <= Rank(w)
      BY <1>7, <2>5
  <2>7. w \in {"ack", "device", "manager", "analyse", "copy"}
      BY <1>2, <2>3, <2>5 DEF Plan
  <2> QED BY <2>6, <2>7 DEF Rank
<1> QED BY <1>1, <1>2, <1>4, <1>7, <1>8, <1>9, <1>10 DEF StepTaken, TakesOff, Pending

-----------------------------------------------------------------------------
(* What a step that sends at most one thing leaves as it was. *)

\* One thing more was sent, or nothing; the thing is of these kinds, an answer
\* goes to where the frame came from, and a copy is one of the frame.
Fits(e) ==
  /\ e.how \in {"ack", "tick", "reply", "echo"} => e.fd = rx.fd
  /\ e.how \in {"device", "sms"} => e.cells = OneFrame(arrived, rx.len)
  /\ e.how = "manager" => \A c \in ToSet(e.cells) : c.at \notin Addresses => c = AsArrived(c)
OnlyAdds(hows) ==
  sent' = sent \/ \E e : Longer(sent, sent', e) /\ e.how \in hows /\ Fits(e)

\* The frame, its buffer as it arrived and the sequence of things sent.
SameFrame == rx' = rx /\ arrived' = arrived

\* A step that leaves the frame leaves what is planned for it, what it is and, since
\* it is not over, what is said of reports.
LEMMA StepKeeps ==
    ASSUME NEW step, StepTaken(step), step # "release", SameFrame, FrameOK
    PROVE  TodoOK' /\ FrameOK' /\ ReportOK'
<1>1. TodoOK'
    BY DEF StepTaken, SameFrame, TodoOK
<1>2. FrameOK'
    BY DEF StepTaken, SameFrame, FrameOK
<1>3. ReportOK'
    BY DEF StepTaken, ReportOK
<1> QED BY <1>1, <1>2, <1>3

\* Once something is behind the acknowledgement, it stays where it is.
LEMMA AckKept ==
    ASSUME NEW step, StepTaken(step), step \notin {"ack", "release"}, SameFrame, AckOK,
           NEW hows, OnlyAdds(hows), "ack" \notin hows
    PROVE  AckOK'
<1>1. ~Idle /\ ~Idle' /\ ~Pending("ack") /\ ~Pending("ack")'
  <2>1. Rank("ack") = 1 /\ Rank(step) > 1
      BY DEF StepTaken, Plan, Rank
  <2>2. /\ Pending("ack") => Rank(step) <= Rank("ack")
        /\ Pending("ack")' => Pending("ack")
        /\ ~Idle /\ (step # "release" => ~Idle')
      BY Zenon DEF StepTaken
  <2>3. Rank(step) \in Int
      BY RankType
  <2> QED BY <2>1, <2>2, <2>3
<1>2. CASE sent' = sent
    BY <1>1, <1>2 DEF AckOK, SameFrame
<1>3. ASSUME NEW e, Longer(sent, sent', e), e.how \in hows, Fits(e)
      PROVE  AckOK'
  <2>1. IsSeq(sent)' /\ sent' # <<>>
      BY <1>3 DEF Longer
  <2>2. e.how # "ack" /\ (e.how \in {"ack", "tick", "reply", "echo"} => e.fd = rx.fd)
      BY <1>3 DEF Fits
  <2>3. Origin[rx.fd] = GLINK_DEV_ADDR => Len(sent) # 0
      BY <1>1 DEF AckOK, IsSeq
  <2>4. ASSUME NEW i \in DOMAIN sent'
        PROVE  /\ sent'[i].how = "ack" <=> i = 1 /\ Origin[rx.fd] = GLINK_DEV_ADDR
               /\ sent'[i].how = "ack" => sent'[i].about = rx.cmd
               /\ sent'[i].how \in {"ack", "tick", "reply", "echo"} => sent'[i].fd = rx.fd
    <3>1. i \in DOMAIN sent \/ i = Len(sent) + 1
        BY <1>3 DEF Longer
    <3>2. CASE i \in DOMAIN sent
      <4>1. sent'[i] = sent[i]
          BY <1>3, <3>2 DEF Longer
      <4> QED BY <1>1, <3>2, <4>1 DEF AckOK
    <3>3. CASE i = Len(sent) + 1
      <4>1. sent'[i] = e
          BY <1>3, <3>3 DEF Longer
      <4>2. Origin[rx.fd] = GLINK_DEV_ADDR => i # 1
          BY <1>3, <2>3, <3>3 DEF Longer
      <4> QED BY <2>2, <4>1, <4>2
    <3> QED BY <3>1, <3>2, <3>3
  <2> QED BY <1>1, <2>1, <2>4 DEF AckOK, SameFrame
<1> QED BY <1>2, <1>3 DEF OnlyAdds

\* The copies of a kind that is not sent are the same ones.
SameCopies(how) ==
  /\ Copies(how)' = Copies(how)
  /\ \A k \in Copies(how) : sent'[k] = sent[k]

\* Sending in other ways leaves the copies sent in this way alone.
LEMMA CopiesKept ==
    ASSUME NEW how, NEW hows, OnlyAdds(hows), how \notin hows
    PROVE  SameCopies(how)
<1>1. CASE sent' = sent
    BY <1>1 DEF SameCopies, Copies
<1>2. ASSUME NEW e, Longer(sent, sent', e), e.how \in hows
      PROVE  SameCopies(how)
  <2>1. \A k \in DOMAIN sent : k \in DOMAIN sent' /\ sent'[k] = sent[k]
      BY <1>2 DEF Longer
  <2>2. \A k \in DOMAIN sent' : k \in DOMAIN sent \/ sent'[k].how # how
    <3>1. \A k \in DOMAIN sent' : k \in DOMAIN sent \/ k = Len(sent) + 1
        BY <1>2 DEF Longer
    <3>2. sent'[Len(sent) + 1].how # how
        BY <1>2 DEF Longer
    <3> QED BY <3>1, <3>2
  <2>3. Copies(how)' = Copies(how)
      BY <2>1, <2>2 DEF Copies
  <2> QED BY <2>1, <2>3 DEF SameCopies, Copies
<1> QED BY <1>1, <1>2 DEF OnlyAdds

\* The first copy of a kind.
LEMMA FirstCopy ==
    ASSUME NEW e, Longer(sent, sent', e), Copies(e.how) = {}
    PROVE  \E k \in Copies(e.how)' : Copies(e.how)' = {k} /\ sent'[k] = e
<1> DEFINE k == Len(sent) + 1
<1>1. k \in DOMAIN sent' /\ sent'[k] = e
    BY DEF Longer
<1>2. \A i \in DOMAIN sent' : i = k \/ sent'[i].how # e.how
    BY DEF Longer, Copies
<1> HIDE DEF k
<1>3. Copies(e.how)' = {k}
    BY <1>1, <1>2 DEF Copies
<1> QED BY <1>1, <1>3

\* The copies for a device, at a step that sends none.
LEMMA DeviceKept ==
    ASSUME NEW step, StepTaken(step), step \notin {"device", "release"}, SameFrame, DeviceOK,
           NEW hows, OnlyAdds(hows), "device" \notin hows,
           devnet' = devnet \/ rx.cmd \notin ToDevice
    PROVE  DeviceOK'
<1>1. ~Idle /\ ~Idle' /\ (Pending("device")' <=> Pending("device"))
    BY Zenon DEF StepTaken
<1>2. SameCopies("device")
    BY CopiesKept
<1>3. \A fd : Only(Copies("device"), fd) => Only(Copies("device"), fd)'
    BY <1>2 DEF SameCopies, Only
<1>4. rx' = rx /\ PlaceOf(arrived)' = PlaceOf(arrived)
    BY DEF SameFrame
<1>5. CASE rx.cmd \notin ToDevice
    BY <1>1, <1>2, <1>4, <1>5 DEF DeviceOK, SameCopies
<1>6. CASE devnet' = devnet
    BY <1>1, <1>2, <1>3, <1>4, <1>6 DEF DeviceOK, SameCopies
<1> QED BY <1>5, <1>6

\* The copies for a manager, at a step that sends none.
LEMMA ManagerKept ==
    ASSUME NEW step, StepTaken(step), step \notin {"manager", "release"}, SameFrame, ManagerOK,
           NEW hows, OnlyAdds(hows), "manager" \notin hows,
           manage' = manage \/ rx.cmd \notin ToManager
    PROVE  ManagerOK'
<1>1. ~Idle /\ ~Idle' /\ (Pending("manager")' <=> Pending("manager"))
    BY Zenon DEF StepTaken
<1>2. SameCopies("manager")
    BY CopiesKept
<1>3. \A fd : Only(Copies("manager"), fd) => Only(Copies("manager"), fd)'
    BY <1>2 DEF SameCopies, Only
<1>4. CASE rx.cmd \notin ToManager
    BY <1>1, <1>2, <1>4 DEF ManagerOK, SameCopies, SameFrame
<1>5. CASE manage' = manage
  <2>1. Readers' = Readers
      BY <1>5 DEF Readers, SameFrame
  <2> QED BY <1>1, <1>2, <1>3, <1>5, <2>1 DEF ManagerOK, SameCopies, SameFrame
<1> QED BY <1>4, <1>5

\* Copies of the frame stay copies of it.
LEMMA ForwardedKept ==
    ASSUME SameFrame, ForwardedAsReceived, NEW hows, OnlyAdds(hows)
    PROVE  ForwardedAsReceived'
<1> DEFINE Good(e) ==
      /\ e.how \in {"device", "sms"} => e.cells = OneFrame(arrived, rx.len)
      /\ e.how = "manager" =>
           \A c \in ToSet(e.cells) : c.at \notin Addresses => c = AsArrived(c)
<1>1. \A i \in DOMAIN sent : Good(sent[i])
    BY DEF ForwardedAsReceived, Copies
<1>2. \A i \in DOMAIN sent' : Good(sent'[i])
  <2>1. CASE sent' = sent
      BY <1>1, <2>1
  <2>2. ASSUME NEW e, Longer(sent, sent', e), Fits(e)
        PROVE  \A i \in DOMAIN sent' : Good(sent'[i])
    <3>1. Good(e)
        BY <2>2 DEF Fits
    <3> HIDE DEF Good
    <3>2. \A i \in DOMAIN sent' : i \in DOMAIN sent \/ i = Len(sent) + 1
        BY <2>2 DEF Longer
    <3> QED BY <1>1, <2>2, <3>1, <3>2 DEF Longer
  <2> QED BY <2>1, <2>2 DEF OnlyAdds
<1>3. rx' = rx /\ (\A c : AsArrived(c)' = AsArrived(c))
    BY DEF SameFrame, AsArrived
<1> QED BY <1>2, <1>3 DEF ForwardedAsReceived, Copies, SameFrame, Addresses, AsArrived

\* The head of the frame as long as it lies in the buffer as it arrived.
LEMMA HeadIs ==
    ASSUME FrameOK, ~Idle, mem = arrived
    PROVE  Source = Origin[rx.fd] /\ Destination = CellAt(arrived, HeadAt("dst")).v
<1> DEFINE src == HeadAt("src")
           dst == HeadAt("dst")
<1> HIDE DEF src, dst
<1>1. /\ Ordered(arrived) /\ Written(arrived, src, {"net"}) /\ Written(arrived, dst, {"net"})
      /\ CellAt(arrived, src).v = Origin[rx.fd]
    BY DEF FrameOK, Filled, src, dst
<1>2. PICK m : m = arrived
    OBVIOUS
<1>3. Found(m, src, {"net"}) /\ Found(m, dst, {"net"})
    BY <1>1, <1>2, CellFound
<1>4. CellAt(m, src).o = "net" /\ CellAt(m, dst).o = "net"
    BY <1>3 DEF Found
<1>5. NumberAt(src) = CellAt(m, src).v /\ NumberAt(dst) = CellAt(m, dst).v
    BY <1>2, <1>4 DEF NumberAt
<1> QED BY <1>1, <1>2, <1>5 DEF Source, Destination, src, dst

\* The place that the data of a frame for a device names, likewise.
LEMMA LocationIs ==
    ASSUME FrameOK, ~Idle, mem = arrived, rx.cmd \in ToDevice
    PROVE  Location = PlaceOf(arrived)
<1> DEFINE a == GLINK_OFFSET_DATA
           b == GLINK_OFFSET_DATA + 4
           O == {"net", "junk"}
<1>1. Ordered(arrived) /\ Written(arrived, a, O) /\ Written(arrived, b, O)
    BY DEF FrameOK, Filled
<1> HIDE DEF a, b, O
<1>2. PICK m : m = arrived
    OBVIOUS
<1>3. Found(m, a, O) /\ Found(m, b, O)
    BY <1>1, <1>2, CellFound
<1>4. CellAt(m, a).o \in O /\ CellAt(m, b).o \in O
    BY <1>3 DEF Found
<1>5. NumberAt(a) = CellAt(m, a).v /\ NumberAt(b) = CellAt(m, b).v
    BY <1>2, <1>4 DEF NumberAt, O
<1> QED BY <1>2, <1>5 DEF Location, PlaceOf, a, b

\* Sending is adding one thing.
LEMMA SentAdds ==
    ASSUME AckOK, ~Idle, NEW hows,
           \E e : sent' = Append(sent, e) /\ e.how \in hows /\ Fits(e)
    PROVE  OnlyAdds(hows)
<1>1. PICK e : sent' = Append(sent, e) /\ e.how \in hows /\ Fits(e)
    OBVIOUS
<1>2. PICK s : s = sent
    OBVIOUS
<1>3. IsSeq(s)
    BY <1>2 DEF AckOK
<1>4. Longer(s, Append(s, e), e)
    BY <1>3, Appended
<1> QED BY <1>1, <1>2, <1>4 DEF OnlyAdds

-----------------------------------------------------------------------------
(* The steps. *)

\* The acknowledgement is the first thing that a frame causes.
LEMMA AckSound == ASSUME IInv, tms_AckDevice PROVE IInv'
<1>1. StepTaken("ack") /\ SameFrame /\ mem' = mem /\ manage' = manage /\ devnet' = devnet
    BY DoingSound DEF tms_AckDevice, IInv, SameFrame
<1>2. ~Idle /\ ~Idle' /\ mem = arrived /\ sent = <<>> /\ ~Pending("ack")'
  <2>1. ~Idle /\ ~Idle' /\ Pending("ack") /\ ~Pending("ack")'
      BY <1>1 DEF StepTaken
  <2> QED BY <2>1 DEF IInv, MemOK, AckOK
<1>3. Source = Origin[rx.fd]
    BY <1>2, HeadIs DEF IInv
<1>4. AckOK' /\ OnlyAdds({"ack"})
  <2>1. CASE Source # GLINK_DEV_ADDR
    <3>1. sent' = <<>> /\ IsSeq(<<>>)
        BY <1>2, <2>1, NothingIsSeq DEF tms_AckDevice
    <3>2. AckOK'
        BY <1>1, <1>2, <1>3, <2>1, <3>1 DEF AckOK, SameFrame
    <3> QED BY <1>2, <3>1, <3>2 DEF OnlyAdds
  <2>2. CASE Source = GLINK_DEV_ADDR
    <3>1. PICK e : sent' = Append(sent, e) /\ e.how = "ack" /\ e.fd = rx.fd /\ e.about = rx.cmd
        BY <2>2 DEF tms_AckDevice, Sent
    <3>2. Fits(e)
        BY <3>1 DEF Fits
    <3>3. OnlyAdds({"ack"})
        BY <1>2, <3>1, <3>2, SentAdds DEF IInv
    <3>4. Longer(<<>>, sent', e)
        BY <1>2, <3>1, NothingIsSeq, Appended
    <3>5. IsSeq(sent)' /\ DOMAIN sent' = {1} /\ sent'[1] = e
        BY <3>4 DEF Longer
    <3>6. AckOK'
        BY <1>1, <1>2, <1>3, <2>2, <3>1, <3>5 DEF AckOK, SameFrame
    <3> QED BY <3>3, <3>6
  <2> QED BY <2>1, <2>2
<1>5. DeviceOK' /\ ManagerOK' /\ ForwardedAsReceived'
    BY <1>1, <1>4, DeviceKept, ManagerKept, ForwardedKept DEF IInv
<1>6. TodoOK' /\ FrameOK' /\ ReportOK'
    BY <1>1, StepKeeps DEF IInv
<1>7. MemOK'
  <2>1. \A s : s # "ack" => (Pending(s)' <=> Pending(s))
      BY <1>1 DEF StepTaken
  <2>2. Refused' <=> Refused
      BY <1>1 DEF Refused, Source, Destination, NumberAt
  <2> QED BY <1>1, <1>2, <2>1, <2>2 DEF IInv, MemOK, SameFrame
<1>8. ManageOK'
    BY <1>1 DEF IInv, ManageOK
<1> QED BY <1>4, <1>5, <1>6, <1>7, <1>8 DEF IInv

\* The copy for a device.
LEMMA DeviceSound == ASSUME IInv, tms_Transmit2Dev PROVE IInv'
<1>1. StepTaken("device") /\ SameFrame /\ mem' = mem /\ manage' = manage /\ devnet' = devnet
    BY DoingSound DEF tms_Transmit2Dev, IInv, SameFrame
<1>2. /\ ~Idle /\ ~Idle' /\ Pending("device") /\ ~Pending("device")' /\ mem = arrived
      /\ rx.cmd \in ToDevice
  <2>1. ~Idle /\ ~Idle' /\ Pending("device") /\ ~Pending("device")' /\ rx.cmd \in ToDevice
      BY <1>1 DEF StepTaken, Plan
  <2> QED BY <2>1 DEF IInv, MemOK
<1>3. Location = PlaceOf(arrived)
    BY <1>2, LocationIs DEF IInv
<1>4. PICK fd : fd = tms_GetDevBaseByLocation(Location)
    OBVIOUS
<1>5. Copies("device") = {}
    BY <1>2 DEF IInv, DeviceOK
<1>6. fd = IF PlaceOf(arrived) \in Locs THEN devnet[PlaceOf(arrived)].fd ELSE 0
    BY <1>3, <1>4 DEF tms_GetDevBaseByLocation
<1>7. OnlyAdds({"device"}) /\ DeviceOK'
  <2>1. CASE fd = 0
    <3>1. sent' = sent
        BY <1>4, <2>1 DEF tms_Transmit2Dev
    <3>2. Copies("device")' = {}
        BY <1>5, <3>1 DEF Copies
    <3> QED BY <1>1, <1>6, <2>1, <3>1, <3>2 DEF OnlyAdds, DeviceOK, SameFrame
  <2>2. CASE fd # 0
    <3>1. PICK e : /\ sent' = Append(sent, e) /\ e.how = "device" /\ e.fd = fd
                   /\ e.cells = OneFrame(mem, rx.len)
        BY <1>4, <2>2 DEF tms_Transmit2Dev, Sent
    <3>2. Fits(e)
        BY <1>2, <3>1 DEF Fits
    <3>3. OnlyAdds({"device"})
        BY <1>2, <3>1, <3>2, SentAdds DEF IInv
    <3>4. PICK s : s = sent
        OBVIOUS
    <3>5. IsSeq(s)
        BY <1>2, <3>4 DEF IInv, AckOK
    <3>6. Longer(s, Append(s, e), e)
        BY <3>5, Appended
    <3>7. Longer(sent, sent', e)
        BY <3>1, <3>4, <3>6
    <3>8. PICK k \in Copies("device")' : Copies("device")' = {k} /\ sent'[k] = e
        BY <1>5, <3>1, <3>7, FirstCopy
    <3>9. Only(Copies("device"), fd)'
        BY <3>1, <3>8 DEF Only
    <3> QED BY <1>1, <1>2, <1>6, <2>2, <3>3, <3>9 DEF DeviceOK, SameFrame
  <2> QED BY <2>1, <2>2
<1>8. AckOK' /\ ManagerOK' /\ ForwardedAsReceived'
    BY <1>1, <1>7, AckKept, ManagerKept, ForwardedKept DEF IInv
<1>9. TodoOK' /\ FrameOK' /\ ReportOK'
    BY <1>1, StepKeeps DEF IInv
<1>10. MemOK'
  <2>1. \A s : s # "device" => (Pending(s)' <=> Pending(s))
      BY <1>1 DEF StepTaken
  <2>2. Refused' <=> Refused
      BY <1>1 DEF Refused, Source, Destination, NumberAt
  <2> QED BY <1>1, <1>2, <2>1, <2>2 DEF IInv, MemOK, SameFrame
<1>11. ManageOK'
    BY <1>1 DEF IInv, ManageOK
<1> QED BY <1>7, <1>8, <1>9, <1>10, <1>11 DEF IInv

\* The buffer with both addresses replaced: the cells elsewhere are the same,
\* and the frame names this machine as its source.
LEMMA ReaddressedSound ==
    ASSUME FrameOK, ~Idle, mem = arrived
    PROVE  /\ Ordered(Readdressed)
           /\ \A c \in ToSet(OneFrame(Readdressed, rx.len)) :
                c.at \notin Addresses => c = AsArrived(c)
           /\ CellAt(Readdressed, HeadAt("src")).o = "net"
           /\ CellAt(Readdressed, HeadAt("src")).v = GLINK_4412_ADDR
<1> DEFINE src == HeadAt("src")
           dst == HeadAt("dst")
           n == Addressed(arrived, "dst", GLINK_MANAGE_ADDR)
           r == Addressed(n, "src", GLINK_4412_ADDR)
<1>1. Ordered(arrived) /\ Written(arrived, src, {"net"}) /\ src # dst
    BY DEF FrameOK, Filled
<1>2. PICK m : m = arrived
    OBVIOUS
<1>3. PICK p : p = Addressed(m, "dst", GLINK_MANAGE_ADDR)
    OBVIOUS
<1>4. PICK q : q = Addressed(p, "src", GLINK_4412_ADDR)
    OBVIOUS
<1>5. GLINK_MANAGE_ADDR \in Int /\ GLINK_4412_ADDR \in Int
    BY DEF GLINK_MANAGE_ADDR, GLINK_4412_ADDR
<1>6. /\ Ordered(p) /\ DOMAIN p = DOMAIN m
      /\ \A i \in DOMAIN m : /\ p[i].at = m[i].at
                             /\ m[i].at # dst => p[i] = m[i]
    BY <1>1, <1>2, <1>3, <1>5, AddressedSound
<1>7. /\ Ordered(q) /\ DOMAIN q = DOMAIN p
      /\ \A i \in DOMAIN p : /\ q[i].at = p[i].at
                             /\ p[i].at # src => q[i] = p[i]
                             /\ p[i].at = src => q[i].o = "net" /\ q[i].v = GLINK_4412_ADDR
    BY <1>4, <1>5, <1>6, AddressedSound
<1>8. q = Readdressed
  <2>1. p = Addressed(mem, "dst", GLINK_MANAGE_ADDR)
      BY <1>2, <1>3
  <2> QED BY <1>4, <2>1 DEF Readdressed
<1> HIDE DEF src, dst
<1>9. \A i \in DOMAIN q : /\ i \in DOMAIN m /\ q[i].at = m[i].at
                          /\ m[i].at \notin {src, dst} => q[i] = m[i]
    BY <1>6, <1>7
<1>10. ASSUME NEW c \in ToSet(OneFrame(q, rx.len)), c.at \notin {src, dst}
       PROVE  c = AsArrived(c)
  <2>1. PICK i \in DOMAIN q : c = q[i]
      BY <1>7, <1>10, FrameInBuffer
  <2>2. i \in DOMAIN m /\ c = m[i]
      BY <1>9, <1>10, <2>1
  <2>3. PICK at : at = c.at
      OBVIOUS
  <2>4. m[i] \in Cell
      BY <1>1, <1>2, <2>2 DEF Ordered
  <2>5. PICK O : O = {m[i].o}
      OBVIOUS
  <2>6. Written(m, at, O)
      BY <2>2, <2>3, <2>5 DEF Written
  <2>7. Found(m, at, O)
      BY <1>1, <1>2, <2>6, CellFound
  <2>8. c = CellAt(m, at)
      BY <2>2, <2>3, <2>7 DEF Found
  <2> QED BY <1>2, <2>3, <2>8 DEF AsArrived
<1>11. PICK i \in DOMAIN m : m[i].at = src
    BY <1>1, <1>2 DEF Written
<1>12. i \in DOMAIN q /\ q[i].at = src /\ q[i].o = "net" /\ q[i].v = GLINK_4412_ADDR
    BY <1>6, <1>7, <1>11
<1>13. Written(q, src, {"net"})
    BY <1>12 DEF Written
<1>14. Found(q, src, {"net"})
    BY <1>7, <1>13, CellFound
<1>15. CellAt(q, src) = q[i]
    BY <1>12, <1>14 DEF Found
<1> QED BY <1>7, <1>8, <1>10, <1>12, <1>15 DEF Addresses, src, dst

\* A slot found by its number is the first with it, and in use.
LEMMA FirstIs ==
    ASSUME NEW S, S \subseteq Slots, S # {}
    PROVE  First(S) \in S
<1>1. S \subseteq Nat
    BY DEF Slots
<1>2. \E x \in S : \A y \in S : x <= y
    BY <1>1, LeastNat
<1> QED BY <1>2 DEF First

\* What a slot of the table of managers holds.
LEMMA SlotIs ==
    ASSUME ManageOK
    PROVE  \A i \in Slots :
             /\ manage[i].fd \in Sockets \cup {0} /\ manage[i].addr \in Managers \cup {0}
             /\ manage[i].fd = 0 <=> manage[i].addr = 0
             /\ manage[i].fd # 0 => Origin[manage[i].fd] = manage[i].addr
<1>1. \A i \in Slots : manage[i] \in [fd : Sockets \cup {0}, addr : Managers \cup {0}]
    BY DEF ManageOK
<1>2. \A i \in Slots : manage[i].fd \in Sockets \cup {0} /\ manage[i].addr \in Managers \cup {0}
  <2> SUFFICES ASSUME NEW i \in Slots
               PROVE  manage[i].fd \in Sockets \cup {0} /\ manage[i].addr \in Managers \cup {0}
      OBVIOUS
  <2>1. PICK slot : slot = manage[i]
      OBVIOUS
  <2>2. slot \in [fd : Sockets \cup {0}, addr : Managers \cup {0}]
      BY <1>1, <2>1
  <2>3. slot.fd \in Sockets \cup {0} /\ slot.addr \in Managers \cup {0}
      BY <2>2
  <2> QED BY <2>1, <2>3
<1>3. \A i \in Slots : /\ manage[i].fd = 0 <=> manage[i].addr = 0
                       /\ manage[i].fd # 0 => Origin[manage[i].fd] = manage[i].addr
    BY DEF ManageOK
<1> QED BY <1>2, <1>3

\* The copy for a manager; after it the frame is refused.
LEMMA ManagerSound == ASSUME IInv, tms_Transmit2Manager PROVE IInv'
<1>1. /\ StepTaken("manager") /\ SameFrame /\ manage' = manage /\ devnet' = devnet
      /\ Transmit2Manager
    BY DoingSound DEF tms_Transmit2Manager, IInv, SameFrame
<1>2. /\ ~Idle /\ ~Idle' /\ Pending("manager") /\ ~Pending("manager")' /\ mem = arrived
      /\ rx.cmd \in ToManager /\ FrameOK
  <2>1. ~Idle /\ ~Idle' /\ Pending("manager") /\ ~Pending("manager")' /\ rx.cmd \in ToManager
      BY <1>1 DEF StepTaken, Plan
  <2> QED BY <2>1 DEF IInv, MemOK
<1>3. PICK dst : dst = CellAt(arrived, HeadAt("dst")).v
    OBVIOUS
<1>4. Source = Origin[rx.fd] /\ Destination = dst
    BY <1>2, <1>3, HeadIs
<1>5. Copies("manager") = {}
    BY <1>2 DEF IInv, ManagerOK
<1>6. Readers' = Readers /\ rx' = rx
    BY <1>1 DEF Readers, SameFrame
<1>7. OnlyAdds({"manager"}) /\ ManagerOK' /\ Refused'
  <2>1. CASE Refused
    <3>1. mem' = mem /\ sent' = sent
        BY <1>1, <2>1 DEF Transmit2Manager
    <3>2. Copies("manager")' = {}
        BY <1>5, <3>1 DEF Copies
    <3>3. Refused'
        BY <2>1, <3>1 DEF Refused, Source, Destination, NumberAt
    <3>4. Origin[rx.fd] = GLINK_4412_ADDR \/ Readers = {}
      <4>1. CASE Origin[rx.fd] = GLINK_4412_ADDR
          BY <4>1
      <4>2. CASE Origin[rx.fd] # GLINK_4412_ADDR
        <5>1. dst \notin 58 .. 63
            BY <1>4, <2>1, <4>2 DEF Refused, GLINK_4412_ADDR, IsManagerAddr
        <5>2. \A i \in Slots : manage[i].fd # 0 => manage[i].addr \in Managers
            BY SlotIs DEF IInv
        <5>3. \A i \in Slots : manage[i].fd # 0 => manage[i].addr # dst
            BY <5>1, <5>2, DispatchAssumption
        <5> QED BY <1>3, <5>3 DEF Readers
      <4> QED BY <4>1, <4>2
    <3> QED BY <1>6, <3>1, <3>2, <3>3, <3>4 DEF OnlyAdds, ManagerOK
  <2>2. CASE ~Refused
    <3>1. mem' = Readdressed
        BY <1>1, <2>2 DEF Transmit2Manager
    <3>2. Refused'
      <4>1. CellAt(Readdressed, HeadAt("src")).o = "net"
            /\ CellAt(Readdressed, HeadAt("src")).v = GLINK_4412_ADDR
          BY <1>2, ReaddressedSound
      <4>2. Source' = GLINK_4412_ADDR
          BY <3>1, <4>1 DEF Source, NumberAt
      <4> QED BY <4>2 DEF Refused
    <3>3. PICK fd : fd = tms_SelectFdByAddr(dst)
        OBVIOUS
    <3>4. dst # 0 /\ Origin[rx.fd] # GLINK_4412_ADDR
        BY <1>4, <2>2 DEF Refused, IsManagerAddr
    <3>5. Readers = SlotsWith(LAMBDA entry : entry.addr = dst)
      <4>1. Readers = {i \in Slots : manage[i].addr = dst}
          BY <1>3, <3>4, SlotIs DEF Readers, IInv
      <4> QED BY <4>1 DEF SlotsWith
    <3>6. fd = IF Readers = {} THEN 0 ELSE manage[First(Readers)].fd
        BY <3>3, <3>5 DEF tms_SelectFdByAddr
    <3>7. CASE fd = 0
      <4>1. sent' = sent
          BY <1>1, <1>4, <2>2, <3>3, <3>7 DEF Transmit2Manager
      <4>2. Copies("manager")' = {}
          BY <1>5, <4>1 DEF Copies
      <4>3. Readers = {}
        <5>1. SUFFICES ASSUME Readers # {}
                       PROVE  FALSE
            OBVIOUS
        <5>2. PICK R : R = Readers
            OBVIOUS
        <5>3. First(R) \in R
            BY <5>1, <5>2, FirstIs DEF Readers
        <5>4. manage[First(R)].fd # 0
            BY <5>2, <5>3 DEF Readers
        <5> QED BY <3>6, <3>7, <5>1, <5>2, <5>4
      <4> QED BY <1>6, <3>2, <4>1, <4>2, <4>3 DEF OnlyAdds, ManagerOK
    <3>8. CASE fd # 0
      <4>1. PICK e : /\ sent' = Append(sent, e) /\ e.how = "manager" /\ e.fd = fd
                     /\ e.cells = OneFrame(Readdressed, rx.len)
          BY <1>1, <1>4, <2>2, <3>3, <3>8 DEF Transmit2Manager, Sent
      <4>2. Fits(e)
          BY <1>2, <4>1, ReaddressedSound DEF Fits
      <4>3. OnlyAdds({"manager"})
          BY <1>2, <4>1, <4>2, SentAdds DEF IInv
      <4>4. PICK s : s = sent
          OBVIOUS
      <4>5. IsSeq(s)
          BY <1>2, <4>4 DEF IInv, AckOK
      <4>6. Longer(s, Append(s, e), e)
          BY <4>5, Appended
      <4>7. Longer(sent, sent', e)
          BY <4>1, <4>4, <4>6
      <4>8. PICK k \in Copies("manager")' : Copies("manager")' = {k} /\ sent'[k] = e
          BY <1>5, <4>1, <4>7, FirstCopy
      <4>9. Only(Copies("manager"), fd)'
          BY <4>1, <4>8 DEF Only
      <4>10. Readers # {} /\ fd = manage[First(Readers)].fd
          BY <3>6, <3>8
      <4>11. Readers' # {} /\ manage'[First(Readers')].fd = fd
          BY <1>1, <1>6, <4>10
      <4> QED BY <1>2, <1>6, <3>2, <3>4, <4>3, <4>9, <4>11 DEF ManagerOK
    <3> QED BY <3>7, <3>8
  <2> QED BY <2>1, <2>2
<1>8. AckOK' /\ DeviceOK' /\ ForwardedAsReceived'
    BY <1>1, <1>7, AckKept, DeviceKept, ForwardedKept DEF IInv
<1>9. TodoOK' /\ FrameOK' /\ ReportOK'
    BY <1>1, StepKeeps DEF IInv
<1>10. MemOK'
  <2>1. ~Pending("ack")' /\ ~Pending("device")'
    <3>1. /\ Pending("ack") => Rank("manager") <= Rank("ack")
          /\ Pending("device") => Rank("manager") <= Rank("device")
          /\ (Pending("ack")' => Pending("ack")) /\ (Pending("device")' => Pending("device"))
        BY <1>1, Zenon DEF StepTaken
    <3>2. Rank("manager") = 3 /\ Rank("ack") = 1 /\ Rank("device") = 2
        BY DEF Rank
    <3> QED BY <3>1, <3>2
  <2> QED BY <1>2, <1>6, <1>7, <2>1 DEF MemOK
<1>11. ManageOK'
    BY <1>1 DEF IInv, ManageOK
<1> QED BY <1>7, <1>8, <1>9, <1>10, <1>11 DEF IInv

\* An analysis, of which only this is used: it comes when all copies are made,
\* it sends an answer, if anything, and its commands change the table of devices
\* or of managers only where no copy is for one.
Answers == {"tick", "trace", "reply", "sms", "echo"}
AnalysisStep ==
  /\ Doing("analyse") /\ SameFrame /\ OnlyAdds(Answers)
  /\ devnet' = devnet \/ rx.cmd \notin ToDevice
  /\ manage' = manage \/ rx.cmd \notin ToManager
  /\ ManageOK'

\* Behind an analysis, or the copy for the application, nothing is left to be
\* passed on or analysed.
LEMMA NothingLeft ==
    ASSUME NEW step, StepTaken(step), step \in {"analyse", "copy"}
    PROVE  /\ ~Idle /\ ~Idle'
           /\ ~Pending("ack")' /\ ~Pending("device")' /\ ~Pending("manager")'
           /\ ~Pending("analyse")'
<1>1. /\ Pending("ack") => Rank(step) <= Rank("ack")
      /\ Pending("device") => Rank(step) <= Rank("device")
      /\ Pending("manager") => Rank(step) <= Rank("manager")
      /\ Pending("analyse") => Rank(step) <= Rank("analyse")
    BY Zenon DEF StepTaken
<1>2. /\ Pending("ack")' => Pending("ack")
      /\ Pending("device")' => Pending("device")
      /\ Pending("manager")' => Pending("manager")
      /\ Pending("analyse")' => Pending("analyse") /\ step # "analyse"
    BY Zenon DEF StepTaken
<1>3. ~Idle /\ (step # "release" => ~Idle')
    BY Zenon DEF StepTaken
<1>4. /\ Rank("ack") = 1 /\ Rank("device") = 2 /\ Rank("manager") = 3 /\ Rank("analyse") = 4
      /\ step # "analyse" => Rank(step) = 5
      /\ Rank(step) >= 4 /\ Rank(step) \in Int
    BY DEF Rank
<1> QED BY <1>1, <1>2, <1>3, <1>4

\* Whatever an analysis does to the buffer, the frame was passed on before it.
LEMMA AnalysisSound == ASSUME IInv, AnalysisStep PROVE IInv'
<1>1. StepTaken("analyse") /\ SameFrame
    BY DoingSound DEF AnalysisStep, IInv
<1>2. OnlyAdds(Answers) /\ "ack" \notin Answers /\ "device" \notin Answers
      /\ "manager" \notin Answers
    BY DEF AnalysisStep, Answers
<1>3. AckOK'
    BY <1>1, <1>2, AckKept DEF IInv
<1>4. DeviceOK'
    BY <1>1, <1>2, DeviceKept DEF IInv, AnalysisStep
<1>5. ManagerOK'
    BY <1>1, <1>2, ManagerKept DEF IInv, AnalysisStep
<1>6. ForwardedAsReceived'
    BY <1>1, <1>2, ForwardedKept DEF IInv
<1>7. TodoOK' /\ FrameOK' /\ ReportOK'
    BY <1>1, StepKeeps DEF IInv
<1>8. MemOK'
    BY <1>1, NothingLeft DEF MemOK
<1> QED BY <1>3, <1>4, <1>5, <1>6, <1>7, <1>8 DEF IInv, AnalysisStep

\* What is left of the frame before an analysis: where no copy is for a manager
\* it lies as it arrived, and else it is refused.
LEMMA BeforeAnalysis ==
    ASSUME IInv, Doing("analyse")
    PROVE  /\ ~Idle /\ FrameOK /\ AckOK /\ ManageOK
           /\ rx.cmd \notin ToManager => mem = arrived
           /\ rx.cmd \in ToManager => Refused
<1>1. StepTaken("analyse")
    BY DoingSound DEF IInv
<1>2. ~Idle /\ Pending("analyse") /\ (Pending("manager") => Rank("analyse") <= Rank("manager"))
    BY <1>1, Zenon DEF StepTaken
<1>3. ~Pending("manager")
    BY <1>2 DEF Rank
<1> QED BY <1>2, <1>3 DEF IInv, MemOK

\* The commands named have copies for nobody, but for the acknowledgement.
LEMMA Commands ==
  /\ "ID_RET_DEVTYPE" \notin ToDevice
  /\ "ID_GET_SN" \notin ToManager /\ "ID_CMD_SMS_TEXT" \notin ToManager
  /\ "ID_CMD_ACK" \in ToManager
BY DEF ToDevice, ToManager, PROCCESS_2DEV, PROCCESS_2DEV_AND_COPY2USE, PROCCESS_2MANAGE,
       PROCCESS_2MANAGE_AND_COPY2USE

\* Nothing is sent, or an answer.
LEMMA NoAnswer == ASSUME sent' = sent, NEW hows PROVE OnlyAdds(hows)
BY DEF OnlyAdds

\* One answer more is an answer behind everything sent.
LEMMA OneAnswer ==
    ASSUME AckOK, ~Idle,
           \E e : /\ sent' = Append(sent, e) /\ e.how \in Answers
                  /\ e.how # "trace" => e.fd = rx.fd
                  /\ e.how # "sms"
    PROVE  OnlyAdds(Answers)
<1>1. PICK e : /\ sent' = Append(sent, e) /\ e.how \in Answers
               /\ e.how # "trace" => e.fd = rx.fd
               /\ e.how # "sms"
    OBVIOUS
<1>2. Fits(e)
    BY <1>1 DEF Fits, Answers
<1> QED BY <1>1, <1>2, SentAdds

\* A tick is answered to whoever sent it, if to anybody.
LEMMA TickSound == ASSUME IInv, AnalyseTick PROVE IInv'
<1>1. Doing("analyse") /\ SameFrame /\ devnet' = devnet /\ manage' = manage
    BY DEF AnalyseTick, Analyse, SameFrame
<1>2. AckOK /\ ~Idle /\ ManageOK
    BY <1>1, BeforeAnalysis
<1>3. OnlyAdds(Answers)
  <2>1. CASE Source = GLINK_DEV_ADDR
    <3>1. \E e : sent' = Append(sent, e) /\ e.how = "tick" /\ e.fd = rx.fd
        BY <2>1 DEF AnalyseTick, Sent
    <3> QED BY <1>2, <3>1, OneAnswer DEF Answers
  <2>2. CASE Source # GLINK_DEV_ADDR
      BY <2>2, NoAnswer DEF AnalyseTick
  <2> QED BY <2>1, <2>2
<1>4. AnalysisStep
    BY <1>1, <1>2, <1>3 DEF AnalysisStep, ManageOK
<1> QED BY <1>4, AnalysisSound

\* The device that a frame enters is not one that the frame is passed on to: those
\* of this command go to nobody.
LEMMA RetDevTypeSound == ASSUME IInv, AnalyseRetDevType PROVE IInv'
<1>1. Doing("analyse") /\ SameFrame /\ rx.cmd = "ID_RET_DEVTYPE" /\ manage' = manage
    BY DEF AnalyseRetDevType, Analyse, SameFrame
<1>2. AckOK /\ ~Idle /\ ManageOK
    BY <1>1, BeforeAnalysis
<1>3. OnlyAdds(Answers)
  <2>1. \E e : sent' = Append(sent, e) /\ e.how = "trace"
      BY DEF AnalyseRetDevType, Sent
  <2> QED BY <1>2, <2>1, OneAnswer DEF Answers
<1>4. AnalysisStep
    BY <1>1, <1>2, <1>3, Commands DEF AnalysisStep, ManageOK
<1> QED BY <1>4, AnalysisSound

\* A version is traced to a manager, and nothing else.
LEMMA RetVersionSound == ASSUME IInv, AnalyseRetVersion PROVE IInv'
<1>1. Doing("analyse") /\ SameFrame /\ devnet' = devnet /\ manage' = manage
    BY DEF AnalyseRetVersion, Analyse, SameFrame
<1>2. AckOK /\ ~Idle /\ ManageOK
    BY <1>1, BeforeAnalysis
<1>3. OnlyAdds(Answers)
  <2>1. \E e : sent' = Append(sent, e) /\ e.how = "trace"
      BY DEF AnalyseRetVersion, Sent
  <2> QED BY <1>2, <2>1, OneAnswer DEF Answers
<1>4. AnalysisStep
    BY <1>1, <1>2, <1>3 DEF AnalysisStep, ManageOK
<1> QED BY <1>4, AnalysisSound

\* A change of address that is understood is answered to whoever sent it.
LEMMA SetIPAddressSound == ASSUME IInv, AnalyseSetIPAddress PROVE IInv'
<1>1. Doing("analyse") /\ SameFrame /\ devnet' = devnet /\ manage' = manage
    BY DEF AnalyseSetIPAddress, Analyse, SameFrame
<1>2. AckOK /\ ~Idle /\ ManageOK
    BY <1>1, BeforeAnalysis
<1>3. OnlyAdds(Answers)
  <2>1. CASE Analysed.ok
    <3>1. \E e : sent' = Append(sent, e) /\ e.how = "reply" /\ e.fd = rx.fd
        BY <2>1 DEF AnalyseSetIPAddress, Sent
    <3> QED BY <1>2, <3>1, OneAnswer DEF Answers
  <2>2. CASE ~Analysed.ok
      BY <2>2, NoAnswer DEF AnalyseSetIPAddress
  <2> QED BY <2>1, <2>2
<1>4. AnalysisStep
    BY <1>1, <1>2, <1>3 DEF AnalysisStep, ManageOK
<1> QED BY <1>4, AnalysisSound

\* A manager that asks for the serial number is entered under the address that
\* the head names, unless it is entered already.
LEMMA GetSerialNumberSound == ASSUME IInv, AnalyseGetSerialNumber PROVE IInv'
<1>1. /\ Doing("analyse") /\ SameFrame /\ rx.cmd = "ID_GET_SN" /\ devnet' = devnet
      /\ sent' = sent /\ manage' = tms_AddManage(rx.fd, Source)
    BY DEF AnalyseGetSerialNumber, Analyse, SameFrame
<1>2. ~Idle /\ FrameOK /\ ManageOK /\ mem = arrived
    BY <1>1, BeforeAnalysis, Commands
<1>3. rx.fd \in Sockets /\ Source = Origin[rx.fd] /\ Origin[rx.fd] \in Managers
    BY <1>1, <1>2, HeadIs DEF FrameOK, Sends
<1>4. PICK x : x = [fd |-> rx.fd, addr |-> Source]
    OBVIOUS
<1>5. x \in [fd : Sockets \cup {0}, addr : Managers \cup {0}] /\ x.fd # 0 /\ x.addr # 0
    BY <1>3, <1>4, DispatchAssumption DEF Sockets
<1>6. PICK k : k = First(SlotsWith(LAMBDA entry : entry.fd = 0))
    OBVIOUS
<1>7. manage' = manage \/ manage' = [manage EXCEPT ![k] = x]
    BY <1>1, <1>4, <1>6 DEF tms_AddManage
<1>8. ManageOK'
  <2>1. CASE manage' = manage
      BY <1>2, <2>1 DEF ManageOK
  <2>2. CASE manage' = [manage EXCEPT ![k] = x]
    <3>1. /\ manage' \in [Slots -> [fd : Sockets \cup {0}, addr : Managers \cup {0}]]
          /\ \A i \in Slots : manage'[i] = manage[i] \/ manage'[i] = x
        BY <1>2, <1>5, <2>2 DEF ManageOK
    <3>2. Origin[x.fd] = x.addr
        BY <1>3, <1>4
    <3>3. ASSUME NEW i \in Slots
          PROVE  /\ manage'[i].fd = 0 <=> manage'[i].addr = 0
                 /\ manage'[i].fd # 0 => Origin[manage'[i].fd] = manage'[i].addr
      <4>1. CASE manage'[i] = manage[i]
          BY <1>2, <4>1, SlotIs
      <4>2. CASE manage'[i] = x
          BY <1>5, <3>2, <4>2
      <4> QED BY <3>1, <4>1, <4>2
    <3> QED BY <3>1, <3>3 DEF ManageOK
  <2> QED BY <1>7, <2>1, <2>2
<1>9. OnlyAdds(Answers)
    BY <1>1, NoAnswer
<1>10. AnalysisStep
    BY <1>1, <1>8, <1>9, Commands DEF AnalysisStep
<1> QED BY <1>10, AnalysisSound

\* The text for the sender of short messages is the frame as it arrived.
LEMMA SendSMSSound == ASSUME IInv, AnalyseSendSMS PROVE IInv'
<1>1. /\ Doing("analyse") /\ SameFrame /\ rx.cmd = "ID_CMD_SMS_TEXT"
      /\ devnet' = devnet /\ manage' = manage
    BY DEF AnalyseSendSMS, Analyse, SameFrame
<1>2. AckOK /\ ~Idle /\ ManageOK /\ mem = arrived
    BY <1>1, BeforeAnalysis, Commands
<1>3. \/ sent' = sent
      \/ \E e : sent' = Append(sent, e) /\ e.how = "sms" /\ e.cells = OneFrame(mem, rx.len)
    BY DEF AnalyseSendSMS, Sent
<1>4. OnlyAdds(Answers)
  <2>1. CASE sent' = sent
      BY <2>1, NoAnswer
  <2>2. ASSUME NEW e, sent' = Append(sent, e), e.how = "sms", e.cells = OneFrame(mem, rx.len)
        PROVE  OnlyAdds(Answers)
    <3>1. Fits(e) /\ e.how \in Answers
        BY <1>2, <2>2 DEF Fits, Answers
    <3> QED BY <1>2, <2>2, <3>1, SentAdds
  <2> QED BY <1>3, <2>1, <2>2
<1>5. AnalysisStep
    BY <1>1, <1>2, <1>4 DEF AnalysisStep, ManageOK
<1> QED BY <1>5, AnalysisSound

\* The acknowledgement of a measurement is not passed on again.
LEMMA AnalyseAckSound == ASSUME IInv, AnalyseAck PROVE IInv'
<1>1. /\ Doing("analyse") /\ SameFrame /\ rx.cmd = "ID_CMD_ACK"
      /\ devnet' = devnet /\ manage' = manage
    BY DEF AnalyseAck, Analyse, SameFrame
<1>2. AckOK /\ ManageOK /\ Refused
    BY <1>1, BeforeAnalysis, Commands
<1>3. sent' = sent
    BY <1>2 DEF AnalyseAck
<1>4. AnalysisStep
    BY <1>1, <1>2, <1>3, NoAnswer DEF AnalysisStep, ManageOK
<1> QED BY <1>4, AnalysisSound

\* The echo goes back to the sender, out of a buffer as it arrived.
LEMMA TestPacketSound == ASSUME IInv, AnalyseTestPacket PROVE IInv'
<1>1. Doing("analyse") /\ SameFrame /\ devnet' = devnet /\ manage' = manage
    BY DEF AnalyseTestPacket, Analyse, SameFrame
<1>2. AckOK /\ ~Idle /\ ManageOK
    BY <1>1, BeforeAnalysis
<1>3. OnlyAdds(Answers)
  <2>1. \E e : sent' = Append(sent, e) /\ e.how = "echo" /\ e.fd = rx.fd
      BY DEF AnalyseTestPacket, Sent
  <2> QED BY <1>2, <2>1, OneAnswer DEF Answers
<1>4. AnalysisStep
    BY <1>1, <1>2, <1>3 DEF AnalysisStep, ManageOK
<1> QED BY <1>4, AnalysisSound

\* The other analysers, whatever they leave in the buffer.
LEMMA AnalyseOnlySound == ASSUME IInv, AnalyseOnly PROVE IInv'
<1>1. Doing("analyse") /\ SameFrame /\ devnet' = devnet /\ manage' = manage /\ sent' = sent
    BY DEF AnalyseOnly, Analyse, SameFrame
<1>2. AnalysisStep
    BY <1>1, NoAnswer DEF AnalysisStep, IInv, ManageOK
<1> QED BY <1>2, AnalysisSound

\* The hand over to the application sends nothing.
LEMMA CopySound == ASSUME IInv, tms_Copy2Use PROVE IInv'
<1>1. /\ StepTaken("copy") /\ SameFrame /\ sent' = sent
      /\ devnet' = devnet /\ manage' = manage
    BY DoingSound DEF tms_Copy2Use, IInv, SameFrame
<1>2. OnlyAdds({})
    BY <1>1, NoAnswer
<1>3. AckOK' /\ DeviceOK' /\ ManagerOK' /\ ForwardedAsReceived'
    BY <1>1, <1>2, AckKept, DeviceKept, ManagerKept, ForwardedKept DEF IInv
<1>4. TodoOK' /\ FrameOK' /\ ReportOK'
    BY <1>1, StepKeeps DEF IInv
<1>5. MemOK'
    BY <1>1, NothingLeft DEF MemOK
<1>6. ManageOK'
    BY <1>1 DEF IInv, ManageOK
<1> QED BY <1>3, <1>4, <1>5, <1>6 DEF IInv

\* Between two frames the invariant is about the table of managers, and says
\* that only reports were sent.
LEMMA BetweenFrames ==
    ASSUME todo = <<>>, ManageOK, ReportOK,
           \A i \in DOMAIN sent : sent[i].how = "alarm"
    PROVE  IInv
<1>1. Idle /\ \A s : ~Pending(s)
    BY DEF Idle, Pending
<1>2. TodoOK /\ FrameOK /\ MemOK /\ DeviceOK /\ ManagerOK
    BY <1>1 DEF TodoOK, FrameOK, MemOK, DeviceOK, ManagerOK
<1>3. AckOK
    BY <1>1 DEF AckOK
<1>4. ForwardedAsReceived
    BY DEF ForwardedAsReceived, Copies
<1> QED BY <1>2, <1>3, <1>4 DEF IInv

\* Between frames the invariant is about the two tables and what was reported.
LEMMA BetweenFramesNext ==
    ASSUME todo' = <<>>, ManageOK', ReportOK',
           \A i \in DOMAIN sent' : sent'[i].how = "alarm"
    PROVE  IInv'
<1>1. Idle' /\ \A s : ~Pending(s)'
    BY DEF Idle, Pending
<1>2. TodoOK' /\ FrameOK' /\ ReportOK' /\ MemOK' /\ DeviceOK' /\ ManagerOK'
    BY <1>1 DEF TodoOK, FrameOK, MemOK, DeviceOK, ManagerOK
<1>3. AckOK'
    BY <1>1 DEF AckOK
<1>4. ForwardedAsReceived'
    BY DEF ForwardedAsReceived, Copies
<1> QED BY <1>2, <1>3, <1>4 DEF IInv

\* The release forgets the frame and all that was sent for it.
LEMMA ReleaseSound == ASSUME IInv, Release PROVE IInv'
<1>1. StepTaken("release") /\ sent' = <<>> /\ manage' = manage
    BY DoingSound DEF Release, IInv
<1>2. todo' = <<>> /\ ManageOK'
    BY <1>1 DEF StepTaken, Idle, IInv, ManageOK
<1>3. ReportOK'
    BY <1>1 DEF ReportOK
<1> QED BY <1>1, <1>2, <1>3, BetweenFramesNext

\* A connection that ends leaves the table of managers in order.
LEMMA DisconnectSound == ASSUME IInv, NEW fd \in Sockets, Disconnect(fd) PROVE IInv'
<1>1. todo' = <<>> /\ sent' = <<>> /\ manage' = tms_DelManage(fd)
    BY DEF Disconnect, Idle
<1>2. ManageOK'
  <2>1. manage' = [i \in Slots |-> IF manage[i].fd = fd THEN FreeSlot ELSE manage[i]]
      BY <1>1 DEF tms_DelManage
  <2>2. FreeSlot \in [fd : Sockets \cup {0}, addr : Managers \cup {0}]
        /\ FreeSlot.fd = 0 /\ FreeSlot.addr = 0
      BY DEF FreeSlot
  <2> HIDE DEF FreeSlot
  <2> QED BY <2>1, <2>2 DEF IInv, ManageOK
<1>3. ReportOK'
    BY <1>1 DEF ReportOK
<1> QED BY <1>1, <1>2, <1>3, BetweenFramesNext

\* A socket found by an address is that of a manager with this address.
LEMMA FoundByAddr ==
    ASSUME ManageOK, NEW a \in 58 .. 63
    PROVE  /\ Registered(a) <=> \E i \in Slots : manage[i].addr = a
           /\ Registered(a) =>
                \E i \in Slots : /\ manage[i].addr = a /\ manage[i].fd = tms_SelectFdByAddr(a)
                                 /\ manage[i].fd \in Sockets /\ Origin[manage[i].fd] = a
<1>1. PICK S : S = SlotsWith(LAMBDA entry : entry.addr = a)
    OBVIOUS
<1>2. S = {i \in Slots : manage[i].addr = a}
    BY <1>1 DEF SlotsWith
<1>3. tms_SelectFdByAddr(a) = IF S = {} THEN 0 ELSE manage[First(S)].fd
    BY <1>1 DEF tms_SelectFdByAddr
<1>4. CASE S = {}
    BY <1>2, <1>3, <1>4 DEF Registered
<1>5. CASE S # {}
  <2>1. PICK i : i = First(S)
      OBVIOUS
  <2>2. i \in S
      BY <1>2, <1>5, <2>1, FirstIs
  <2>3. i \in Slots /\ manage[i].addr = a /\ manage[i].fd = tms_SelectFdByAddr(a)
      BY <1>2, <1>3, <1>5, <2>1, <2>2
  <2>4. manage[i].fd # 0 /\ manage[i].fd \in Sockets /\ Origin[manage[i].fd] = a
    <3>1. a # 0
        OBVIOUS
    <3>2. /\ manage[i].fd \in Sockets \cup {0}
          /\ manage[i].fd = 0 <=> manage[i].addr = 0
          /\ manage[i].fd # 0 => Origin[manage[i].fd] = manage[i].addr
        BY <2>3, SlotIs
    <3> QED BY <2>3, <3>1, <3>2
  <2> QED BY <2>3, <2>4 DEF Registered
<1> QED BY <1>4, <1>5

\* Whom the loop over the six addresses reaches: everyone registered, in order.
RegisteredAddrs == {a \in 58 .. 63 : Registered(a)}
Itself == [a \in RegisteredAddrs |-> a]

\* One look at the table finds the address asked for, if somebody registered it.
LEMMA HereCovers ==
    ASSUME NEW a \in 58 .. 63
    PROVE  Covers(Here(a), RegisteredAddrs, Itself, a - 1, a)
<1> DEFINE R == RegisteredAddrs
<1>1. Itself \in [R -> Int] /\ \A b \in R : Itself[b] = b
    BY DEF Itself, RegisteredAddrs
<1>2. \A b \in R : a - 1 < b /\ b <= a <=> b = a
    BY DEF RegisteredAddrs
<1>3. CASE Registered(a)
  <2>1. a \in R /\ Here(a) = <<a>>
      BY <1>3 DEF RegisteredAddrs, Here
  <2> HIDE DEF R
  <2>2. Covers(<<a>>, R, Itself, a - 1, a)
      BY <1>1, <1>2, <2>1 DEF Covers
  <2> QED BY <2>1, <2>2 DEF R
<1>4. CASE ~Registered(a)
  <2>1. a \notin R /\ Here(a) = <<>>
      BY <1>4 DEF RegisteredAddrs, Here
  <2> HIDE DEF R
  <2>2. Covers(<<>>, R, Itself, a - 1, a)
      BY <1>1, <1>2, <2>1 DEF Covers
  <2> QED BY <2>1, <2>2 DEF R
<1> QED BY <1>3, <1>4

\* The loop over 58 .. 63 meets everyone registered, each once.
LEMMA ReachedCovers == Covers(Reached, RegisteredAddrs, Itself, 57, 63)
<1> DEFINE R == RegisteredAddrs
           C(s, lo, hi) == Covers(s, R, Itself, lo, hi)
<1>1. /\ C(Here(58), 57, 58) /\ C(Here(59), 58, 59) /\ C(Here(60), 59, 60)
      /\ C(Here(61), 60, 61) /\ C(Here(62), 61, 62) /\ C(Here(63), 62, 63)
  <2>1. /\ C(Here(58), 58 - 1, 58) /\ C(Here(59), 59 - 1, 59) /\ C(Here(60), 60 - 1, 60)
        /\ C(Here(61), 61 - 1, 61) /\ C(Here(62), 62 - 1, 62) /\ C(Here(63), 63 - 1, 63)
      BY HereCovers
  <2>2. /\ 58 - 1 = 57 /\ 59 - 1 = 58 /\ 60 - 1 = 59
        /\ 61 - 1 = 60 /\ 62 - 1 = 61 /\ 63 - 1 = 62
      OBVIOUS
  <2> QED BY <2>1, <2>2
<1>2. PICK h58, h59, h60, h61, h62, h63 :
        /\ h58 = Here(58) /\ h59 = Here(59) /\ h60 = Here(60)
        /\ h61 = Here(61) /\ h62 = Here(62) /\ h63 = Here(63)
    OBVIOUS
<1>3. PICK P, I : P = R /\ I = Itself
    OBVIOUS
<1>4. /\ Covers(h58, P, I, 57, 58) /\ Covers(h59, P, I, 58, 59) /\ Covers(h60, P, I, 59, 60)
      /\ Covers(h61, P, I, 60, 61) /\ Covers(h62, P, I, 61, 62) /\ Covers(h63, P, I, 62, 63)
    BY <1>1, <1>2, <1>3
<1>5. Covers(h58 \o h59, P, I, 57, 59)
    BY <1>4, CoversBoth
<1>6. Covers(h58 \o h59 \o h60, P, I, 57, 60)
    BY <1>4, <1>5, CoversBoth
<1>7. Covers(h58 \o h59 \o h60 \o h61, P, I, 57, 61)
    BY <1>4, <1>6, CoversBoth
<1>8. Covers(h58 \o h59 \o h60 \o h61 \o h62, P, I, 57, 62)
    BY <1>4, <1>7, CoversBoth
<1>9. Covers(h58 \o h59 \o h60 \o h61 \o h62 \o h63, P, I, 57, 63)
    BY <1>4, <1>8, CoversBoth
<1>10. Reached = h58 \o h59 \o h60 \o h61 \o h62 \o h63
    BY <1>2 DEF Reached
<1> QED BY <1>3, <1>9, <1>10

\* A report goes to everyone registered, and to nobody twice.
LEMMA ReportSound == ASSUME IInv, Report PROVE IInv'
<1>1. todo' = <<>> /\ manage' = manage /\ ManageOK
    BY DEF Report, Idle, IInv
<1>2. ManageOK'
    BY <1>1 DEF ManageOK
<1>3. PICK q : q = Reached
    OBVIOUS
<1>4. \E frame \in Reports : sent' = [i \in DOMAIN q |-> ToEach(frame, q[i])]
    BY <1>3 DEF Report, tms_SendAllManager, tms_SendAllManagerDot, Reports
<1>5. PICK frame \in Reports : sent' = [i \in DOMAIN q |-> ToEach(frame, q[i])]
    BY <1>4
<1>6. \A i \in DOMAIN sent' : sent'[i].how = "alarm"
    BY <1>5 DEF ToEach
<1>7. PICK R : R = RegisteredAddrs
    OBVIOUS
<1>8. /\ \A i \in DOMAIN q : q[i] \in R
      /\ \A i, j \in DOMAIN q : i < j => q[i] < q[j]
      /\ \A a \in R : \E i \in DOMAIN q : q[i] = a
      /\ DOMAIN q \subseteq Nat
  <2>1. Covers(q, R, Itself, 57, 63)
      BY <1>3, <1>7, ReachedCovers
  <2>2. \A a \in R : Itself[a] = a /\ 57 < a /\ a <= 63
      BY <1>7 DEF Itself, RegisteredAddrs
  <2>3. DOMAIN q = 1 .. Len(q) /\ Len(q) \in Nat /\ \A i \in DOMAIN q : q[i] \in R
      BY <2>1 DEF Covers
  <2>4. \A i, j \in DOMAIN q : i < j => q[i] < q[j]
      BY <2>1, <2>2, <2>3 DEF Covers
  <2>5. \A a \in R : \E i \in DOMAIN q : q[i] = a
      BY <2>1, <2>2 DEF Covers
  <2> QED BY <2>3, <2>4, <2>5
<1>9. \A a : (Registered(a)' <=> Registered(a)) /\ ToEach(frame, a)' = ToEach(frame, a)
    BY <1>1 DEF Registered, ToEach, tms_SelectFdByAddr, SlotsWith
<1>10. \A k \in DOMAIN sent' : \E a \in 58 .. 63 :
         Registered(a) /\ sent'[k] = ToEach(frame, a)
    BY <1>5, <1>7, <1>8 DEF RegisteredAddrs
<1>11. \A a \in 58 .. 63 : Registered(a) => \E k \in DOMAIN sent' : sent'[k] = ToEach(frame, a)
    BY <1>5, <1>7, <1>8 DEF RegisteredAddrs
<1>12. ASSUME NEW j \in DOMAIN sent', NEW k \in DOMAIN sent', sent'[j].fd = sent'[k].fd
       PROVE  j = k
  <2>1. /\ q[j] \in 58 .. 63 /\ Registered(q[j]) /\ sent'[j] = ToEach(frame, q[j])
        /\ q[k] \in 58 .. 63 /\ Registered(q[k]) /\ sent'[k] = ToEach(frame, q[k])
        /\ j \in DOMAIN q /\ k \in DOMAIN q
      BY <1>5, <1>7, <1>8 DEF RegisteredAddrs
  <2>2. tms_SelectFdByAddr(q[j]) = tms_SelectFdByAddr(q[k])
      BY <1>12, <2>1 DEF ToEach
  <2>3. PICK a, b : a = q[j] /\ b = q[k]
      OBVIOUS
  <2>4. Origin[tms_SelectFdByAddr(a)] = a /\ Origin[tms_SelectFdByAddr(b)] = b
      BY <1>1, <2>1, <2>3, FoundByAddr
  <2>5. q[j] = q[k]
      BY <2>2, <2>3, <2>4
  <2> QED BY <1>8, <2>1, <2>5
<1>13. ReachesAll(frame)'
    BY <1>9, <1>10, <1>11, <1>12 DEF ReachesAll
<1>14. ReportOK'
    BY <1>13 DEF ReportOK, Reports
<1> QED BY <1>1, <1>2, <1>6, <1>14, BetweenFramesNext

\* A frame found in the buffer.
LEMMA ReceiveSound ==
    ASSUME IInv, NEW fd \in Sockets, NEW message \in Messages, Receive(fd, message)
    PROVE  IInv'
<1>1. PICK cmd : cmd = message.cmd
    OBVIOUS
<1>2. /\ rx'.fd = fd /\ rx'.cmd = cmd /\ arrived' = mem' /\ todo' = tms_Analyse(cmd)
      /\ sent' = <<>> /\ manage' = manage /\ Sends(fd, cmd)
    BY <1>1 DEF Receive
<1>3. PICK dst \in Destinations(message.cmd), loc \in Places(message.cmd),
           type \in Types(message.cmd) : mem' = Arriving(fd, message, dst, loc, type)
    BY DEF Receive
<1>4. Filled(mem', cmd, Origin[fd])
  <2>1. Filled(Arriving(fd, message, dst, loc, type), message.cmd, Origin[fd])
      BY <1>1, <1>2, FrameAssumption
  <2> QED BY <1>1, <1>3, <2>1
<1>5. Whole(todo', Plan(cmd))
    BY <1>2, WholePlan
<1>6. ~Idle' /\ TodoOK' /\ FrameOK' /\ ReportOK'
    BY <1>2, <1>4, <1>5 DEF Whole, Idle, TodoOK, FrameOK, ReportOK
<1>7. /\ Pending("ack")'
      /\ cmd \in ToDevice => Pending("device")'
      /\ cmd \in ToManager => Pending("manager")'
  <2>1. /\ "ack" \in Plan(cmd)
        /\ cmd \in ToDevice => "device" \in Plan(cmd)
        /\ cmd \in ToManager => "manager" \in Plan(cmd)
      BY DEF Plan
  <2>2. \A s \in Plan(cmd) : Pending(s)'
      BY <1>5 DEF Whole, Pending
  <2> QED BY <2>1, <2>2, Zenon
<1>8. MemOK'
    BY <1>2, <1>7 DEF MemOK
<1>9. AckOK'
    BY <1>2, <1>6, <1>7, NothingIsSeq DEF AckOK
<1>10. Copies("device")' = {} /\ Copies("manager")' = {}
    BY <1>2 DEF Copies
<1>11. DeviceOK' /\ ManagerOK'
    BY <1>2, <1>7, <1>10 DEF DeviceOK, ManagerOK
<1>12. ForwardedAsReceived' /\ ManageOK'
    BY <1>2 DEF IInv, ManageOK, ForwardedAsReceived, Copies
<1> QED BY <1>6, <1>8, <1>9, <1>11, <1>12 DEF IInv

-----------------------------------------------------------------------------
(* The theorems. *)

\* The invariant holds at the start.
LEMMA InitSound == Init => IInv
<1> SUFFICES ASSUME Init
             PROVE  IInv
    OBVIOUS
<1>1. todo = <<>> /\ sent = <<>> /\ manage = [i \in Slots |-> FreeSlot]
    BY DEF Init
<1>2. ManageOK
    BY <1>1 DEF ManageOK, FreeSlot
<1>3. ReportOK
    BY <1>1 DEF ReportOK
<1> QED BY <1>1, <1>2, <1>3, BetweenFrames

\* Every step keeps the invariant.
LEMMA NextSound == IInv /\ [Next]_vars => IInv'
<1> SUFFICES ASSUME IInv, [Next]_vars
             PROVE  IInv'
    OBVIOUS
<1>1. CASE \E fd \in Sockets : Disconnect(fd) \/ \E message \in Messages : Receive(fd, message)
    BY <1>1, DisconnectSound, ReceiveSound
<1>2. CASE tms_AckDevice \/ tms_Transmit2Dev \/ tms_Transmit2Manager
    BY <1>2, AckSound, DeviceSound, ManagerSound
<1>3. CASE AnalyseTick \/ AnalyseRetDevType \/ AnalyseRetVersion \/ AnalyseSetIPAddress
    BY <1>3, TickSound, RetDevTypeSound, RetVersionSound, SetIPAddressSound
<1>4. CASE AnalyseGetSerialNumber \/ AnalyseSendSMS \/ AnalyseAck \/ AnalyseTestPacket
             \/ AnalyseOnly
    BY <1>4, GetSerialNumberSound, SendSMSSound, AnalyseAckSound, TestPacketSound,
       AnalyseOnlySound
<1>5. CASE tms_Copy2Use \/ Release \/ Report
    BY <1>5, CopySound, ReleaseSound, ReportSound
<1>6. CASE UNCHANGED vars
  <2>1. /\ rx' = rx /\ arrived' = arrived /\ mem' = mem /\ todo' = todo /\ sent' = sent
        /\ manage' = manage /\ devnet' = devnet
      BY <1>6 DEF vars
  <2>2. TodoOK' /\ FrameOK'
      BY <2>1 DEF IInv, TodoOK, FrameOK, Idle
  <2>3. MemOK'
      BY <2>1 DEF IInv, MemOK, Pending, Refused, Source, Destination, NumberAt
  <2>4. AckOK'
      BY <2>1 DEF IInv, AckOK, Idle, Pending
  <2>5. DeviceOK'
      BY <2>1 DEF IInv, DeviceOK, Idle, Pending, Only, Copies
  <2>6. ManagerOK'
      BY <2>1 DEF IInv, ManagerOK, Idle, Pending, Only, Copies, Readers
  <2>7. ManageOK' /\ ForwardedAsReceived'
      BY <2>1 DEF IInv, ManageOK, ForwardedAsReceived, Copies, AsArrived
  <2>8. ReportOK'
    <3>1. Idle' = Idle /\ sent' = sent
        BY <2>1 DEF Idle
    <3>2. \A a, frame : /\ Registered(a)' <=> Registered(a)
                        /\ ToEach(frame, a)' = ToEach(frame, a)
        BY <2>1 DEF Registered, ToEach, tms_SelectFdByAddr, SlotsWith
    <3>3. \A frame : ReachesAll(frame)' <=> ReachesAll(frame)
        BY <2>1, <3>2 DEF ReachesAll
    <3> QED BY <3>1, <3>3 DEF IInv, ReportOK, Reports
  <2> QED BY <2>2, <2>3, <2>4, <2>5, <2>6, <2>7, <2>8 DEF IInv
<1> QED BY <1>1, <1>2, <1>3, <1>4, <1>5, <1>6, Zenon DEF Next

\* The invariant holds of every behaviour.
THEOREM DispatchInvariant == Spec => []IInv
BY InitSound, NextSound, PTL DEF Spec

\* When only the release is left, everything else is done.
LEMMA DoneIs == Done => ~Idle /\ ~Pending("ack") /\ ~Pending("device") /\ ~Pending("manager")
BY DEF Done, Idle, Pending

\* What devices, managers and the sender of short messages get is the frame as
\* it arrived, whatever the analysers do to the bytes in the buffer.
THEOREM ForwardedIsAsReceived == Spec => []ForwardedAsReceived
<1>1. IInv => ForwardedAsReceived
    BY DEF IInv
<1> QED BY <1>1, DispatchInvariant, PTL

\* A device gets its acknowledgement, one, and before everything else.
THEOREM AcknowledgedFirst == Spec => []AckedFirst
<1>1. IInv => AckedFirst
  <2> SUFFICES ASSUME IInv
               PROVE  AckedFirst
      OBVIOUS
  <2>1. Done => Copies("ack") = IF Origin[rx.fd] = GLINK_DEV_ADDR THEN {1} ELSE {}
    <3> SUFFICES ASSUME Done
                 PROVE  Copies("ack") = IF Origin[rx.fd] = GLINK_DEV_ADDR THEN {1} ELSE {}
        OBVIOUS
    <3>1. /\ IsSeq(sent) /\ (Origin[rx.fd] = GLINK_DEV_ADDR => sent # <<>>)
          /\ \A i \in DOMAIN sent :
               sent[i].how = "ack" <=> i = 1 /\ Origin[rx.fd] = GLINK_DEV_ADDR
        BY DoneIs DEF IInv, AckOK
    <3>2. sent # <<>> => 1 \in DOMAIN sent
        BY <3>1 DEF IsSeq
    <3> QED BY <3>1, <3>2 DEF Copies
  <2>2. ~Idle => \A i \in DOMAIN sent :
          sent[i].how = "ack" <=> i = 1 /\ Origin[rx.fd] = GLINK_DEV_ADDR
      BY DEF IInv, AckOK
  <2>3. \A i \in Copies("ack") : sent[i].about = rx.cmd
      BY DEF IInv, AckOK, Copies
  <2>4. \A i \in DOMAIN sent :
          sent[i].how \in {"ack", "tick", "reply", "echo"} => sent[i].fd = rx.fd
      BY DEF IInv, AckOK
  <2> QED BY <2>1, <2>2, <2>3, <2>4 DEF AckedFirst
<1> QED BY <1>1, DispatchInvariant, PTL

\* A frame for a device reaches the one at the place it names once, and nobody
\* else.
THEOREM DeviceGetsOne == Spec => []DeviceReceivesOnce
<1>1. IInv => DeviceReceivesOnce
    BY DoneIs DEF IInv, DeviceOK, DeviceReceivesOnce, PlaceOf, Only
<1> QED BY <1>1, DispatchInvariant, PTL

\* Everyone registered gets a report once, under its own address, and a frame
\* for a manager reaches the one registered once, whoever comes and goes.
THEOREM ManagersGetOne == Spec => []ManagerReceivesOnce
<1>1. IInv => ManagerReceivesOnce
  <2> SUFFICES ASSUME IInv
               PROVE  ManagerReceivesOnce
      OBVIOUS
  <2>1. ManageOK
      BY DEF IInv
  <2>2. ASSUME Idle, sent # <<>>, NEW i \in Slots, manage[i].fd # 0
        PROVE  LET copies == {k \in DOMAIN sent : sent[k].fd = manage[i].fd}
               IN \E k \in copies : copies = {k} /\ NamesReader(sent[k].cells, manage[i].addr)
    <3>1. PICK frame \in Reports : ReachesAll(frame)
        BY <2>2 DEF IInv, ReportOK
    <3>2. PICK a, f : a = manage[i].addr /\ f = manage[i].fd
        OBVIOUS
    <3>3. a \in Managers /\ a \in 58 .. 63 /\ f \in Sockets /\ Origin[f] = a
        BY <2>1, <2>2, <3>2, SlotIs, DispatchAssumption
    <3>4. Registered(a)
        BY <2>1, <3>2, <3>3, FoundByAddr
    <3>5. tms_SelectFdByAddr(a) = f
      <4>1. PICK g \in Sockets : g = tms_SelectFdByAddr(a) /\ Origin[g] = a
          BY <2>1, <3>3, <3>4, FoundByAddr
      <4> QED BY <3>3, <4>1, ManagersNamed DEF Sockets
    <3>6. PICK k \in DOMAIN sent : sent[k] = ToEach(frame, a)
        BY <3>1, <3>3, <3>4 DEF ReachesAll
    <3>7. sent[k].fd = f /\ sent[k].cells = ForManager(frame, a)
        BY <3>5, <3>6 DEF ToEach
    <3>8. {j \in DOMAIN sent : sent[j].fd = f} = {k}
        BY <3>1, <3>7 DEF ReachesAll
    <3>9. NamesReader(sent[k].cells, a)
        BY <3>3, <3>7, ReportAssumption
    <3> QED BY <3>2, <3>8, <3>9
  <2>3. ASSUME Idle, NEW s \in ToSet(sent)
        PROVE  \E i \in Slots : manage[i].fd = s.fd /\ s.fd # 0
    <3>1. PICK k \in DOMAIN sent : s = sent[k]
        BY DEF ToSet
    <3>2. sent # <<>>
        BY <3>1
    <3>3. PICK frame \in Reports : ReachesAll(frame)
        BY <2>3, <3>2 DEF IInv, ReportOK
    <3>4. PICK a \in 58 .. 63 : Registered(a) /\ sent[k] = ToEach(frame, a)
        BY <3>1, <3>3 DEF ReachesAll
    <3>5. s.fd = tms_SelectFdByAddr(a) /\ s.fd # 0
        BY <3>1, <3>4 DEF ToEach, Registered
    <3>6. \E i \in Slots : manage[i].fd = tms_SelectFdByAddr(a)
        BY <2>1, <3>4, FoundByAddr
    <3> QED BY <3>5, <3>6
  <2>4. PassedOnOnce
      BY DoneIs DEF IInv, ManagerOK, PassedOnOnce, Readers, Only
  <2> QED BY <2>2, <2>3, <2>4 DEF ManagerReceivesOnce
<1> QED BY <1>1, DispatchInvariant, PTL

=============================================================================
