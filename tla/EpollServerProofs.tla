------------------------- MODULE EpollServerProofs -------------------------
(***************************************************************************)
(* Proofs about the nodes of the epoll server: for any number of cells,    *)
(* any limit above the listener, any length of events[] and any mixture of *)
(* shell commands, that the limit is kept, and that no thread comes back   *)
(* to a node it removed itself.                                            *)
(***************************************************************************)
EXTENDS EpollServer, CommonLemmas, FiniteSetTheorems

All     == Cells \union {Listen}
LiveSet == {n \in DOMAIN node : Live(n)}

Reasons == {"refused", "frame", "peer", "connect", "close", "stop"}
NodeType ==
    [st : {"unused", "live"} \union Reasons, polled : BOOLEAN, ptr : BOOLEAN,
     pend : BOOLEAN, fin : BOOLEAN]
WorkerType ==
    [pc : {"idle", "accepted", "admit", "recv", "remove"}, n : All,
     frames : Nat, end : BOOLEAN]
ShellType ==
    [pc : {"idle", "connecting", "connected", "closing", "closed", "stopping"},
     n : All, frames : Nat, end : BOOLEAN]

TypeOK ==
    /\ node \in [All -> NodeType]
    /\ node_cnt \in Int
    /\ backlog \in Nat
    /\ ready \in Seq(All) /\ batch \in Seq(All)
    /\ worker \in WorkerType /\ (worker.pc = "idle" => worker = Idle)
    /\ shell \in ShellType /\ (shell.pc = "idle" => shell = Idle)

Distinct(s) == \A i, j \in DOMAIN s : s[i] = s[j] => i = j

\* epoll reports a socket once, and only one that is open.
ListsOK ==
    /\ Distinct(ready) /\ Distinct(batch)
    /\ \A i \in DOMAIN ready : Live(ready[i])

\* What the worker holds is not what the worker removed; and the node it is
\* busy with is not in events[] again.
WorkerHolds ==
    /\ worker # Idle => \A i \in DOMAIN batch : batch[i] # worker.n
    /\ worker # Idle => node[worker.n].st \notin {"refused", "peer"}
    /\ \A i \in DOMAIN batch : node[batch[i]].st \notin {"refused", "peer"}

\* What the shell thread holds is not what the shell thread removed.
ShellHolds == shell # Idle => node[shell.n].st \notin {"connect", "close", "stop"}

CountOK == IsFiniteSet(LiveSet) /\ LimitKept

IInv ==
    /\ TypeOK
    /\ ListsOK
    /\ CountOK
    /\ WorkerHolds /\ ShellHolds
    /\ OwnRemovalsClean

-----------------------------------------------------------------------------
(* Lists of sockets. *)

\* What is kept are entries of the list, each at most once if it was so before.
LEMMA KeptEntries ==
    ASSUME NEW S, NEW s \in Seq(S), NEW R, R \subseteq DOMAIN s
    PROVE  /\ Kept(s, R) \in Seq(S)
           /\ \A i \in DOMAIN Kept(s, R) : \E p \in R : Kept(s, R)[i] = s[p]
           /\ Distinct(s) => Distinct(Kept(s, R))
<1>1. PICK place : TakenFrom(s, R, Kept(s, R), place)
    BY KeptAre
<1>2. \A i \in DOMAIN Kept(s, R) : place[i] \in R /\ Kept(s, R)[i] = s[place[i]]
    BY <1>1 DEF TakenFrom
<1>3. Kept(s, R) \in Seq(S)
    BY KeptAre
<1>4. ASSUME Distinct(s), NEW i \in DOMAIN Kept(s, R), NEW j \in DOMAIN Kept(s, R),
             Kept(s, R)[i] = Kept(s, R)[j]
      PROVE  i = j
  <2>1. place[i] = place[j]
      BY <1>2, <1>4 DEF Distinct
  <2>2. i \in Nat /\ j \in Nat /\ place[i] \in Nat
      BY <1>2, <1>3
  <2>3. ~(i < j) /\ ~(j < i)
      BY <1>1, <2>1, <2>2 DEF TakenFrom
  <2> QED BY <2>2, <2>3
<1> QED BY <1>2, <1>3, <1>4 DEF Distinct

-----------------------------------------------------------------------------
(* The operations on nodes. *)

Admitting == {"accepted", "admit", "connecting", "connected"}
Ent(c)    == IF c.pc \in Admitting THEN 1 ELSE 0

\* Entering counts the threads that are admitting a connection.
LEMMA EnteringIs ==
    ASSUME NEW w, NEW s
    PROVE  Cardinality({t \in {<<"worker", w>>, <<"shell", s>>} : t[2].pc \in Admitting})
               = Ent(w) + Ent(s)
<1> DEFINE a == <<"worker", w>>
           b == <<"shell", s>>
           E == {t \in {a, b} : t[2].pc \in Admitting}
<1>1. a # b /\ a[2] = w /\ b[2] = s
    OBVIOUS
<1> HIDE DEF a, b
<1>2. /\ IsFiniteSet({a}) /\ Cardinality({a}) = 1 /\ Cardinality({b}) = 1
      /\ Cardinality({a} \union {b}) = 2 /\ Cardinality({}) = 0
  <2>1. IsFiniteSet({a}) /\ Cardinality({a}) = 1
      BY FS_Singleton
  <2>2. Cardinality({b}) = 1 /\ Cardinality({}) = 0
      BY FS_Singleton, FS_EmptySet
  <2>3. Cardinality({a} \union {b}) = 2
    <3>1. b \notin {a}
        BY <1>1
    <3> QED BY <2>1, <3>1, FS_AddElement
  <2> QED BY <2>1, <2>2, <2>3
<1>3. Cardinality(E) = Ent(w) + Ent(s)
  <2>1. CASE w.pc \in Admitting /\ s.pc \in Admitting
    <3>1. E = {a} \union {b}
        BY <1>1, <2>1
    <3>2. Ent(w) = 1 /\ Ent(s) = 1
        BY <2>1 DEF Ent
    <3> QED BY <1>2, <3>1, <3>2
  <2>2. CASE w.pc \in Admitting /\ s.pc \notin Admitting
    <3>1. E = {a}
        BY <1>1, <2>2
    <3>2. Ent(w) = 1 /\ Ent(s) = 0
        BY <2>2 DEF Ent
    <3> QED BY <1>2, <3>1, <3>2
  <2>3. CASE w.pc \notin Admitting /\ s.pc \in Admitting
    <3>1. E = {b}
        BY <1>1, <2>3
    <3>2. Ent(w) = 0 /\ Ent(s) = 1
        BY <2>3 DEF Ent
    <3> QED BY <1>2, <3>1, <3>2
  <2>4. CASE w.pc \notin Admitting /\ s.pc \notin Admitting
    <3>1. E = {}
        BY <1>1, <2>4
    <3>2. Ent(w) = 0 /\ Ent(s) = 0
        BY <2>4 DEF Ent
    <3> QED BY <1>2, <3>1, <3>2
  <2> QED BY <2>1, <2>2, <2>3, <2>4
<1> QED BY <1>3 DEF a, b

\* The part of the invariant that counts, in the form the steps use it.
LEMMA LimitIs ==
    LimitKept <=> node_cnt = Cardinality(LiveSet) /\ node_cnt <= LIMIT - 1 + (Ent(worker) + Ent(shell))
<1>1. Entering = Ent(worker) + Ent(shell)
    BY EnteringIs DEF Entering, Admitting
<1> QED BY <1>1 DEF LimitKept, LiveSet

LEMMA LimitIsNext ==
    LimitKept' <=> /\ node_cnt' = Cardinality(LiveSet')
                   /\ node_cnt' <= LIMIT - 1 + (Ent(worker') + Ent(shell'))
<1>1. Entering' = Ent(worker') + Ent(shell')
    BY EnteringIs DEF Entering, Admitting
<1> QED BY <1>1 DEF LimitKept, LiveSet

\* ep_DelConNode takes one node off the list and out of epoll, and leaves the
\* others alone.
LEMMA DelConNodeRemoves ==
    ASSUME TypeOK, ListsOK, CountOK, NEW n \in All, Live(n), NEW by \in Reasons,
           DelConNode(n, by)
    PROVE  /\ node' \in [All -> NodeType]
           /\ \A m \in All : m # n => node'[m] = node[m]
           /\ node'[n].st \in {"unused", by}
           /\ node_cnt' \in Int
           /\ ready' \in Seq(All) /\ Distinct(ready')
           /\ \A i \in DOMAIN ready' : Live(ready[i])'
           /\ IsFiniteSet(LiveSet') /\ node_cnt' = Cardinality(LiveSet')
           /\ node_cnt' = node_cnt - 1
<1> DEFINE gone == IF n \in Pointers' THEN [Unused EXCEPT !.st = by] ELSE Unused
<1>1. node' = [node EXCEPT ![n] = gone] /\ node_cnt' = node_cnt - 1
    BY DEF DelConNode, Freed
<1>2. gone \in NodeType /\ gone.st \in {"unused", by} /\ gone.st # "live"
    BY DEF Unused, NodeType, Reasons
<1> HIDE DEF gone
<1>3. node \in [All -> NodeType] /\ node_cnt \in Int /\ ready \in Seq(All)
    BY DEF TypeOK
<1>4. /\ node' \in [All -> NodeType]
      /\ \A m \in All : m # n => node'[m] = node[m]
      /\ node'[n] = gone
    BY <1>1, <1>2, <1>3
<1>5. LiveSet' = LiveSet \ {n} /\ n \in LiveSet
    BY <1>2, <1>3, <1>4 DEF LiveSet, Live
<1>6. IsFiniteSet(LiveSet') /\ Cardinality(LiveSet') = Cardinality(LiveSet) - 1
    BY <1>5, FS_RemoveElement DEF CountOK
<1>7. node_cnt' = Cardinality(LiveSet')
    BY <1>1, <1>6, LimitIs DEF CountOK
<1> DEFINE R == {i \in DOMAIN ready : ready[i] # n}
<1>8. ready' = Kept(ready, R) /\ R \subseteq DOMAIN ready
    BY DEF DelConNode
<1>9. /\ Kept(ready, R) \in Seq(All)
      /\ \A i \in DOMAIN Kept(ready, R) : \E p \in R : Kept(ready, R)[i] = ready[p]
      /\ Distinct(ready) => Distinct(Kept(ready, R))
    BY <1>3, <1>8, KeptEntries
<1>10. ready' \in Seq(All) /\ Distinct(ready')
    BY <1>8, <1>9 DEF ListsOK
<1>11. ASSUME NEW i \in DOMAIN ready'
       PROVE  Live(ready[i])'
  <2>1. PICK p \in R : ready'[i] = ready[p]
      BY <1>8, <1>9
  <2>2. ready[p] # n /\ Live(ready[p]) /\ ready[p] \in All
      BY <1>3, <2>1 DEF ListsOK
  <2> QED BY <1>4, <2>1, <2>2 DEF Live
<1> QED BY <1>1, <1>2, <1>3, <1>4, <1>6, <1>7, <1>10, <1>11

\* malloc() and ep_AddClient put a node on the list that was not on it and that
\* no thread points to.
LEMMA AddClientAdds ==
    ASSUME TypeOK, ListsOK, CountOK, NEW n \in Cells, Fresh(n), AddClient(n)
    PROVE  /\ n \in All /\ ~Live(n) /\ n # worker.n /\ n # shell.n
           /\ \A i \in DOMAIN batch : batch[i] # n
           /\ node' \in [All -> NodeType]
           /\ \A m \in All : m # n => node'[m] = node[m]
           /\ node'[n].st = "live"
           /\ node_cnt' \in Int
           /\ IsFiniteSet(LiveSet') /\ node_cnt' = Cardinality(LiveSet')
           /\ node_cnt' = node_cnt + 1
<1>1. /\ n \in All /\ ~Live(n) /\ n # worker.n /\ n # shell.n
      /\ \A i \in DOMAIN batch : batch[i] # n
    BY DEF Fresh, Pointers, All
<1>2. Added \in NodeType /\ Added.st = "live"
    BY DEF Added, Unused, NodeType
<1>3. /\ node \in [All -> NodeType] /\ node_cnt \in Int
      /\ node' = [node EXCEPT ![n] = Added] /\ node_cnt' = node_cnt + 1
    BY DEF TypeOK, AddClient
<1>4. /\ node' \in [All -> NodeType]
      /\ \A m \in All : m # n => node'[m] = node[m]
      /\ node'[n] = Added
    BY <1>1, <1>2, <1>3
<1>5. LiveSet' = LiveSet \union {n} /\ n \notin LiveSet
    BY <1>1, <1>2, <1>3, <1>4 DEF LiveSet, Live
<1>6. IsFiniteSet(LiveSet') /\ Cardinality(LiveSet') = Cardinality(LiveSet) + 1
    BY <1>5, FS_AddElement DEF CountOK
<1>7. node_cnt' = Cardinality(LiveSet')
    BY <1>3, <1>6, LimitIs DEF CountOK
<1> QED BY <1>1, <1>2, <1>3, <1>4, <1>6, <1>7

-----------------------------------------------------------------------------
(* Every step is one of four kinds: it leaves the list of nodes alone, adds   *)
(* a node, removes one, or trips.                                             *)

\* The lists and calls r, b, w, s fit the nodes as they are in n.
ListFits(n, r) ==
    r \in Seq(All) /\ Distinct(r) /\ \A i \in DOMAIN r : n[r[i]].st = "live"
BatchFits(n, b) ==
    /\ b \in Seq(All) /\ Distinct(b)
    /\ \A i \in DOMAIN b : n[b[i]].st \notin {"refused", "peer"}
WorkerFits(n, b, w) ==
    /\ w \in WorkerType /\ (w.pc = "idle" => w = Idle)
    /\ w # Idle => /\ \A i \in DOMAIN b : b[i] # w.n
                   /\ n[w.n].st \notin {"refused", "peer"}
ShellFits(n, s) ==
    /\ s \in ShellType /\ (s.pc = "idle" => s = Idle)
    /\ s # Idle => n[s.n].st \notin {"connect", "close", "stop"}

\* The invariant in these terms.
LEMMA InvIs ==
    IInv <=> /\ node \in [All -> NodeType] /\ node_cnt \in Int /\ backlog \in Nat
             /\ ListFits(node, ready) /\ BatchFits(node, batch)
             /\ WorkerFits(node, batch, worker) /\ ShellFits(node, shell)
             /\ CountOK /\ OwnRemovalsClean
    BY DEF IInv, TypeOK, ListsOK, WorkerHolds, ShellHolds, Live,
           ListFits, BatchFits, WorkerFits, ShellFits

LEMMA InvIsNext ==
    IInv' <=> /\ node' \in [All -> NodeType] /\ node_cnt' \in Int /\ backlog' \in Nat
              /\ ListFits(node', ready') /\ BatchFits(node', batch')
              /\ WorkerFits(node', batch', worker') /\ ShellFits(node', shell')
              /\ CountOK' /\ OwnRemovalsClean'
    BY DEF IInv, TypeOK, ListsOK, WorkerHolds, ShellHolds, Live,
           ListFits, BatchFits, WorkerFits, ShellFits

LEMMA CountNext ==
    ASSUME IsFiniteSet(LiveSet'), node_cnt' = Cardinality(LiveSet'),
           node_cnt' <= LIMIT - 1 + (Ent(worker') + Ent(shell'))
    PROVE  CountOK'
    BY LimitIsNext DEF CountOK

\* Steps that change no state of a node.
LEMMA SameNodesKeep ==
    ASSUME IInv, Sound,
           node' \in [All -> NodeType], \A m \in All : node'[m].st = node[m].st,
           node_cnt' = node_cnt, backlog' \in Nat,
           ListFits(node, ready'), BatchFits(node, batch'),
           WorkerFits(node, batch', worker'), ShellFits(node, shell'),
           node_cnt <= LIMIT - 1 + (Ent(worker') + Ent(shell'))
    PROVE  IInv'
<1>1. LiveSet' = LiveSet
    BY DEF IInv, TypeOK, LiveSet, Live
<1>2. CountOK'
    BY <1>1, CountNext, LimitIs DEF IInv, CountOK
<1>3. ListFits(node', ready') /\ BatchFits(node', batch')
  <2>1. \A i \in DOMAIN ready' : ready'[i] \in All
      BY DEF ListFits
  <2>2. \A i \in DOMAIN batch' : batch'[i] \in All
      BY DEF BatchFits
  <2> QED BY <2>1, <2>2 DEF ListFits, BatchFits
<1>4. WorkerFits(node', batch', worker') /\ ShellFits(node', shell')
    BY DEF WorkerFits, ShellFits, WorkerType, ShellType
<1>5. OwnRemovalsClean'
    BY DEF IInv, Sound, OwnRemovalsClean
<1> QED BY <1>2, <1>3, <1>4, <1>5, InvIsNext DEF IInv, TypeOK

\* Steps that free a node: the thread that does it, for a reason of its own,
\* lets go of it, and the worker does not have it in events[] either.
LEMMA RemovalKeeps ==
    ASSUME IInv, Sound, NEW n \in All, Live(n), NEW by \in Reasons, DelConNode(n, by),
           backlog' \in Nat, batch' = batch,
           worker' \in WorkerType, worker'.pc = "idle" => worker' = Idle,
           worker' # Idle => worker # Idle /\ worker'.n = worker.n,
           by \in {"refused", "peer"} =>
                worker' = Idle /\ \A i \in DOMAIN batch : batch[i] # n,
           ShellFits(node, shell'),
           by \in {"connect", "close", "stop"} => shell' = Idle \/ shell'.n # n,
           node_cnt - 1 <= LIMIT - 1 + (Ent(worker') + Ent(shell'))
    PROVE  IInv'
<1>1. TypeOK /\ ListsOK /\ CountOK
    BY DEF IInv
<1>2. /\ node' \in [All -> NodeType]
      /\ \A m \in All : m # n => node'[m] = node[m]
      /\ node'[n].st \in {"unused", by}
      /\ node_cnt' \in Int
      /\ ready' \in Seq(All) /\ Distinct(ready')
      /\ \A i \in DOMAIN ready' : Live(ready[i])'
      /\ IsFiniteSet(LiveSet') /\ node_cnt' = Cardinality(LiveSet')
      /\ node_cnt' = node_cnt - 1
    BY <1>1, DelConNodeRemoves
<1>3. CountOK'
    BY <1>2, CountNext
<1>4. ListFits(node', ready')
    BY <1>2 DEF ListFits, Live
<1>5. ASSUME NEW m \in All, node[m].st \notin {"refused", "peer"},
             by \in {"refused", "peer"} => m # n
      PROVE  node'[m].st \notin {"refused", "peer"}
    BY <1>2, <1>5
<1>6. BatchFits(node', batch')
  <2>1. BatchFits(node, batch)
      BY InvIs
  <2>2. \A i \in DOMAIN batch : batch[i] \in All
      BY <2>1 DEF BatchFits
  <2> QED BY <1>5, <2>1, <2>2 DEF BatchFits
<1>7. WorkerFits(node', batch', worker')
  <2>1. WorkerFits(node, batch, worker)
      BY InvIs
  <2>2. worker' # Idle => worker'.n \in All
      BY DEF WorkerType
  <2> QED BY <1>5, <2>1, <2>2 DEF WorkerFits
<1>8. ShellFits(node', shell')
  <2>1. shell' # Idle => shell'.n \in All
      BY DEF ShellFits, ShellType
  <2>2. ASSUME shell' # Idle
        PROVE  node'[shell'.n].st \notin {"connect", "close", "stop"}
    <3>1. CASE shell'.n = n
        BY <1>2, <2>2, <3>1
    <3>2. CASE shell'.n # n
        BY <1>2, <2>1, <2>2, <3>2 DEF ShellFits
    <3> QED BY <3>1, <3>2
  <2> QED BY <2>2 DEF ShellFits
<1>9. OwnRemovalsClean'
    BY DEF IInv, Sound, OwnRemovalsClean
<1> QED BY <1>2, <1>3, <1>4, <1>6, <1>7, <1>8, <1>9, InvIsNext

\* Steps that put a new node on the list, by a thread that had none: it is not
\* one that anybody points to.
LEMMA AdditionKeeps ==
    ASSUME IInv, Sound, NEW n \in Cells, Fresh(n), AddClient(n),
           backlog' \in Nat, ready' = ready,
           BatchFits(node, batch'),
           \A i \in DOMAIN batch' : \E j \in DOMAIN batch : batch'[i] = batch[j],
           worker' \in WorkerType, worker'.pc = "idle" => worker' = Idle,
           shell' \in ShellType, shell'.pc = "idle" => shell' = Idle,
           \/ worker'.n = n /\ shell' = shell
           \/ worker' = worker /\ shell'.n = n,
           node_cnt + 1 <= LIMIT - 1 + (Ent(worker') + Ent(shell'))
    PROVE  IInv'
<1>1. TypeOK /\ ListsOK /\ CountOK
    BY DEF IInv
<1>2. /\ n \in All /\ ~Live(n) /\ n # worker.n /\ n # shell.n
      /\ \A i \in DOMAIN batch : batch[i] # n
      /\ node' \in [All -> NodeType]
      /\ \A m \in All : m # n => node'[m] = node[m]
      /\ node'[n].st = "live"
      /\ node_cnt' \in Int
      /\ IsFiniteSet(LiveSet') /\ node_cnt' = Cardinality(LiveSet')
      /\ node_cnt' = node_cnt + 1
    BY <1>1, AddClientAdds
<1>3. CountOK'
    BY <1>2, CountNext
<1>4. ASSUME NEW m \in All
      PROVE  node'[m].st = node[m].st \/ node'[m].st = "live"
    BY <1>2
<1>5. ListFits(node', ready')
  <2>1. ListFits(node, ready)
      BY InvIs
  <2>2. \A i \in DOMAIN ready : ready[i] \in All
      BY <2>1 DEF ListFits
  <2> QED BY <1>4, <2>1, <2>2 DEF ListFits
<1>6. BatchFits(node', batch')
  <2>1. \A i \in DOMAIN batch' : batch'[i] \in All
      BY DEF BatchFits
  <2> QED BY <1>4, <2>1 DEF BatchFits
<1>7. WorkerFits(node', batch', worker')
  <2>1. WorkerFits(node, batch, worker)
      BY InvIs
  <2>2. CASE worker'.n = n
      BY <1>2, <2>2 DEF WorkerFits
  <2>3. CASE worker' = worker
    <3>1. worker \in WorkerType
        BY <2>1 DEF WorkerFits
    <3>2. worker.n \in All
        BY <3>1 DEF WorkerType
    <3> QED BY <1>4, <2>1, <2>3, <3>2 DEF WorkerFits
  <2> QED BY <2>2, <2>3
<1>8. ShellFits(node', shell')
  <2>1. ShellFits(node, shell)
      BY InvIs
  <2>2. CASE shell'.n = n
      BY <1>2, <2>2 DEF ShellFits
  <2>3. CASE shell' = shell
    <3>1. shell \in ShellType
        BY <2>1 DEF ShellFits
    <3>2. shell.n \in All
        BY <3>1 DEF ShellType
    <3> QED BY <1>4, <2>1, <2>3, <3>2 DEF ShellFits
  <2> QED BY <2>2, <2>3
<1>9. OwnRemovalsClean'
    BY DEF IInv, Sound, OwnRemovalsClean
<1> QED BY <1>2, <1>3, <1>5, <1>6, <1>7, <1>8, <1>9, InvIsNext

\* Steps that end the program: the node is not one of those that the thread
\* itself removed.
LEMMA TripKeeps == IInv /\ (WorkerTrips \/ ShellTrips) => IInv'
<1> SUFFICES ASSUME IInv, WorkerTrips \/ ShellTrips
             PROVE  IInv'
    OBVIOUS
<1>1. UNCHANGED <<node, node_cnt, backlog, ready, batch, worker, shell, session>>
    BY DEF WorkerTrips, ShellTrips, Trip, NoState
<1>2. TypeOK' /\ ListsOK' /\ WorkerHolds' /\ ShellHolds' /\ CountOK'
    BY <1>1 DEF IInv, TypeOK, ListsOK, WorkerHolds, ShellHolds, CountOK, LimitKept,
                Entering, LiveSet, Live
<1>3. OwnRemovalsClean'
  <2>1. CASE Trip("worker", WorkerUses)
    <3>1. WorkerUses # Nothing /\ fault' = [who |-> "worker", by |-> node[WorkerUses].st]
        BY <2>1 DEF Trip
    <3>2. node[WorkerUses].st \notin {"refused", "peer"}
      <4>1. CASE worker = Idle
        <5>1. batch # <<>> /\ WorkerUses = Head(batch)
            BY <3>1, <4>1 DEF WorkerUses, Idle
        <5>2. batch \in Seq(All) /\ 1 \in DOMAIN batch /\ Head(batch) = batch[1]
            BY <5>1 DEF IInv, TypeOK
        <5> QED BY <5>1, <5>2 DEF IInv, WorkerHolds
      <4>2. CASE worker # Idle
        <5>1. WorkerUses = worker.n
            BY <3>1, <4>2 DEF WorkerUses
        <5> QED BY <4>2, <5>1 DEF IInv, WorkerHolds
      <4> QED BY <4>1, <4>2
    <3> QED BY <3>1, <3>2 DEF OwnRemovalsClean
  <2>2. CASE shell # Idle /\ Trip("shell", shell.n)
      BY <2>2 DEF IInv, ShellHolds, Trip, OwnRemovalsClean
  <2>3. ASSUME NEW who, NEW m, NoState(who, m)
        PROVE  OwnRemovalsClean'
      BY <2>3 DEF NoState, OwnRemovalsClean
  <2> QED BY <2>1, <2>2, <2>3 DEF WorkerTrips, ShellTrips
<1> QED BY <1>2, <1>3 DEF IInv

-----------------------------------------------------------------------------
(* The steps of the peers and of the kernel. *)

\* What the steps below find: the parts of the invariant, and the limit.
LEMMA Parts ==
    ASSUME IInv
    PROVE  /\ node \in [All -> NodeType] /\ node_cnt \in Int /\ backlog \in Nat
           /\ ListFits(node, ready) /\ BatchFits(node, batch)
           /\ WorkerFits(node, batch, worker) /\ ShellFits(node, shell)
           /\ Ent(worker) \in {0, 1} /\ Ent(shell) \in {0, 1}
           /\ LIMIT \in Int
           /\ node_cnt <= LIMIT - 1 + (Ent(worker) + Ent(shell))
           /\ Listen \in All /\ Cells \subseteq All
           /\ DOMAIN node = All
<1>1. LIMIT \in Int
    BY ServerAssumption
<1>2. node_cnt <= LIMIT - 1 + (Ent(worker) + Ent(shell))
    BY LimitIs DEF IInv, CountOK
<1>3. node \in [All -> NodeType]
    BY InvIs
<1> QED BY <1>1, <1>2, <1>3, InvIs DEF Ent, All

\* A socket enters the ready list once.
LEMMA EnqueueFits ==
    ASSUME ListFits(node, ready), NEW m \in All, node[m].st = "live", Enqueue(m)
    PROVE  ListFits(node, ready')
<1>1. CASE ready' = ready
    BY <1>1
<1>2. CASE ready' = Append(ready, m) /\ ~ \E i \in DOMAIN ready : ready[i] = m
  <2>1. ready \in Seq(All) /\ Len(ready) \in Nat /\ DOMAIN ready = 1 .. Len(ready)
      BY DEF ListFits
  <2>2. /\ ready' \in Seq(All) /\ DOMAIN ready' = 1 .. Len(ready) + 1
        /\ \A i \in 1 .. Len(ready) : ready'[i] = ready[i]
        /\ ready'[Len(ready) + 1] = m
      BY <1>2, <2>1
  <2>3. Distinct(ready')
    <3>1. SUFFICES ASSUME NEW i \in 1 .. Len(ready) + 1, NEW j \in 1 .. Len(ready) + 1,
                          ready'[i] = ready'[j]
                   PROVE  i = j
        BY <2>2 DEF Distinct
    <3>2. CASE i \in 1 .. Len(ready) /\ j \in 1 .. Len(ready)
        BY <2>1, <2>2, <3>1, <3>2 DEF ListFits, Distinct
    <3>3. CASE i = Len(ready) + 1 /\ j \in 1 .. Len(ready)
        BY <1>2, <2>1, <2>2, <3>1, <3>3
    <3>4. CASE j = Len(ready) + 1 /\ i \in 1 .. Len(ready)
        BY <1>2, <2>1, <2>2, <3>1, <3>4
    <3> QED BY <2>1, <3>2, <3>3, <3>4
  <2>4. \A i \in DOMAIN ready' : node[ready'[i]].st = "live"
      BY <2>1, <2>2 DEF ListFits
  <2> QED BY <2>2, <2>3, <2>4 DEF ListFits
<1> QED BY <1>1, <1>2 DEF Enqueue

LEMMA PeerKeeps == IInv /\ (PeerConnect \/ PeerSend \/ PeerClose) => IInv'
<1> SUFFICES ASSUME IInv
             PROVE  PeerConnect \/ PeerSend \/ PeerClose => IInv'
    OBVIOUS
<1> USE Parts
<1>1. CASE PeerConnect
  <2>1. /\ Sound /\ UNCHANGED <<node, node_cnt, batch, worker, shell>>
        /\ backlog' = backlog + 1 /\ node[Listen].st = "live" /\ Enqueue(Listen)
      BY <1>1 DEF PeerConnect, Live
  <2>2. ListFits(node, ready')
      BY <2>1, EnqueueFits
  <2> QED BY <2>1, <2>2, SameNodesKeep
<1>2. ASSUME NEW n \in Clients, NEW rec \in NodeType, rec.st = node[n].st,
             node' = [node EXCEPT ![n] = rec], Enqueue(n),
             Sound, UNCHANGED <<node_cnt, backlog, batch, worker, shell>>
      PROVE  IInv'
  <2>1. n \in All /\ node[n].st = "live"
      BY DEF Clients, Live
  <2>2. ListFits(node, ready')
      BY <1>2, <2>1, EnqueueFits
  <2>3. node' \in [All -> NodeType] /\ \A m \in All : node'[m].st = node[m].st
      BY <1>2, <2>1
  <2> QED BY <1>2, <2>2, <2>3, SameNodesKeep
<1>3. CASE PeerSend
  <2>1. PICK n \in Clients :
            node' = [node EXCEPT ![n] = [node[n] EXCEPT !.pend = TRUE]] /\ Enqueue(n)
      BY <1>3 DEF PeerSend
  <2>2. /\ [node[n] EXCEPT !.pend = TRUE] \in NodeType
        /\ [node[n] EXCEPT !.pend = TRUE].st = node[n].st
      BY DEF Clients, NodeType
  <2> QED BY <1>2, <1>3, <2>1, <2>2 DEF PeerSend
<1>4. CASE PeerClose
  <2>1. PICK n \in Clients :
            node' = [node EXCEPT ![n] = [node[n] EXCEPT !.fin = TRUE]] /\ Enqueue(n)
      BY <1>4 DEF PeerClose
  <2>2. /\ [node[n] EXCEPT !.fin = TRUE] \in NodeType
        /\ [node[n] EXCEPT !.fin = TRUE].st = node[n].st
      BY DEF Clients, NodeType
  <2> QED BY <1>2, <1>4, <2>1, <2>2 DEF PeerClose
<1> QED BY <1>1, <1>3, <1>4

\* The front of a list put behind the rest.
LEMMA Rotated ==
    ASSUME NEW S, NEW s \in Seq(S), NEW k \in 0 .. Len(s)
    PROVE  LET t == SubSeq(s, k + 1, Len(s)) \o SubSeq(s, 1, k)
           IN  /\ t \in Seq(S) /\ DOMAIN t = 1 .. Len(s)
               /\ \A i \in 1 .. Len(s) :
                    t[i] = s[IF i <= Len(s) - k THEN i + k ELSE i - (Len(s) - k)]
<1> DEFINE a == SubSeq(s, k + 1, Len(s))
           b == SubSeq(s, 1, k)
           At(i) == IF i <= Len(s) - k THEN i + k ELSE i - (Len(s) - k)
<1>1. Len(s) \in Nat /\ k \in Nat /\ k <= Len(s)
    OBVIOUS
<1>2. /\ a \in Seq(S) /\ Len(a) = Len(s) - k
      /\ \A i \in 1 .. Len(s) - k : a[i] = s[i + k]
  <2>1. a \in Seq(S)
      BY <1>1
  <2>2. Len(a) = Len(s) - k
      BY <1>1
  <2>3. ASSUME NEW i \in 1 .. Len(s) - k
        PROVE  a[i] = s[i + k]
      BY <1>1
  <2> QED BY <2>1, <2>2, <2>3
<1>3. /\ b \in Seq(S) /\ Len(b) = k
      /\ \A i \in 1 .. k : b[i] = s[i]
    BY <1>1
<1> HIDE DEF a, b
<1>4. a \o b \in Seq(S) /\ Len(a \o b) = Len(s)
    BY <1>1, <1>2, <1>3
<1>5. ASSUME NEW i \in 1 .. Len(s)
      PROVE  (a \o b)[i] = s[At(i)]
  <2>1. CASE i <= Len(s) - k
    <3>1. i \in 1 .. Len(s) - k
        BY <1>1, <2>1
    <3>2. (a \o b)[i] = a[i]
        BY <1>1, <1>2, <1>3, <3>1
    <3>3. At(i) = i + k
        BY <2>1
    <3> QED BY <1>2, <3>1, <3>2, <3>3
  <2>2. CASE i > Len(s) - k
    <3>1. i - (Len(s) - k) \in 1 .. k
        BY <1>1, <2>2
    <3>2. (a \o b)[i] = b[i - (Len(s) - k)]
      <4>1. PICK j \in 1 .. k : j = i - (Len(s) - k)
          BY <3>1
      <4>2. i = Len(a) + j
          BY <1>1, <1>2, <4>1
      <4>3. a \in Seq(S) /\ b \in Seq(S) /\ j \in 1 .. Len(b)
          BY <1>2, <1>3
      <4>4. (a \o b)[Len(a) + j] = b[j]
          BY <4>3
      <4> QED BY <4>1, <4>2, <4>4
    <3>3. b[i - (Len(s) - k)] = s[i - (Len(s) - k)]
        BY <1>3, <3>1
    <3>4. At(i) = i - (Len(s) - k)
        BY <1>1, <2>2
    <3> HIDE DEF At
    <3> QED BY <3>2, <3>3, <3>4
  <2>3. i <= Len(s) - k \/ i > Len(s) - k
      BY <1>1
  <2> HIDE DEF At
  <2> QED BY <2>1, <2>2, <2>3
<1>6. DOMAIN (a \o b) = 1 .. Len(s)
    BY <1>4
<1> QED BY <1>4, <1>5, <1>6 DEF a, b

\* epoll_wait: the sockets that are reported are entries of the ready list, and
\* they stay in it behind the others.
LEMMA WaitKeeps == IInv /\ Wait => IInv'
<1> SUFFICES ASSUME IInv, Wait
             PROVE  IInv'
    OBVIOUS
<1> USE Parts
<1> DEFINE R == {i \in DOMAIN ready : Readable(ready[i])}
           now == Kept(ready, R)
           k == IF Len(now) < BATCH THEN Len(now) ELSE BATCH
<1>1. /\ worker = Idle /\ Sound /\ UNCHANGED <<node, node_cnt, backlog, worker, shell>>
      /\ batch' = SubSeq(now, 1, k)
      /\ ready' = SubSeq(now, k + 1, Len(now)) \o SubSeq(now, 1, k)
    BY DEF Wait
<1>2. ready \in Seq(All) /\ R \subseteq DOMAIN ready
    BY DEF ListFits
<1>3. /\ now \in Seq(All)
      /\ \A i \in DOMAIN now : \E p \in R : now[i] = ready[p]
      /\ Distinct(ready) => Distinct(now)
    BY <1>2, KeptEntries
<1>4. Distinct(now) /\ \A i \in DOMAIN now : node[now[i]].st = "live"
    BY <1>2, <1>3 DEF ListFits
<1> HIDE DEF R, now
<1>5. Len(now) \in Nat /\ DOMAIN now = 1 .. Len(now) /\ k \in 0 .. Len(now)
    BY <1>3, ServerAssumption
<1>6. /\ batch' \in Seq(All) /\ DOMAIN batch' = 1 .. k
      /\ \A i \in 1 .. k : batch'[i] = now[i]
    BY SMTT(30), <1>1, <1>3, <1>5
<1>7. BatchFits(node, batch')
    BY SMTT(30), <1>4, <1>5, <1>6 DEF BatchFits, Distinct
<1> DEFINE At(i) == IF i <= Len(now) - k THEN i + k ELSE i - (Len(now) - k)
<1>8. /\ ready' \in Seq(All) /\ DOMAIN ready' = 1 .. Len(now)
      /\ \A i \in 1 .. Len(now) : ready'[i] = now[At(i)]
  <2> HIDE DEF k
  <2> QED BY <1>1, <1>3, <1>5, Rotated
<1> HIDE DEF k
<1>9. /\ \A i \in 1 .. Len(now) : At(i) \in 1 .. Len(now)
      /\ \A i, j \in 1 .. Len(now) : At(i) = At(j) => i = j
    BY SMTT(30), <1>5
<1> HIDE DEF At
<1>10. ListFits(node, ready')
  <2>1. Distinct(ready')
      BY <1>4, <1>5, <1>8, <1>9 DEF Distinct
  <2>2. \A i \in DOMAIN ready' : node[ready'[i]].st = "live"
      BY <1>4, <1>5, <1>8, <1>9
  <2> QED BY <1>8, <2>1, <2>2 DEF ListFits
<1>11. WorkerFits(node, batch', worker')
    BY <1>1 DEF WorkerFits
<1> QED BY <1>1, <1>7, <1>10, <1>11, SameNodesKeep

-----------------------------------------------------------------------------
(* The steps of the worker. *)

\* The next event: the socket is not among the rest of events[].
LEMMA NextEventFits ==
    ASSUME BatchFits(node, batch), NextEvent
    PROVE  /\ worker = Idle
           /\ Head(batch) \in All /\ node[Head(batch)].st \notin {"refused", "peer"}
           /\ BatchFits(node, batch')
           /\ \A i \in DOMAIN batch' :
                /\ batch'[i] # Head(batch)
                /\ \E j \in DOMAIN batch : batch'[i] = batch[j]
<1>1. worker = Idle /\ batch # <<>> /\ batch' = Tail(batch)
    BY DEF NextEvent, Rest
<1>2. /\ batch \in Seq(All) /\ Len(batch) \in Nat \ {0} /\ DOMAIN batch = 1 .. Len(batch)
      /\ Head(batch) = batch[1]
    BY <1>1 DEF BatchFits
<1>3. /\ batch' \in Seq(All) /\ DOMAIN batch' = 1 .. Len(batch) - 1
      /\ \A i \in 1 .. Len(batch) - 1 : batch'[i] = batch[i + 1]
    BY <1>1, <1>2
<1>4. \A i \in 1 .. Len(batch) - 1 : i + 1 \in 1 .. Len(batch) /\ i + 1 # 1
    BY <1>2
<1>5. BatchFits(node, batch')
  <2>1. ASSUME NEW i \in 1 .. Len(batch) - 1, NEW j \in 1 .. Len(batch) - 1,
               batch'[i] = batch'[j]
        PROVE  i = j
    <3>1. batch[i + 1] = batch[j + 1]
        BY <1>3, <2>1
    <3>2. i + 1 = j + 1
        BY <1>2, <1>4, <3>1 DEF BatchFits, Distinct
    <3> QED BY <1>2, <3>2
  <2>2. \A i \in DOMAIN batch' : node[batch'[i]].st \notin {"refused", "peer"}
      BY <1>2, <1>3, <1>4 DEF BatchFits
  <2>3. Distinct(batch')
      BY <1>3, <2>1 DEF Distinct
  <2> QED BY <1>3, <2>2, <2>3 DEF BatchFits
<1>6. \A i \in DOMAIN batch' : batch'[i] # Head(batch)
    BY SMTT(30), <1>2, <1>3, <1>4 DEF BatchFits, Distinct
<1>7. \A i \in DOMAIN batch' : \E j \in DOMAIN batch : batch'[i] = batch[j]
    BY <1>2, <1>3, <1>4
<1>8. Head(batch) \in All /\ node[Head(batch)].st \notin {"refused", "peer"}
  <2>1. 1 \in DOMAIN batch
      BY <1>2
  <2> QED BY <1>2, <2>1 DEF BatchFits
<1> QED BY <1>1, <1>5, <1>6, <1>7, <1>8

LEMMA IdleFacts == Idle.pc = "idle" /\ Idle \in WorkerType /\ Idle \in ShellType /\ Ent(Idle) = 0
    BY DEF Idle, WorkerType, ShellType, Ent, Admitting, All

LEMMA AcceptKeeps == IInv /\ Accept => IInv'
<1> SUFFICES ASSUME IInv, Accept
             PROVE  IInv'
    OBVIOUS
<1> USE Parts, IdleFacts
<1>1. /\ BatchFits(node, batch') /\ worker = Idle
      /\ \A i \in DOMAIN batch' : \E j \in DOMAIN batch : batch'[i] = batch[j]
  <2>1. NextEvent
      BY DEF Accept
  <2> QED BY <2>1, NextEventFits
<1>2. CASE UNCHANGED <<node, node_cnt, backlog, worker>>
  <2>1. /\ Sound /\ UNCHANGED <<node, node_cnt, backlog, worker, ready, shell>>
      BY <1>2 DEF Accept
  <2>2. WorkerFits(node, batch', worker')
      BY <1>1, <2>1 DEF WorkerFits
  <2> QED BY <1>1, <2>1, <2>2, SameNodesKeep
<1>3. ASSUME NEW n \in Cells, Fresh(n), AddClient(n),
             worker' = [Idle EXCEPT !.pc = "accepted", !.n = n], backlog' = backlog - 1,
             backlog > 0
      PROVE  IInv'
  <2>1. worker' \in WorkerType /\ worker'.pc = "accepted" /\ worker'.n = n /\ Ent(worker') = 1
      BY <1>3 DEF WorkerType, Ent, Admitting, Idle
  <2>2. Sound /\ ready' = ready /\ shell' = shell
      BY DEF Accept
  <2>3. shell \in ShellType /\ (shell.pc = "idle" => shell = Idle)
      BY DEF ShellFits
  <2>4. node_cnt + 1 <= LIMIT - 1 + (Ent(worker') + Ent(shell'))
      BY <1>1, <2>1, <2>2
  <2>5. backlog' \in Nat
      BY <1>3
  <2> QED BY <1>1, <1>3, <2>1, <2>2, <2>3, <2>4, <2>5, AdditionKeeps
<1> QED BY <1>2, <1>3 DEF Accept

\* The worker goes on with the node it is busy with.
LEMMA WorkerGoesOn ==
    ASSUME IInv, worker # Idle, batch' = batch,
           worker' \in WorkerType, worker'.pc # "idle", worker'.n = worker.n
    PROVE  WorkerFits(node, batch', worker')
    BY Parts DEF WorkerFits

LEMMA OnAcceptKeeps == IInv /\ OnAccept => IInv'
<1> SUFFICES ASSUME IInv, OnAccept
             PROVE  IInv'
    OBVIOUS
<1> USE Parts, IdleFacts
<1>1. /\ worker.pc = "accepted" /\ worker' = [worker EXCEPT !.pc = "admit"]
      /\ node' = [node EXCEPT ![worker.n] = [node[worker.n] EXCEPT !.ptr = TRUE]]
      /\ Sound /\ UNCHANGED <<node_cnt, backlog, ready, batch, shell>>
    BY DEF OnAccept
<1>2. worker \in WorkerType /\ worker.n \in All
    BY DEF WorkerFits, WorkerType
<1>3. node' \in [All -> NodeType] /\ \A m \in All : node'[m].st = node[m].st
  <2>1. /\ [node[worker.n] EXCEPT !.ptr = TRUE] \in NodeType
        /\ [node[worker.n] EXCEPT !.ptr = TRUE].st = node[worker.n].st
      BY <1>2 DEF NodeType
  <2> QED BY <1>1, <1>2, <2>1
<1>4. worker' \in WorkerType /\ worker'.pc = "admit" /\ worker'.n = worker.n
    BY <1>1, <1>2 DEF WorkerType
<1>5. WorkerFits(node, batch', worker')
    BY <1>1, <1>4, WorkerGoesOn
<1>6. Ent(worker') = Ent(worker)
    BY <1>1, <1>4 DEF Ent, Admitting
<1> QED BY <1>1, <1>3, <1>5, <1>6, SameNodesKeep

LEMMA AdmitKeeps == IInv /\ Admit => IInv'
<1> SUFFICES ASSUME IInv, Admit
             PROVE  IInv'
    OBVIOUS
<1> USE Parts, IdleFacts
<1>1. /\ worker.pc = "admit" /\ worker # Idle /\ worker' = Idle
      /\ Sound /\ UNCHANGED <<backlog, batch, shell>>
    BY DEF Admit
<1>2. worker \in WorkerType /\ worker.n \in All /\ Ent(worker) = 1
    BY <1>1 DEF WorkerFits, WorkerType, Ent, Admitting
<1>3. CASE ~OverLimit /\ UNCHANGED <<node, node_cnt, ready>>
  <2>1. node_cnt <= LIMIT - 1 + (Ent(worker') + Ent(shell'))
      BY <1>1, <1>3 DEF OverLimit
  <2>2. WorkerFits(node, batch', worker')
      BY <1>1 DEF WorkerFits
  <2> QED BY <1>1, <1>3, <2>1, <2>2, SameNodesKeep
<1>4. CASE Live(worker.n) /\ DelConNode(worker.n, "refused")
  <2>1. \A i \in DOMAIN batch : batch[i] # worker.n
      BY <1>1 DEF WorkerFits
  <2>2. node_cnt - 1 <= LIMIT - 1 + (Ent(worker') + Ent(shell'))
      BY <1>1, <1>2
  <2>3. "refused" \in Reasons
      BY DEF Reasons
  <2> QED BY <1>1, <1>2, <1>4, <2>1, <2>2, <2>3, RemovalKeeps
<1> QED BY <1>3, <1>4 DEF Admit

LEMMA RecvStartKeeps == IInv /\ (RecvUnready \/ RecvStart) => IInv'
<1> SUFFICES ASSUME IInv, RecvUnready \/ RecvStart
             PROVE  IInv'
    OBVIOUS
<1> USE Parts, IdleFacts
<1> DEFINE n == Head(batch)
<1>1. /\ worker = Idle /\ n \in All /\ node[n].st \notin {"refused", "peer"}
      /\ BatchFits(node, batch') /\ \A i \in DOMAIN batch' : batch'[i] # n
  <2>1. NextEvent
      BY DEF RecvUnready, RecvStart
  <2> QED BY <2>1, NextEventFits
<1> HIDE DEF n
<1>2. CASE RecvUnready
  <2>1. Sound /\ UNCHANGED <<node, node_cnt, backlog, ready, worker, shell>>
      BY <1>2 DEF RecvUnready
  <2>2. WorkerFits(node, batch', worker')
      BY <1>1, <2>1 DEF WorkerFits
  <2> QED BY <1>1, <2>1, <2>2, SameNodesKeep
<1>3. CASE RecvStart
  <2>1. PICK k \in 0 .. MAXFRAMES :
            /\ node' = [node EXCEPT ![n] = [node[n] EXCEPT !.pend = FALSE]]
            /\ worker' = [pc |-> "recv", n |-> n, frames |-> k,
                          end |-> ~node[n].pend /\ node[n].fin]
      BY <1>3 DEF RecvStart, n
  <2>2. Sound /\ UNCHANGED <<node_cnt, backlog, ready, shell>>
      BY <1>3 DEF RecvStart
  <2>3. node' \in [All -> NodeType] /\ \A m \in All : node'[m].st = node[m].st
    <3>1. /\ [node[n] EXCEPT !.pend = FALSE] \in NodeType
          /\ [node[n] EXCEPT !.pend = FALSE].st = node[n].st
        BY ZenonT(60), <1>1 DEF NodeType
    <3> QED BY <1>1, <2>1, <3>1
  <2>4. worker' \in WorkerType /\ worker'.pc = "recv" /\ worker'.n = n
      BY <1>1, <2>1, ServerAssumption DEF WorkerType
  <2>5. WorkerFits(node, batch', worker')
      BY <1>1, <2>4 DEF WorkerFits
  <2>6. Ent(worker') = Ent(worker)
      BY <1>1, <2>4 DEF Ent, Admitting
  <2> QED BY <1>1, <2>2, <2>3, <2>5, <2>6, SameNodesKeep
<1> QED BY <1>2, <1>3

LEMMA HandleFrameKeeps == IInv /\ HandleFrame => IInv'
<1> SUFFICES ASSUME IInv, HandleFrame
             PROVE  IInv'
    OBVIOUS
<1> USE Parts, IdleFacts
<1>1. /\ worker.pc = "recv" /\ worker.frames > 0
      /\ worker' = [worker EXCEPT !.frames = worker.frames - 1]
      /\ Sound /\ UNCHANGED <<node, node_cnt, backlog, ready, batch, shell>>
    BY DEF HandleFrame, Handling
<1>2. worker \in WorkerType /\ worker # Idle
    BY <1>1 DEF WorkerFits
<1>3. worker' \in WorkerType /\ worker'.pc = "recv" /\ worker'.n = worker.n
    BY <1>1, <1>2 DEF WorkerType
<1>4. WorkerFits(node, batch', worker')
    BY <1>1, <1>2, <1>3, WorkerGoesOn
<1>5. Ent(worker') = Ent(worker)
    BY <1>1, <1>3 DEF Ent
<1> QED BY <1>1, <1>4, <1>5, SameNodesKeep

LEMMA HandleCloseKeeps == IInv /\ HandleClose => IInv'
<1> SUFFICES ASSUME IInv, HandleClose
             PROVE  IInv'
    OBVIOUS
<1> USE Parts, IdleFacts
<1>1. /\ worker.pc = "recv" /\ worker.frames > 0
      /\ worker' = [worker EXCEPT !.frames = worker.frames - 1]
      /\ Sound /\ UNCHANGED <<backlog, batch, shell>>
    BY DEF HandleClose, Handling
<1>2. PICK m \in Clients : DelConNode(m, "frame")
    BY DEF HandleClose
<1>3. worker \in WorkerType /\ worker # Idle
    BY <1>1 DEF WorkerFits
<1>4. worker' \in WorkerType /\ worker'.pc = "recv" /\ worker'.n = worker.n
    BY <1>1, <1>3 DEF WorkerType
<1>5. Ent(worker') = Ent(worker)
    BY <1>1, <1>4 DEF Ent
<1>6. m \in All /\ Live(m) /\ "frame" \in Reasons
    BY DEF Clients, Reasons
<1>7. node_cnt - 1 <= LIMIT - 1 + (Ent(worker') + Ent(shell'))
    BY <1>1, <1>5
<1> QED BY <1>1, <1>2, <1>3, <1>4, <1>6, <1>7, RemovalKeeps

LEMMA RecvEndKeeps == IInv /\ RecvEnd => IInv'
<1> SUFFICES ASSUME IInv, RecvEnd
             PROVE  IInv'
    OBVIOUS
<1> USE Parts, IdleFacts
<1>1. /\ worker.pc = "recv"
      /\ Sound /\ UNCHANGED <<node_cnt, backlog, ready, batch, shell>>
    BY DEF RecvEnd
<1>2. worker \in WorkerType /\ worker # Idle /\ worker.n \in All /\ Ent(worker) = 0
    BY <1>1 DEF WorkerFits, WorkerType, Ent, Admitting
<1>3. CASE worker' = Idle /\ UNCHANGED node
  <2>1. WorkerFits(node, batch', worker')
      BY <1>3 DEF WorkerFits
  <2> QED BY <1>1, <1>2, <1>3, <2>1, SameNodesKeep
<1>4. CASE /\ node' = [node EXCEPT ![worker.n] = [node[worker.n] EXCEPT !.ptr = FALSE]]
           /\ worker' = [worker EXCEPT !.pc = "remove"]
  <2>1. node' \in [All -> NodeType] /\ \A m \in All : node'[m].st = node[m].st
    <3>1. /\ [node[worker.n] EXCEPT !.ptr = FALSE] \in NodeType
          /\ [node[worker.n] EXCEPT !.ptr = FALSE].st = node[worker.n].st
        BY <1>2 DEF NodeType
    <3> QED BY <1>2, <1>4, <3>1
  <2>2. worker' \in WorkerType /\ worker'.pc = "remove" /\ worker'.n = worker.n
      BY <1>2, <1>4 DEF WorkerType
  <2>3. WorkerFits(node, batch', worker')
      BY <1>1, <1>2, <2>2, WorkerGoesOn
  <2>4. Ent(worker') = Ent(worker)
      BY <1>2, <2>2 DEF Ent, Admitting
  <2> QED BY <1>1, <2>1, <2>3, <2>4, SameNodesKeep
<1> QED BY <1>3, <1>4 DEF RecvEnd

LEMMA RemoveClosedKeeps == IInv /\ RemoveClosed => IInv'
<1> SUFFICES ASSUME IInv, RemoveClosed
             PROVE  IInv'
    OBVIOUS
<1> USE Parts, IdleFacts
<1>1. /\ worker.pc = "remove" /\ worker # Idle /\ worker' = Idle
      /\ Sound /\ UNCHANGED <<backlog, batch, shell>>
      /\ Live(worker.n) /\ DelConNode(worker.n, "peer")
    BY DEF RemoveClosed
<1>2. worker \in WorkerType /\ worker.n \in All /\ Ent(worker) = 0
    BY <1>1 DEF WorkerFits, WorkerType, Ent, Admitting
<1>3. \A i \in DOMAIN batch : batch[i] # worker.n
    BY <1>1 DEF WorkerFits
<1>4. node_cnt - 1 <= LIMIT - 1 + (Ent(worker') + Ent(shell'))
    BY <1>1, <1>2
<1>5. "peer" \in Reasons
    BY DEF Reasons
<1> QED BY <1>1, <1>2, <1>3, <1>4, <1>5, RemovalKeeps

-----------------------------------------------------------------------------
(* The steps of the shell thread. *)

LEMMA ConnectKeeps == IInv /\ Connect => IInv'
<1> SUFFICES ASSUME IInv, Connect
             PROVE  IInv'
    OBVIOUS
<1> USE Parts, IdleFacts
<1>1. PICK n \in Cells : /\ Fresh(n) /\ AddClient(n)
                         /\ shell' = [Idle EXCEPT !.pc = "connecting", !.n = n]
    BY DEF Connect
<1>2. shell = Idle /\ Sound /\ UNCHANGED <<backlog, ready, batch, worker>>
    BY DEF Connect
<1>3. shell' \in ShellType /\ shell'.pc = "connecting" /\ shell'.n = n /\ Ent(shell') = 1
    BY <1>1 DEF ShellType, Ent, Admitting, Idle
<1>4. worker \in WorkerType /\ (worker.pc = "idle" => worker = Idle)
    BY DEF WorkerFits
<1>5. node_cnt + 1 <= LIMIT - 1 + (Ent(worker') + Ent(shell'))
    BY <1>2, <1>3
<1>6. \A i \in DOMAIN batch' : \E j \in DOMAIN batch : batch'[i] = batch[j]
    BY <1>2
<1> QED BY <1>1, <1>2, <1>3, <1>4, <1>5, <1>6, AdditionKeeps

LEMMA OnConnectKeeps == IInv /\ OnConnect => IInv'
<1> SUFFICES ASSUME IInv, OnConnect
             PROVE  IInv'
    OBVIOUS
<1> USE Parts, IdleFacts
<1>1. /\ shell.pc = "connecting" /\ shell' = [shell EXCEPT !.pc = "connected"]
      /\ node' = [node EXCEPT ![shell.n] = [node[shell.n] EXCEPT !.ptr = TRUE]]
      /\ Sound /\ UNCHANGED <<node_cnt, backlog, ready, batch, worker>>
    BY DEF OnConnect
<1>2. shell \in ShellType /\ shell.n \in All /\ shell # Idle
    BY <1>1 DEF ShellFits, ShellType
<1>3. node' \in [All -> NodeType] /\ \A m \in All : node'[m].st = node[m].st
  <2>1. /\ [node[shell.n] EXCEPT !.ptr = TRUE] \in NodeType
        /\ [node[shell.n] EXCEPT !.ptr = TRUE].st = node[shell.n].st
      BY <1>2 DEF NodeType
  <2> QED BY <1>1, <1>2, <2>1
<1>4. shell' \in ShellType /\ shell'.pc = "connected" /\ shell'.n = shell.n
    BY <1>1, <1>2 DEF ShellType
<1>5. ShellFits(node, shell')
    BY <1>2, <1>4 DEF ShellFits
<1>6. Ent(shell') = Ent(shell)
    BY <1>1, <1>4 DEF Ent, Admitting
<1> QED BY <1>1, <1>3, <1>5, <1>6, SameNodesKeep

LEMMA ConnectReturnKeeps == IInv /\ ConnectReturn => IInv'
<1> SUFFICES ASSUME IInv, ConnectReturn
             PROVE  IInv'
    OBVIOUS
<1> USE Parts, IdleFacts
<1>1. /\ shell.pc = "connected" /\ Live(shell.n) /\ shell' = Idle
      /\ Sound /\ UNCHANGED <<backlog, batch, worker>>
    BY DEF ConnectReturn
<1>2. shell \in ShellType /\ shell.n \in All /\ Ent(shell) = 1
    BY <1>1 DEF ShellFits, ShellType, Ent, Admitting
<1>3. ShellFits(node, shell')
    BY <1>1 DEF ShellFits
<1>4. CASE ~OverLimit /\ UNCHANGED <<node, node_cnt, ready>>
  <2>1. node_cnt <= LIMIT - 1 + (Ent(worker') + Ent(shell'))
      BY <1>1, <1>4 DEF OverLimit
  <2> QED BY <1>1, <1>3, <1>4, <2>1, SameNodesKeep
<1>5. CASE DelConNode(shell.n, "connect")
  <2>1. node_cnt - 1 <= LIMIT - 1 + (Ent(worker') + Ent(shell'))
      BY <1>1, <1>2
  <2>2. "connect" \in Reasons /\ "connect" \notin {"refused", "peer"}
      BY DEF Reasons
  <2>3. worker' \in WorkerType /\ (worker'.pc = "idle" => worker' = Idle)
      BY <1>1 DEF WorkerFits
  <2> QED BY <1>1, <1>2, <1>3, <1>5, <2>1, <2>2, <2>3, RemovalKeeps
<1> QED BY <1>4, <1>5 DEF ConnectReturn

LEMMA CloseFoundKeeps == IInv /\ CloseFound => IInv'
<1> SUFFICES ASSUME IInv, CloseFound
             PROVE  IInv'
    OBVIOUS
<1> USE Parts, IdleFacts
<1>1. PICK n \in Clients : shell' = [Idle EXCEPT !.pc = "closing", !.n = n]
    BY DEF CloseFound
<1>2. shell = Idle /\ Sound /\ UNCHANGED <<node, node_cnt, backlog, ready, batch, worker>>
    BY DEF CloseFound
<1>3. n \in All /\ node[n].st = "live"
    BY DEF Clients, Live
<1>4. shell' \in ShellType /\ shell'.pc = "closing" /\ shell'.n = n /\ Ent(shell') = 0
    BY <1>1, <1>3 DEF ShellType, Ent, Admitting, Idle
<1>5. ShellFits(node, shell')
    BY <1>3, <1>4 DEF ShellFits
<1> QED BY <1>2, <1>4, <1>5, SameNodesKeep

LEMMA OnCloseKeeps == IInv /\ OnClose => IInv'
<1> SUFFICES ASSUME IInv, OnClose
             PROVE  IInv'
    OBVIOUS
<1> USE Parts, IdleFacts
<1>1. /\ shell.pc = "closing" /\ shell' = [shell EXCEPT !.pc = "closed"]
      /\ Sound /\ UNCHANGED <<node, node_cnt, backlog, ready, batch, worker>>
    BY DEF OnClose
<1>2. shell \in ShellType /\ shell # Idle
    BY <1>1 DEF ShellFits
<1>3. shell' \in ShellType /\ shell'.pc = "closed" /\ shell'.n = shell.n
    BY <1>1, <1>2 DEF ShellType
<1>4. ShellFits(node, shell')
    BY <1>2, <1>3 DEF ShellFits
<1>5. Ent(shell') = Ent(shell)
    BY <1>1, <1>3 DEF Ent, Admitting
<1> QED BY <1>1, <1>4, <1>5, SameNodesKeep

LEMMA CloseFreeKeeps == IInv /\ CloseFree => IInv'
<1> SUFFICES ASSUME IInv, CloseFree
             PROVE  IInv'
    OBVIOUS
<1> USE Parts, IdleFacts
<1>1. /\ shell.pc = "closed" /\ Live(shell.n) /\ shell' = Idle
      /\ Sound /\ UNCHANGED <<backlog, batch, worker>>
      /\ DelConNode(shell.n, "close")
    BY DEF CloseFree
<1>2. shell \in ShellType /\ shell.n \in All /\ Ent(shell) = 0
    BY <1>1 DEF ShellFits, ShellType, Ent, Admitting
<1>3. ShellFits(node, shell')
    BY <1>1 DEF ShellFits
<1>4. node_cnt - 1 <= LIMIT - 1 + (Ent(worker') + Ent(shell'))
    BY <1>1, <1>2
<1>5. "close" \in Reasons /\ "close" \notin {"refused", "peer"}
    BY DEF Reasons
<1>6. worker' \in WorkerType /\ (worker'.pc = "idle" => worker' = Idle)
    BY <1>1 DEF WorkerFits
<1> QED BY <1>1, <1>2, <1>3, <1>4, <1>5, <1>6, RemovalKeeps

LEMMA StopBeginKeeps == IInv /\ StopBegin => IInv'
<1> SUFFICES ASSUME IInv, StopBegin
             PROVE  IInv'
    OBVIOUS
<1> USE Parts, IdleFacts
<1>1. /\ shell = Idle /\ Live(Listen) /\ ready' = <<>>
      /\ node' = [n \in All |-> [node[n] EXCEPT !.polled = FALSE]]
      /\ shell' = [Idle EXCEPT !.pc = "stopping", !.n = Listen]
      /\ Sound /\ UNCHANGED <<node_cnt, backlog, batch, worker>>
    BY DEF StopBegin
<1>2. node' \in [All -> NodeType] /\ \A m \in All : node'[m].st = node[m].st
  <2>1. \A m \in All : /\ [node[m] EXCEPT !.polled = FALSE] \in NodeType
                       /\ [node[m] EXCEPT !.polled = FALSE].st = node[m].st
      BY ZenonT(60) DEF NodeType
  <2> QED BY <1>1, <2>1
<1>3. shell' \in ShellType /\ shell'.pc = "stopping" /\ shell'.n = Listen /\ Ent(shell') = 0
    BY <1>1 DEF ShellType, Ent, Admitting, Idle
<1>4. ShellFits(node, shell')
    BY <1>1, <1>3 DEF ShellFits, Live
<1>5. ListFits(node, ready')
    BY <1>1 DEF ListFits, Distinct
<1> QED BY <1>1, <1>2, <1>3, <1>4, <1>5, SameNodesKeep

LEMMA StopFreeKeeps == IInv /\ StopFree => IInv'
<1> SUFFICES ASSUME IInv, StopFree
             PROVE  IInv'
    OBVIOUS
<1> USE Parts, IdleFacts
<1>1. PICK n \in Behind(shell.n) : shell' = IF n = Nothing THEN Idle ELSE [shell EXCEPT !.n = n]
    BY DEF StopFree
<1>2. /\ shell.pc = "stopping" /\ Live(shell.n)
      /\ backlog' = IF shell.n = Listen THEN 0 ELSE backlog
      /\ Sound /\ UNCHANGED <<batch, worker>>
      /\ DelConNode(shell.n, "stop")
    BY DEF StopFree
<1>3. shell \in ShellType /\ shell.n \in All /\ shell # Idle /\ Ent(shell) = 0
    BY <1>2 DEF ShellFits, ShellType, Ent, Admitting
<1>4. n = Nothing \/ (n \in All /\ node[n].st = "live" /\ n # shell.n)
    BY DEF Behind, Clients, Live
<1>5. /\ ShellFits(node, shell') /\ Ent(shell') = 0
      /\ shell' = Idle \/ shell'.n # shell.n
  <2>1. CASE n = Nothing
      BY <1>1, <2>1 DEF ShellFits
  <2>2. CASE n # Nothing
    <3>1. shell' \in ShellType /\ shell'.pc = "stopping" /\ shell'.n = n
        BY <1>1, <1>2, <1>3, <1>4, <2>2 DEF ShellType
    <3> QED BY <1>4, <2>2, <3>1 DEF ShellFits, Ent, Admitting
  <2> QED BY <2>1, <2>2
<1>6. node_cnt - 1 <= LIMIT - 1 + (Ent(worker') + Ent(shell'))
    BY <1>2, <1>3, <1>5
<1>7. "stop" \in Reasons /\ "stop" \notin {"refused", "peer"}
    BY DEF Reasons
<1>8. worker' \in WorkerType /\ (worker'.pc = "idle" => worker' = Idle) /\ backlog' \in Nat
    BY <1>2 DEF WorkerFits
<1> QED BY <1>2, <1>3, <1>5, <1>6, <1>7, <1>8, RemovalKeeps

-----------------------------------------------------------------------------
(* The theorems. *)

LEMMA InitOK == Init => IInv
<1> SUFFICES ASSUME Init
             PROVE  IInv
    OBVIOUS
<1> USE DEF Init
<1>1. Added \in NodeType /\ Unused \in NodeType /\ Added.st = "live" /\ Unused.st = "unused"
    BY DEF Added, Unused, NodeType
<1>2. Listen \in All /\ Listen \notin Cells
    BY ServerAssumption DEF All, Listen
<1>3. TypeOK
    BY <1>1, IdleFacts DEF TypeOK, All
<1>4. ListsOK /\ WorkerHolds /\ ShellHolds /\ OwnRemovalsClean
    BY DEF ListsOK, Distinct, WorkerHolds, ShellHolds, OwnRemovalsClean, NoFault
<1>5. CountOK
  <2>1. LiveSet = {Listen}
      BY <1>1, <1>2 DEF LiveSet, Live, All
  <2>2. IsFiniteSet(LiveSet) /\ Cardinality(LiveSet) = 1
      BY <2>1, FS_Singleton
  <2>3. node_cnt <= LIMIT - 1 + (Ent(worker) + Ent(shell))
      BY IdleFacts, ServerAssumption
  <2> QED BY <2>2, <2>3, LimitIs DEF CountOK
<1> QED BY <1>3, <1>4, <1>5 DEF IInv

LEMMA StutterOK == IInv /\ UNCHANGED vars => IInv'
    BY DEF vars, IInv, TypeOK, ListsOK, WorkerHolds, ShellHolds, CountOK, LimitKept,
           Entering, LiveSet, Live, OwnRemovalsClean

\* The inductive invariant holds in every state.
LEMMA Invariance == Spec => []IInv
<1>1. IInv /\ [Next]_vars => IInv'
    BY PeerKeeps, WaitKeeps, AcceptKeeps, OnAcceptKeeps, AdmitKeeps, RecvStartKeeps,
       HandleFrameKeeps, HandleCloseKeeps, RecvEndKeeps, RemoveClosedKeeps, ConnectKeeps,
       OnConnectKeeps, ConnectReturnKeeps, CloseFoundKeeps, OnCloseKeeps, CloseFreeKeeps,
       StopBeginKeeps, StopFreeKeeps, TripKeeps, StutterOK
    DEF Next, WorkerStep, ShellStep
<1> QED BY <1>1, InitOK, PTL DEF Spec

\* Nodes, lists and calls keep their shape in both threads: type correctness.
THEOREM TypeCorrect == Spec => []TypeOK
    BY Invariance, PTL DEF IInv

\* Whatever the limit and however the two threads interleave: node_cnt is the
\* number of nodes on the list, and beyond the limit there are only connections
\* whose admission ep_Accept or ep_Connect has not decided yet.
THEOREM ConnectionLimit == Spec => []LimitKept
    BY Invariance, PTL DEF IInv, CountOK

\* ep_WorkThread never meets a node again that it refused or removed itself, in
\* the rest of events[] or through epoll, and the shell thread none that its own
\* commands freed.
THEOREM RemovedForGood == Spec => []OwnRemovalsClean
    BY Invariance, PTL DEF IInv
=============================================================================
