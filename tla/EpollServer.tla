----------------------------- MODULE EpollServer -----------------------------
(***************************************************************************)
(* The life of a connection node in osnet/epollserver.c: the one worker    *)
(* thread (ep_WorkThread), which accepts, receives and removes, and the    *)
(* shell thread, which runs "connect", "close" and "server stop".          *)
(*                                                                         *)
(* Both threads hold plain pointers to nodes: the worker in events[], in   *)
(* the call it is in, and through epoll; the shell in the call it is in.   *)
(* A step that would use a freed node, or the missing state of one, ends   *)
(* the behaviour and is recorded in fault.  malloc() may hand out again    *)
(* every cell that no thread points to any more, so that a dangling        *)
(* pointer is always told from a new node.                                 *)
(***************************************************************************)
EXTENDS Integers, Sequences, FiniteSets, Sublists

CONSTANTS
    Cells,           \* the memory cells that nodes are made of
    LIMIT,           \* node_cnt at which a new connection is refused (800)
    BATCH,           \* length of events[] (10)
    MAXBACKLOG,      \* bound: connections that wait for accept()
    MAXFRAMES,       \* bound: frames that one ep_Recv hands over
    Sessions         \* bound: the shell commands in use in one behaviour, sets
                     \* of "connect", "close" and "stop"

ASSUME ServerAssumption ==
    /\ Cells \subseteq Nat \ {0}
    /\ LIMIT \in Nat \ {0, 1}               \* the listener alone is no reason to refuse
    /\ BATCH \in Nat \ {0}
    /\ MAXBACKLOG \in Nat /\ MAXFRAMES \in Nat
    /\ Sessions \subseteq SUBSET {"connect", "close", "stop"}

VARIABLES
    node,            \* the cells
    node_cnt,        \* ep_t.node_cnt: the listener counts
    backlog,         \* connections that wait for accept()
    ready,           \* the epoll ready list
    batch,           \* what is left of events[]
    worker,          \* the call the worker is in
    shell,           \* the call the shell thread is in
    session,         \* the commands of this behaviour
    fault            \* history: the faulty use of a node that ended the program

vars == <<node, node_cnt, backlog, ready, batch, worker, shell, session, fault>>

\* The listening node, which lives until the server is stopped.
Listen == 0
Nothing == -1

Unused  == [st |-> "unused", polled |-> FALSE, ptr |-> FALSE, pend |-> FALSE, fin |-> FALSE]
Added   == [Unused EXCEPT !.st = "live", !.polled = TRUE]
Idle    == [pc |-> "idle", n |-> Listen, frames |-> 0, end |-> FALSE]
NoFault == [who |-> "none", by |-> "none"]

\* ep_Interface, ep_Listen and ep_RunServer have run.
Init ==
    /\ node = [n \in Cells \cup {Listen} |-> IF n = Listen THEN Added ELSE Unused]
    /\ session \in Sessions
    /\ node_cnt = 1
    /\ backlog = 0
    /\ ready = <<>> /\ batch = <<>>
    /\ worker = Idle /\ shell = Idle
    /\ fault = NoFault

\* Every step but the faulty ones.
Sound    == fault = NoFault /\ UNCHANGED <<session, fault>>
Live(n)  == node[n].st = "live"
Clients  == {n \in Cells : Live(n)}
Pointers == {worker.n, shell.n} \union {batch[i] : i \in DOMAIN batch}

-----------------------------------------------------------------------------
(* The kernel and the peers. *)

\* A socket that epoll knows and that has something to read stands in the ready list once.
Enqueue(s) ==
    ready' = IF ~node[s].polled \/ \E i \in DOMAIN ready : ready[i] = s THEN ready ELSE Append(ready, s)

PeerConnect ==
    /\ Live(Listen) /\ backlog < MAXBACKLOG
    /\ backlog' = backlog + 1
    /\ Enqueue(Listen)
    /\ Sound /\ UNCHANGED <<node, node_cnt, batch, worker, shell>>

PeerSend ==
    /\ \E n \in Clients :
        /\ ~node[n].fin
        /\ node' = [node EXCEPT ![n].pend = TRUE]
        /\ Enqueue(n)
    /\ Sound /\ UNCHANGED <<node_cnt, backlog, batch, worker, shell>>

\* FIN, RST, or the keep-alive gives up.
PeerClose ==
    /\ \E n \in Clients :
        /\ node' = [node EXCEPT ![n].fin = TRUE]
        /\ Enqueue(n)
    /\ Sound /\ UNCHANGED <<node_cnt, backlog, batch, worker, shell>>

\* epoll reports a socket as long as it can be read.
Readable(s) == IF s = Listen THEN backlog > 0 ELSE node[s].pend \/ node[s].fin

-----------------------------------------------------------------------------
(* Nodes. *)

\* ep_AddClient and ep_AddEvent: from now on epoll knows the node.
AddClient(n) ==
    /\ node' = [node EXCEPT ![n] = Added]
    /\ node_cnt' = node_cnt + 1

\* The cell that malloc() returns: the names of the cells are immaterial.
Fresh(n) ==
    LET available == {m \in Cells : ~Live(m) /\ m \notin Pointers}
    IN  n \in available /\ \A m \in available : n <= m

\* A cell that has been freed.  Why is of interest as long as a thread points
\* to it; the callers have set the threads' pointers before.
Freed(n, by) == [node EXCEPT ![n] = IF n \in Pointers' THEN [Unused EXCEPT !.st = by] ELSE Unused]

\* A faulty variant: the socket is not closed, and epoll goes on reporting it.
DelConNodeOpen(n, by) ==
    /\ node' = [node EXCEPT ![n].st = by]
    /\ node_cnt' = node_cnt - 1
    /\ ready' = ready

\* ep_DelConNode.  close() takes the socket out of epoll, but not out of the
\* events the worker has fetched.
DelConNode(n, by) ==
    /\ node' = Freed(n, by)
    /\ node_cnt' = node_cnt - 1
    /\ ready' = Kept(ready, {i \in DOMAIN ready : ready[i] # n})

\* A faulty variant: the limit itself is let in.
OverLimitStrict == node_cnt > LIMIT

\* The test at the end of ep_Accept and of ep_Connect.
OverLimit == node_cnt >= LIMIT

-----------------------------------------------------------------------------
(* ep_WorkThread. *)

\* epoll_wait: what has been reported goes to the end of the ready list.
Wait ==
    /\ worker = Idle /\ batch = <<>>
    /\ \E now \in {Kept(ready, {i \in DOMAIN ready : Readable(ready[i])})} :
        /\ now # <<>>
        /\ \E k \in {IF Len(now) < BATCH THEN Len(now) ELSE BATCH} :
            /\ batch' = SubSeq(now, 1, k)
            /\ ready' = SubSeq(now, k + 1, Len(now)) \o SubSeq(now, 1, k)
    /\ Sound /\ UNCHANGED <<node, node_cnt, backlog, worker, shell>>

\* A faulty variant: the rest of events[] is given up.
RestDropped(b) == <<>>

Rest(b) == Tail(b)

NextEvent == worker = Idle /\ batch # <<>> /\ batch' = Rest(batch)

\* ep_Accept, up to the callback; with an empty backlog accept() fails.
Accept ==
    /\ NextEvent /\ Head(batch) = Listen /\ Live(Listen)
    /\ \/ /\ backlog = 0
          /\ UNCHANGED <<node, node_cnt, backlog, worker>>
       \/ /\ backlog > 0
          /\ backlog' = backlog - 1
          /\ \E n \in Cells :
              /\ Fresh(n) /\ AddClient(n)
              /\ worker' = [Idle EXCEPT !.pc = "accepted", !.n = n]
    /\ Sound /\ UNCHANGED <<ready, shell>>

\* epFUI_OnAccept allocates the application's state of the connection.
OnAccept ==
    /\ worker.pc = "accepted" /\ Live(worker.n)
    /\ node' = [node EXCEPT ![worker.n].ptr = TRUE]
    /\ worker' = [worker EXCEPT !.pc = "admit"]
    /\ Sound /\ UNCHANGED <<node_cnt, backlog, ready, batch, shell>>

\* The end of ep_Accept.  A connection within the limit is not looked at again.
Admit ==
    /\ worker.pc = "admit"
    /\ worker' = Idle
    /\ Sound /\ UNCHANGED <<backlog, batch, shell>>
    /\ \/ ~OverLimit /\ UNCHANGED <<node, node_cnt, ready>>
       \/ OverLimit /\ Live(worker.n) /\ DelConNode(worker.n, "refused")

\* ep_Recv.  Without application state epFUI_OnRecv returns 1 at once.
RecvUnready ==
    /\ NextEvent /\ Head(batch) # Listen /\ Live(Head(batch))
    /\ ~node[Head(batch)].ptr
    /\ Sound /\ UNCHANGED <<node, node_cnt, backlog, ready, worker, shell>>

\* recv() returns data, or the end of the stream, or EAGAIN; what is in the
\* buffer then holds some frames.
RecvStart ==
    /\ NextEvent /\ Head(batch) # Listen /\ Live(Head(batch))
    /\ node[Head(batch)].ptr
    /\ \E n \in {Head(batch)}, k \in 0 .. MAXFRAMES :
        /\ node' = [node EXCEPT ![n].pend = FALSE]
        /\ worker' = [pc |-> "recv", n |-> n, frames |-> k,
                      end |-> ~node[n].pend /\ node[n].fin]
    /\ Sound /\ UNCHANGED <<node_cnt, backlog, ready, shell>>

Handling == worker.pc = "recv" /\ worker.frames > 0 /\ Live(worker.n)

\* tms_Analyse of a frame that leaves the connections alone.
HandleFrame ==
    /\ Handling
    /\ worker' = [worker EXCEPT !.frames = @ - 1]
    /\ Sound /\ UNCHANGED <<node, node_cnt, backlog, ready, batch, shell>>

\* tms_Analyse calls ep_Close: tms_AddManage closes the connection that takes
\* the last entry, and a command frame runs "close <fd>".
HandleClose ==
    /\ Handling
    /\ worker' = [worker EXCEPT !.frames = @ - 1]
    /\ Sound /\ UNCHANGED <<backlog, batch, shell>>
    /\ \E m \in Clients : node[m].ptr /\ DelConNode(m, "frame")

\* epFUI_OnRecv returns: the node is used again only if the stream has ended.
RecvEnd ==
    /\ worker.pc = "recv" /\ worker.frames = 0
    /\ \/ ~worker.end /\ worker' = Idle /\ UNCHANGED node
       \/ /\ worker.end /\ Live(worker.n)
          /\ node' = [node EXCEPT ![worker.n].ptr = FALSE]   \* epFUI_OnRemoveClose
          /\ worker' = [worker EXCEPT !.pc = "remove"]
    /\ Sound /\ UNCHANGED <<node_cnt, backlog, ready, batch, shell>>

RemoveClosed ==
    /\ worker.pc = "remove" /\ Live(worker.n)
    /\ worker' = Idle
    /\ Sound /\ UNCHANGED <<backlog, batch, shell>>
    /\ DelConNode(worker.n, "peer")

-----------------------------------------------------------------------------
(* The shell thread. *)

\* ep_Connect puts the node into epoll before the callback has set its ptr.
Connect ==
    /\ "connect" \in session /\ shell = Idle
    /\ \E n \in Cells :
        /\ Fresh(n) /\ AddClient(n)
        /\ shell' = [Idle EXCEPT !.pc = "connecting", !.n = n]
    /\ Sound /\ UNCHANGED <<backlog, ready, batch, worker>>

\* epFUI_OnConnect.
OnConnect ==
    /\ shell.pc = "connecting" /\ Live(shell.n)
    /\ node' = [node EXCEPT ![shell.n].ptr = TRUE]
    /\ shell' = [shell EXCEPT !.pc = "connected"]
    /\ Sound /\ UNCHANGED <<node_cnt, backlog, ready, batch, worker>>

\* The end of ep_Connect copies the node for its caller, or frees it.
ConnectReturn ==
    /\ shell.pc = "connected" /\ Live(shell.n)
    /\ shell' = Idle
    /\ Sound /\ UNCHANGED <<backlog, batch, worker>>
    /\ \/ ~OverLimit /\ UNCHANGED <<node, node_cnt, ready>>
       \/ OverLimit /\ DelConNode(shell.n, "connect")

\* ep_Close has found the node.
CloseFound ==
    /\ "close" \in session /\ shell = Idle
    /\ \E n \in Clients : shell' = [Idle EXCEPT !.pc = "closing", !.n = n]
    /\ Sound /\ UNCHANGED <<node, node_cnt, backlog, ready, batch, worker>>

\* epFUI_OnClose, which reads the application state and leaves it allocated.
OnClose ==
    /\ shell.pc = "closing" /\ Live(shell.n) /\ node[shell.n].ptr
    /\ shell' = [shell EXCEPT !.pc = "closed"]
    /\ Sound /\ UNCHANGED <<node, node_cnt, backlog, ready, batch, worker>>

\* ep_DelEvent and ep_DelConNode.
CloseFree ==
    /\ shell.pc = "closed" /\ Live(shell.n)
    /\ shell' = Idle
    /\ Sound /\ UNCHANGED <<backlog, batch, worker>>
    /\ DelConNode(shell.n, "close")

\* ep_StopServer takes every node out of epoll, the listener too, ...
StopBegin ==
    /\ "stop" \in session /\ shell = Idle /\ Live(Listen)
    /\ node' = [n \in DOMAIN node |-> [node[n] EXCEPT !.polled = FALSE]]
    /\ ready' = <<>>
    /\ shell' = [Idle EXCEPT !.pc = "stopping", !.n = Listen]
    /\ Sound /\ UNCHANGED <<node_cnt, backlog, batch, worker>>

\* The node behind, which list_for_each_safe reads before the node is freed.
Behind(n) == IF Clients \ {n} = {} THEN {Nothing} ELSE Clients \ {n}

\* ... and then frees one after the other, without the callbacks.
StopFree ==
    /\ shell.pc = "stopping" /\ Live(shell.n)
    /\ \E n \in Behind(shell.n) : shell' = IF n = Nothing THEN Idle ELSE [shell EXCEPT !.n = n]
    /\ backlog' = IF shell.n = Listen THEN 0 ELSE backlog
    /\ Sound /\ UNCHANGED <<batch, worker>>
    /\ DelConNode(shell.n, "stop")

-----------------------------------------------------------------------------
(* The use of a node that has been freed, and of application state that is    *)
(* not there.                                                                 *)

\* The node that the next step of the worker uses.
WorkerUses ==
    CASE worker = Idle                                       -> IF batch = <<>> THEN Nothing ELSE Head(batch)
      [] worker.pc \in {"accepted", "remove"}                -> worker.n
      [] worker.pc = "admit" /\ OverLimit                    -> worker.n
      [] worker.pc = "recv" /\ (worker.frames > 0 \/ worker.end) -> worker.n
      [] OTHER                                               -> Nothing

Trip(who, n) ==
    /\ fault = NoFault /\ n # Nothing /\ ~Live(n)
    /\ fault' = [who |-> who, by |-> node[n].st]
    /\ UNCHANGED <<node, node_cnt, backlog, ready, batch, worker, shell, session>>

\* epFUI_OnClose of a node without application state: tms_DelManage calls back
\* through it.
NoState(who, n) ==
    /\ fault = NoFault /\ Live(n) /\ ~node[n].ptr
    /\ fault' = [who |-> who, by |-> "unready"]
    /\ UNCHANGED <<node, node_cnt, backlog, ready, batch, worker, shell, session>>

WorkerTrips ==
    \/ Trip("worker", WorkerUses)
    \/ Handling /\ \E m \in Clients : NoState("worker", m)
ShellTrips ==
    \/ shell # Idle /\ Trip("shell", shell.n)
    \/ shell.pc = "closing" /\ NoState("shell", shell.n)

WorkerStep ==
    \/ Wait \/ Accept \/ OnAccept \/ Admit
    \/ RecvUnready \/ RecvStart \/ HandleFrame \/ HandleClose \/ RecvEnd \/ RemoveClosed
    \/ WorkerTrips

\* The steps of a shell command once it runs.
ShellStep == OnConnect \/ ConnectReturn \/ OnClose \/ CloseFree \/ StopFree \/ ShellTrips

Next ==
    \/ PeerConnect \/ PeerSend \/ PeerClose
    \/ WorkerStep
    \/ Connect \/ CloseFound \/ StopBegin \/ ShellStep

\* Both threads keep running: the sockets do not block, and no call here waits
\* for the other thread.
Spec == Init /\ [][Next]_vars /\ WF_vars(WorkerStep) /\ WF_vars(ShellStep)

-----------------------------------------------------------------------------
(* Properties. *)

\* Admissions under way in both threads.
Entering ==
    Cardinality({t \in {<<"worker", worker>>, <<"shell", shell>>} :
                    t[2].pc \in {"accepted", "admit", "connecting", "connected"}})

\* Two threads that add, test and remove without a common lock keep the limit:
\* beyond it there are only connections whose admission is not yet decided.
\* node_cnt, by which they decide and which both change on five paths, is the
\* number of nodes on the list, the listener's included.
LimitKept ==
    /\ node_cnt = Cardinality({n \in DOMAIN node : Live(n)})
    /\ node_cnt <= LIMIT - 1 + Entering

\* No thread comes back to a node that the thread itself removed: the worker,
\* having refused a connection or seen its end, meets the node neither in the
\* rest of events[] nor in epoll again; nor does the shell in its own commands,
\* of which "server stop" frees all nodes on a list it walks.
\* (The close that a frame asks for is the exception, see NoUseAfterFree.)
OwnRemovalsClean ==
    /\ fault.who = "worker" => fault.by \notin {"refused", "peer"}
    /\ fault.who = "shell"  => fault.by \notin {"connect", "close", "stop"}

\* "After ep_DelConNode do not access sockfd any more" (epollserver.c:807-808):
\* no thread uses a node that has been freed.
NoUseAfterFree == fault = NoFault

\* Every connection with input is read although events[] is shorter than the
\* ready list, another peer never stops sending, and ep_Connect shows a node to
\* the worker before it can be read; and every connection request is accepted.
\* (What recv() leaves in the socket for want of space is RecvPath's subject.)
Served ==
    /\ \A n \in Cells : node[n].pend ~> (~node[n].pend \/ fault # NoFault)
    /\ backlog = MAXBACKLOG ~> (backlog < MAXBACKLOG \/ fault # NoFault)
=============================================================================
