----------------------------- MODULE GlinkSend -----------------------------
(***************************************************************************)
(* Sending frames (src/protocol/glink.c) over the one descriptor that a    *)
(* manager has.  A frame goes out in pieces, each by calls of send() that  *)
(* may take part of it, while the worker, the shell and the heartbeat      *)
(* (ThreadConnectCU, src/tms_app.c) write to the same descriptor, and the  *)
(* worker may close it and the kernel give its number to the next peer.    *)
(***************************************************************************)
EXTENDS Naturals, Sequences

CONSTANTS
    Sizes,      \* units of data in a frame: bytes, of which only the order matters
    SocketRoom  \* units that a peer's socket takes before the peer reads

ASSUME SendAssumption == Sizes \subseteq Nat /\ 0 \in Sizes /\ SocketRoom \in Nat \ {0}

VARIABLES
    peer,       \* the connection that has the descriptor
    tabled,     \* sg_manage holds the descriptor
    wire,       \* what the peer has not read yet: <<size of the frame, place in it>>
    mixed,      \* two threads were within a frame to this peer at once, or a thread
                \* went on here with a frame of which a part failed or went to another
    task        \* the frame that each thread sends

sendVars == <<peer, tabled, wire, mixed, task>>

Threads == {"worker", "shell", "heartbeat"}

\* by: glink_Send, or glink_SendHead, glink_SendSerial ... and glink_SendTail;
\* at: the unit that is next; here: whatever was sent of the frame went to the present peer.
Free == [by |-> "none", size |-> 0, at |-> 1, here |-> TRUE]

-----------------------------------------------------------------------------
(* A frame: the mark in front, the head, the data, and the mark behind. *)

HREAD == 1
BASE == 2
FrameEnd(size) == HREAD + BASE + size + 1

\* The last unit of the piece that a unit is in; "Parts" sends its data in two.
PieceEnd(t) ==
  LET data == HREAD + BASE + t.size
  IN CASE t.at <= HREAD -> HREAD
       [] t.at \in HREAD + 1 .. HREAD + BASE -> HREAD + BASE
       [] t.at \in HREAD + BASE + 1 .. data ->
            IF t.by = "Parts" /\ t.at <= HREAD + BASE + t.size \div 2 THEN HREAD + BASE + t.size \div 2 ELSE data
       [] OTHER -> FrameEnd(t.size)

\* A thread has sent a part of a frame to the present peer.
Within(t) == task[t].at > 1 /\ task[t].here

\* The thread goes on with unit n.
GoesOn(t, n, here) ==
  task' = [task EXCEPT ![t] = IF n > FrameEnd(@.size) THEN Free ELSE [@ EXCEPT !.at = n, !.here = here]]

-----------------------------------------------------------------------------
(* The threads. *)

StartSend(t, size) ==
  /\ task[t] = Free
  /\ task' = [task EXCEPT ![t] = [Free EXCEPT !.by = IF size > 1 THEN "Parts" ELSE "Send", !.size = size]]

\* An answer of the worker, a command of the shell.
Answer == peer # "none" /\ (\E t \in {"worker", "shell"}, size \in Sizes : StartSend(t, size))
          /\ UNCHANGED <<peer, tabled, wire, mixed>>

\* tms_Tick to the descriptor that tms_SelectFdByAddr finds; it has no data.
ThreadConnectCU == tabled /\ StartSend("heartbeat", 0) /\ UNCHANGED <<peer, tabled, wire, mixed>>

\* The thread gets into another's frame, or goes on with half a frame of its own.
Mixes(t) == (task[t].at > 1 /\ ~task[t].here) \/ \E o \in Threads \ {t} : Within(o)

\* The peer's socket takes n units.  Bound: what a peer with a mixed stream gets is not kept.
Took(t, n) ==
  /\ mixed' = (mixed \/ Mixes(t))
  /\ wire' = IF mixed' THEN <<>> ELSE wire \o [i \in 1 .. n |-> <<task[t].size, task[t].at + i - 1>>]

\* Bug: what send() did not take is not sent.
SendSerialOnce(t) ==
  \E n \in 1 .. PieceEnd(task[t]) - task[t].at + 1 :
    Len(wire) + n <= SocketRoom /\ Took(t, n) /\ GoesOn(t, PieceEnd(task[t]) + 1, task[t].here)

\* send() takes as much as there is room for, and the loop goes on behind it; when
\* there is no room (EAGAIN) it tries again.
glink_SendSerial(t) ==
  \E n \in 1 .. PieceEnd(task[t]) - task[t].at + 1 :
    Len(wire) + n <= SocketRoom /\ Took(t, n) /\ GoesOn(t, task[t].at + n, task[t].here)

SendUnits(t) ==
  /\ task[t] # Free /\ peer = "there"
  /\ glink_SendSerial(t)
  /\ UNCHANGED <<peer, tabled>>

\* Any other error: glink_Send gives the frame up.  The results of glink_SendHead and of
\* the calls behind it are not looked at, and the next piece is tried.
SendFails(t) ==
  /\ task[t] # Free /\ peer # "there"
  /\ IF task[t].by = "Send" THEN task' = [task EXCEPT ![t] = Free]
     ELSE GoesOn(t, IF task[t].at <= HREAD + BASE THEN HREAD + BASE + 1 ELSE PieceEnd(task[t]) + 1, FALSE)
  /\ UNCHANGED <<peer, tabled, wire, mixed>>

-----------------------------------------------------------------------------
(* The peers, and the worker between two frames of its own. *)

\* The rest of what was sent to the peer before is lost with the connection.
Accept ==
  /\ peer = "none" /\ task["worker"] = Free
  /\ peer' = "there" /\ wire' = <<>> /\ mixed' = FALSE
  /\ UNCHANGED <<tabled, task>>

tms_AddManage == peer = "there" /\ task["worker"] = Free /\ tabled' = TRUE /\ UNCHANGED <<peer, wire, mixed, task>>

PeerCloses == peer = "there" /\ peer' = "gone" /\ UNCHANGED <<tabled, wire, mixed, task>>

\* The worker is told, takes the manager out and closes the descriptor.
RemoveClose ==
  /\ peer = "gone" /\ task["worker"] = Free
  /\ peer' = "none" /\ tabled' = FALSE
  /\ task' = [t \in Threads |-> IF task[t].at = 1 THEN task[t] ELSE [task[t] EXCEPT !.here = FALSE]]
  /\ UNCHANGED <<wire, mixed>>

\* A peer takes whole frames.
PeerReads ==
  /\ peer = "there" /\ wire # <<>>
  /\ LET n == FrameEnd(wire[1][1]) IN
       /\ Len(wire) >= n /\ wire[n] = <<wire[1][1], n>>
       /\ wire' = SubSeq(wire, n + 1, Len(wire))
  /\ UNCHANGED <<peer, tabled, mixed, task>>

SendInit ==
  /\ peer = "none" /\ tabled = FALSE /\ wire = <<>> /\ mixed = FALSE
  /\ task = [t \in Threads |-> Free]

SendNext ==
  \/ Answer \/ ThreadConnectCU \/ \E t \in Threads : SendUnits(t) \/ SendFails(t)
  \/ Accept \/ tms_AddManage \/ PeerCloses \/ RemoveClose \/ PeerReads

SendSpec == SendInit /\ [][SendNext]_sendVars

-----------------------------------------------------------------------------
(* Properties. *)

(* Whatever send() takes at a time and however often the descriptor fails  *)
(* or changes hands, a peer reads frame behind frame, each complete and in *)
(* order, unless the threads got into each other's frames                  *)
(* (glink_SendSerial, glink_Send, ThreadConnectCU).                        *)
FramesWhole ==
  ~mixed =>
    \A i \in DOMAIN wire :
      LET before == IF i = 1 THEN <<0, FrameEnd(0)>> ELSE wire[i - 1]
      IN IF before[2] = FrameEnd(before[1]) THEN wire[i][2] = 1
         ELSE wire[i] = <<before[1], before[2] + 1>>
=============================================================================
