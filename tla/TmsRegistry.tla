---------------------------- MODULE TmsRegistry ----------------------------
(***************************************************************************)
(* Who is reached through which socket: the manager table sg_manage and    *)
(* the device table sg_devnet of protocol/tmsxx.c, as the callbacks of     *)
(* src/ep_app.c, the frames that announce a manager (ID_GET_SN) or a       *)
(* device (ID_RET_DEVTYPE) and the shell change them, while the kernel     *)
(* hands out the number of a closed socket again.                          *)
(*                                                                         *)
(* The tables hold file descriptors.  That an entry has outlived its       *)
(* connection the program cannot see: the field stale of an entry and the  *)
(* variables announced, reported, moved and raced are history, read by the *)
(* properties only.                                                        *)
(***************************************************************************)
EXTENDS Integers, FiniteSets

CONSTANTS
    Fds,             \* socket numbers the process may get
    MAX_FRAME,       \* frames of the device table (16)
    MAX_SLOT,        \* slots of a frame (16)
    MANAGE_COUNT,    \* length of the manager table (6)
    Addrs,           \* glink addresses of managers (0x3a .. 0x3f)
    Slots,           \* bound: the slot numbers devices report
    ShellCloses      \* the shell thread runs the command "close <fd>"

ASSUME RegistryAssumption ==
    /\ Fds \subseteq Nat \ {0} /\ Addrs \subseteq Nat \ {0}
    /\ MAX_FRAME \in Nat \ {0} /\ MAX_SLOT \in Nat \ {0} /\ MANAGE_COUNT \in Nat \ {0}
    /\ Slots \subseteq Nat
    /\ ShellCloses \in BOOLEAN

VARIABLES
    open,            \* the sockets that are connections now
    manage,          \* sg_manage
    devnet,          \* sg_devnet, row after row
    announced,       \* the open connections that sent ID_GET_SN as managers
    reported,        \* the device table index each open connection reported,
                     \* as long as none has moved
    moved,           \* some connection reported a second or a slot MAX_SLOT
    closing,         \* the socket whose ep_Close the shell thread is in, or 0
    raced            \* the worker handled a frame from that socket meanwhile

vars == <<open, manage, devnet, announced, reported, moved, closing, raced>>

\* sg_devnet has MAX_FRAME + 1 rows.
Indices == 0 .. (MAX_FRAME + 1) * MAX_SLOT - 1

NoManager == [fd |-> 0, addr |-> 0, stale |-> FALSE]
NoDevice  == [fd |-> 0, stale |-> FALSE]

\* tms_Init.
Init ==
    /\ open = {}
    /\ manage = [i \in 1 .. MANAGE_COUNT |-> NoManager]
    /\ devnet = [x \in Indices |-> NoDevice]
    /\ announced = {}
    /\ reported = [f \in Fds |-> {}]
    /\ moved = FALSE
    /\ closing = 0
    /\ raced = FALSE

-----------------------------------------------------------------------------
(* Operations on the tables. *)

\* A faulty variant: the search stops at the first entry in use.
DelManageFirst(m, fd) ==
    [i \in DOMAIN m |->
        IF m[i].fd = fd /\ \A j \in 1 .. i - 1 : m[j].fd = 0 THEN NoManager ELSE m[i]]

\* tms_DelManage.
DelManage(m, fd) == [i \in DOMAIN m |-> IF m[i].fd = fd THEN NoManager ELSE m[i]]

\* The entries that tms_RemoveDev looks at: not those of the last row.
Searched == 0 .. MAX_FRAME * MAX_SLOT - 1

\* A faulty variant: nothing is removed.
RemoveDevNever(d, fd) == d

\* tms_RemoveDev: the first entry with this descriptor, and only that one.
RemoveDev(d, fd) ==
    [x \in DOMAIN d |->
        IF /\ x \in Searched /\ d[x].fd = fd
           /\ \A y \in 0 .. x - 1 : d[y].fd # fd
        THEN NoDevice ELSE d[x]]

\* The place of a location in the table, which exists for slot MAX_SLOT too.
Index(frame, slot) == frame * MAX_SLOT + slot

\* tms_AddDev, tms_GetDevBaseByLocation and tms_RemoveByLocation accept these.
LocationOK(frame, slot) == frame \in 0 .. MAX_FRAME - 1 /\ slot \in 0 .. MAX_SLOT

\* tms_SelectFdByAddr.
SelectFdByAddr(addr) ==
    LET found == {i \in DOMAIN manage : manage[i].addr = addr}
    IN  IF found = {} THEN 0
        ELSE manage[CHOOSE i \in found : \A j \in found : i <= j].fd

-----------------------------------------------------------------------------
(* Connections. *)

\* accept() returns the lowest free descriptor.
Accept ==
    /\ \E fd \in Fds \ open :
        /\ \A g \in Fds \ open : fd <= g
        /\ open' = open \union {fd}
    /\ UNCHANGED <<manage, devnet, announced, reported, moved, closing, raced>>

\* The socket is closed while the tables are t: the entries that still hold its
\* number are stale from now on.
Outlived(t, fd) ==
    [x \in DOMAIN t |-> IF t[x].fd = fd THEN [t[x] EXCEPT !.stale = TRUE] ELSE t[x]]

CloseSocket(fd, m, d) ==
    /\ open' = open \ {fd}
    /\ manage' = Outlived(m, fd) /\ devnet' = Outlived(d, fd)
    /\ announced' = announced \ {fd}
    /\ reported' = [reported EXCEPT ![fd] = {}]

\* ep_DelConNode zeroes sockfd before it frees the node: this is what the shell
\* thread, when it is about to close that node too, finds in it.
ClosingAfter(fd) == IF closing = fd THEN 0 ELSE closing

\* The peer closes (epFUI_OnRemoveClose), or the worker thread runs the command
\* "close <fd>" of a frame (epFUI_OnClose): the callback and ep_DelConNode.
Close(fd) ==
    /\ fd \in open
    /\ CloseSocket(fd, DelManage(manage, fd), RemoveDev(devnet, fd))
    /\ closing' = ClosingAfter(fd)
    /\ UNCHANGED <<moved, raced>>

\* The same from the shell thread, in two steps: epFUI_OnClose, and then
\* ep_DelConNode closes the socket.
ShellCloseCallback(fd) ==
    /\ ShellCloses /\ closing = 0 /\ fd \in open
    /\ closing' = fd
    /\ manage' = DelManage(manage, fd)
    /\ devnet' = RemoveDev(devnet, fd)
    /\ UNCHANGED <<open, announced, reported, moved, raced>>

ShellCloseSocket ==
    /\ closing # 0
    /\ CloseSocket(closing, manage, devnet)
    /\ closing' = 0
    /\ UNCHANGED <<moved, raced>>

-----------------------------------------------------------------------------
(* Frames, handled by the worker thread. *)

\* A faulty variant: the last slot is used like the others.
IsLastSlotNever(i) == FALSE

\* Taking this slot makes tms_AddManage close the connection.
IsLastSlot(i) == i = MANAGE_COUNT

\* A faulty variant: a manager is added again with each request.
KnownNever(fd) == FALSE

Known(fd) == \E i \in DOMAIN manage : manage[i].fd = fd

\* A faulty variant: a manager takes over the slot of its address.
TakesSlotOfAddr(i, fd, addr) ==
    LET Free(j) == manage[j].fd = 0 \/ manage[j].addr = addr
    IN  Free(i) /\ \A j \in 1 .. i - 1 : ~Free(j)

\* The first free slot.
TakesSlot(i, fd, addr) == manage[i].fd = 0 /\ \A j \in 1 .. i - 1 : manage[j].fd # 0

\* ID_GET_SN: tms_AnalyseGetSerialNumber and tms_AddManage.  The manager that
\* takes the last slot is closed at once with ep_Close.
GetSN(fd, addr) ==
    /\ fd \in open
    /\ \/ /\ Known(fd) \/ \A i \in DOMAIN manage : ~TakesSlot(i, fd, addr)
          /\ announced' = announced \union {fd}
          /\ UNCHANGED <<open, manage, devnet, reported, closing>>
       \/ /\ ~Known(fd)
          /\ \E i \in DOMAIN manage :
              /\ TakesSlot(i, fd, addr)
              /\ LET m == [manage EXCEPT ![i] = [fd |-> fd, addr |-> addr, stale |-> FALSE]]
                 IN  IF IsLastSlot(i)
                     THEN /\ CloseSocket(fd, DelManage(m, fd), RemoveDev(devnet, fd))
                          /\ closing' = ClosingAfter(fd)
                     ELSE /\ manage' = m
                          /\ announced' = announced \union {fd}
                          /\ UNCHANGED <<open, devnet, reported, closing>>
    /\ raced' = (raced \/ fd = closing)
    /\ UNCHANGED moved

\* ID_RET_DEVTYPE: tms_AnalyseRetDevType and tms_AddDev.
RetDevType(fd, frame, slot) ==
    /\ fd \in open /\ LocationOK(frame, slot)
    /\ devnet' = [devnet EXCEPT ![Index(frame, slot)] = [fd |-> fd, stale |-> FALSE]]
    /\ moved' = (moved \/ slot = MAX_SLOT \/ reported[fd] \notin {{}, {Index(frame, slot)}})
    /\ reported' = IF moved' THEN [f \in Fds |-> {}]
                   ELSE [reported EXCEPT ![fd] = {Index(frame, slot)}]
    /\ raced' = (raced \/ fd = closing)
    /\ UNCHANGED <<open, manage, announced, closing>>

\* The command "update com refurbish": tms_AddDev with descriptor -1.
Composition(frame, slot) ==
    /\ LocationOK(frame, slot)
    /\ devnet' = [devnet EXCEPT ![Index(frame, slot)] = [fd |-> -1, stale |-> FALSE]]
    /\ UNCHANGED <<open, manage, announced, reported, moved, closing, raced>>

\* The command "disp clear": tms_RemoveByLocation for slots below MAX_SLOT.
ClearDevices ==
    /\ devnet' = [x \in Indices |-> IF x \in Searched THEN NoDevice ELSE devnet[x]]
    /\ UNCHANGED <<open, manage, announced, reported, moved, closing, raced>>

Next ==
    \/ Accept
    \/ \E fd \in Fds : Close(fd) \/ ShellCloseCallback(fd)
    \/ ShellCloseSocket
    \/ \E fd \in Fds, addr \in Addrs : GetSN(fd, addr)
    \/ \E fd \in Fds, frame \in 0 .. MAX_FRAME - 1, slot \in Slots :
            RetDevType(fd, frame, slot)
    \/ \E frame \in 0 .. MAX_FRAME - 1, slot \in Slots : Composition(frame, slot)
    \/ ClearDevices

Spec == Init /\ [][Next]_vars

-----------------------------------------------------------------------------
(* Properties. *)

\* tms_SelectFdByAddr, protocol/tmsxx.c:8307: a descriptor it returns is a valid
\* connection to the manager with that address.  So an entry of sg_manage never
\* outlives its connection: the number may belong to another one by then.
ManagerEntriesValid ==
    \A addr \in Addrs :
        LET fd == SelectFdByAddr(addr)
        IN  fd # 0 => /\ fd \in open
                      /\ \E i \in DOMAIN manage :
                            manage[i] = [fd |-> fd, addr |-> addr, stale |-> FALSE]

\* That is so unless the worker thread handled a frame from a connection that
\* the shell thread was closing.
ManagerEntriesValidUnlessRaced == ~raced => ManagerEntriesValid

\* A connection is in the manager table at most once, so that what is sent to
\* all managers reaches none of them twice.
ManagersDistinct ==
    \A i, j \in DOMAIN manage :
        i # j /\ manage[i].fd # 0 => manage[i].fd # manage[j].fd

\* A manager that announced itself and is still connected is in the table: there
\* is always a free slot, because whoever takes the last one is disconnected
\* (tms_AddManage never comes to return -1).
AnnouncedManagersServed ==
    ~raced => \A f \in announced \ {closing} :
        \E i \in DOMAIN manage : manage[i].fd = f /\ ~manage[i].stale

\* A manager keeps its slot and address, whatever the others do, until its own
\* connection is closed.
ManagerKeepsSlot ==
    [][\A i \in DOMAIN manage :
        LET fd == manage[i].fd
        IN  fd # 0 /\ manage'[i] # manage[i] => fd \notin open' \/ closing' = fd]_vars

\* As long as every connection reports one location, with a slot below MAX_SLOT,
\* and none while it is being closed, no device entry outlives its connection:
\* tms_GetDevBaseByLocation, protocol/tmsxx.c:8210, then returns a valid descriptor.
\* Of several entries tms_RemoveDev clears the first and leaves the others behind.
SingleLocationDevicesValid ==
    ~moved /\ ~raced => \A x \in Indices : ~devnet[x].stale
=============================================================================
