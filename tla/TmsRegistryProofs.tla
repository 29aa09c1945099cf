------------------------- MODULE TmsRegistryProofs -------------------------
(***************************************************************************)
(* Proofs about the manager and device tables: for any set of sockets, any *)
(* addresses and any size of the two tables.                               *)
(*                                                                         *)
(* The inductive invariant IInv has, besides the types, one part for each  *)
(* argument: the last slot of sg_manage stays free, so that there is       *)
(* always a slot for the next manager; an entry of a table belongs to a    *)
(* connection that is open and not being closed; and a device entry is the *)
(* only one of its connection, so that tms_RemoveDev, which removes one,   *)
(* removes all.                                                            *)
(***************************************************************************)
EXTENDS TmsRegistry, CommonLemmas

Managers == [fd : Fds \union {0}, addr : Addrs \union {0}, stale : BOOLEAN]
Devices  == [fd : Fds \union {0, -1}, stale : BOOLEAN]

TypeOK ==
    /\ open \subseteq Fds
    /\ manage \in [1 .. MANAGE_COUNT -> Managers]
    /\ devnet \in [Indices -> Devices]
    /\ announced \subseteq open
    /\ reported \in [Fds -> SUBSET Indices]
    /\ moved \in BOOLEAN
    /\ closing \in open \union {0}
    /\ raced \in BOOLEAN

\* A free slot is empty, one in use has an address, and the last is free.
SlotsOK(m) ==
    /\ \A i \in 1 .. MANAGE_COUNT :
        IF m[i].fd = 0 THEN m[i] = NoManager ELSE m[i].addr \in Addrs
    /\ m[MANAGE_COUNT].fd = 0

ManagersConnected ==
    ~raced => \A i \in 1 .. MANAGE_COUNT :
        manage[i].fd # 0 => manage[i].fd \in open \ {closing} /\ ~manage[i].stale

AnnouncedKnown == ~raced => \A f \in announced \ {closing} : Known(f)

DevicesConnected ==
    ~moved /\ ~raced => \A x \in Indices :
        /\ ~devnet[x].stale
        /\ devnet[x].fd \in Fds => /\ devnet[x].fd \in open \ {closing}
                                   /\ reported[devnet[x].fd] = {x}
                                   /\ x \in Searched

IInv ==
    /\ TypeOK
    /\ SlotsOK(manage) /\ ManagersDistinct
    /\ ManagersConnected
    /\ AnnouncedKnown
    /\ DevicesConnected

-----------------------------------------------------------------------------
(* The operations on the tables. *)

\* A location that the code accepts is a place of the table; with a slot below
\* MAX_SLOT it is one that tms_RemoveDev searches.
LEMMA IndexInTable ==
    ASSUME NEW frame, NEW slot, LocationOK(frame, slot)
    PROVE  /\ Index(frame, slot) \in Indices
           /\ slot # MAX_SLOT => Index(frame, slot) \in Searched
<1>1. /\ frame \in Nat /\ slot \in Nat /\ frame <= MAX_FRAME - 1 /\ slot <= MAX_SLOT
      /\ MAX_FRAME \in Nat /\ MAX_SLOT \in Nat /\ MAX_SLOT >= 1 /\ MAX_FRAME >= 1
    BY RegistryAssumption DEF LocationOK
<1>2. MAX_FRAME * MAX_SLOT \in Nat /\ frame * MAX_SLOT \in Nat
    BY <1>1
<1>3. (MAX_FRAME + 1) * MAX_SLOT = MAX_FRAME * MAX_SLOT + MAX_SLOT
    BY <1>1
<1>4. frame * MAX_SLOT + MAX_SLOT <= MAX_FRAME * MAX_SLOT
  <2>1. (frame + 1) * MAX_SLOT <= MAX_FRAME * MAX_SLOT
      BY <1>1
  <2>2. (frame + 1) * MAX_SLOT = frame * MAX_SLOT + MAX_SLOT
      BY <1>1
  <2> QED BY <2>1, <2>2
<1> QED BY <1>1, <1>2, <1>3, <1>4 DEF Index, Indices, Searched

\* The entries that are searched, and those before them, are in the table.
LEMMA SearchedInTable ==
    /\ Searched \subseteq Indices
    /\ \A x \in Searched : \A y \in 0 .. x - 1 : y \in Indices /\ y # x
<1>1. MAX_FRAME \in Nat /\ MAX_SLOT \in Nat /\ MAX_FRAME * MAX_SLOT \in Nat
    BY RegistryAssumption
<1>2. (MAX_FRAME + 1) * MAX_SLOT = MAX_FRAME * MAX_SLOT + MAX_SLOT
    BY <1>1
<1>3. \A P \in Nat : /\ 0 .. P - 1 \subseteq 0 .. P + MAX_SLOT - 1
                     /\ \A x \in 0 .. P - 1 : \A y \in 0 .. x - 1 :
                            y \in 0 .. P + MAX_SLOT - 1 /\ y # x
    BY <1>1
<1> QED BY <1>1, <1>2, <1>3 DEF Searched, Indices

\* tms_DelManage frees the slots of its descriptor and no other.
LEMMA DelManageFrees ==
    ASSUME NEW m \in [1 .. MANAGE_COUNT -> Managers], NEW fd \in Fds
    PROVE  /\ DelManage(m, fd) \in [1 .. MANAGE_COUNT -> Managers]
           /\ \A i \in 1 .. MANAGE_COUNT :
                /\ m[i].fd = fd => DelManage(m, fd)[i] = NoManager
                /\ m[i].fd # fd => DelManage(m, fd)[i] = m[i]
                /\ DelManage(m, fd)[i].fd # fd
<1>1. NoManager \in Managers
    BY DEF NoManager, Managers
<1>2. NoManager.fd # fd
    BY RegistryAssumption DEF NoManager
<1> QED BY <1>1, <1>2 DEF DelManage

\* So ep_Close on a connection leaves the manager table as tms_DelManage does.
LEMMA ClosedManagers ==
    ASSUME NEW m \in [1 .. MANAGE_COUNT -> Managers], NEW fd \in Fds
    PROVE  Outlived(DelManage(m, fd), fd) = DelManage(m, fd)
<1>1. /\ DelManage(m, fd) \in [1 .. MANAGE_COUNT -> Managers]
      /\ \A i \in 1 .. MANAGE_COUNT : DelManage(m, fd)[i].fd # fd
    BY DelManageFrees
<1> HIDE DEF DelManage
<1> QED BY <1>1 DEF Outlived

\* tms_RemoveDev empties an entry or keeps it.
LEMMA RemoveDevKeepsOrEmpties ==
    ASSUME NEW d \in [Indices -> Devices], NEW fd \in Fds
    PROVE  /\ RemoveDev(d, fd) \in [Indices -> Devices]
           /\ \A x \in Indices : RemoveDev(d, fd)[x] \in {NoDevice, d[x]}
<1>1. NoDevice \in Devices
    BY DEF NoDevice, Devices
<1> QED BY <1>1 DEF RemoveDev

\* A connection with one entry, in a row that is searched, loses it.
LEMMA RemoveDevRemovesAll ==
    ASSUME NEW d \in [Indices -> Devices], NEW fd \in Fds, NEW loc,
           \A x \in Indices : d[x].fd = fd => x \in Searched /\ loc = {x}
    PROVE  \A x \in Indices : RemoveDev(d, fd)[x].fd # fd
<1>1. NoDevice.fd # fd
    BY RegistryAssumption DEF NoDevice
<1>2. ASSUME NEW x \in Indices, d[x].fd = fd
      PROVE  RemoveDev(d, fd)[x] = NoDevice
  <2>1. x \in Searched /\ loc = {x}
      BY <1>2
  <2>2. ASSUME NEW y \in 0 .. x - 1
        PROVE  d[y].fd # fd
    <3>1. y \in Indices /\ y # x
        BY <2>1, SearchedInTable
    <3> QED BY <1>2, <2>1, <3>1
  <2> QED BY <1>2, <2>1, <2>2 DEF RemoveDev
<1>3. ASSUME NEW x \in Indices
      PROVE  RemoveDev(d, fd)[x] \in {NoDevice, d[x]}
    BY RemoveDevKeepsOrEmpties
<1> QED BY <1>1, <1>2, <1>3

\* Closing a socket keeps a table's type.
LEMMA OutlivedTypes ==
    ASSUME NEW fd
    PROVE  /\ \A m \in [1 .. MANAGE_COUNT -> Managers] :
                Outlived(m, fd) \in [1 .. MANAGE_COUNT -> Managers]
           /\ \A d \in [Indices -> Devices] : Outlived(d, fd) \in [Indices -> Devices]
    BY DEF Outlived, Managers, Devices

-----------------------------------------------------------------------------
(* Closing a connection with its callback, by whatever thread. *)

\* ep_Close and epFUI_OnRemoveClose: the callback, and then the socket is closed.
CloseAll(fd, m) ==
    /\ CloseSocket(fd, DelManage(m, fd), RemoveDev(devnet, fd))
    /\ closing' = ClosingAfter(fd)
    /\ moved' = moved
    /\ raced' = (raced \/ fd = closing) \/ raced' = raced

\* The table m may be sg_manage or what tms_AddManage made of it before it
\* closed the connection it had just put into the last slot.
LEMMA CloseAllKeeps ==
    ASSUME IInv, NEW fd \in open, NEW m \in [1 .. MANAGE_COUNT -> Managers],
           \A i \in 1 .. MANAGE_COUNT :
                m[i] = manage[i] \/ (manage[i].fd = 0 /\ m[i].fd = fd),
           CloseAll(fd, m)
    PROVE  IInv'
<1> USE DEF CloseAll, CloseSocket
<1>1. fd \in Fds /\ fd # 0
    BY RegistryAssumption DEF IInv, TypeOK
<1>2. manage' = DelManage(m, fd)
    BY <1>1, ClosedManagers
<1>3. devnet' \in [Indices -> Devices]
    BY <1>1, RemoveDevKeepsOrEmpties, OutlivedTypes DEF IInv, TypeOK
<1>4. /\ closing' # fd /\ closing' \in {0, closing}
      /\ closing # fd => closing' = closing
      /\ open' \ {closing'} = (open \ {closing}) \ {fd}
      /\ announced' \ {closing'} = (announced \ {closing}) \ {fd}
  <2>1. /\ open' = open \ {fd} /\ announced' = announced \ {fd}
        /\ closing' = IF closing = fd THEN 0 ELSE closing
        /\ 0 \notin open /\ 0 \notin announced
      BY RegistryAssumption DEF ClosingAfter, IInv, TypeOK
  <2> QED BY <1>1, <2>1
<1>5. raced' \in BOOLEAN /\ (~raced' => ~raced)
    BY DEF IInv, TypeOK
<1>6. \A i \in 1 .. MANAGE_COUNT :
        /\ manage'[i].fd # fd
        /\ manage'[i] = NoManager \/ manage'[i] = manage[i]
        /\ manage[i].fd \notin {0, fd} => manage'[i] = manage[i]
  <2> SUFFICES ASSUME NEW i \in 1 .. MANAGE_COUNT
               PROVE  /\ manage'[i].fd # fd
                      /\ manage'[i] = NoManager \/ manage'[i] = manage[i]
                      /\ manage[i].fd \notin {0, fd} => manage'[i] = manage[i]
      OBVIOUS
  <2>1. /\ m[i].fd = fd => manage'[i] = NoManager
        /\ m[i].fd # fd => manage'[i] = m[i]
        /\ manage'[i].fd # fd
    <3>1. /\ m[i].fd = fd => DelManage(m, fd)[i] = NoManager
          /\ m[i].fd # fd => DelManage(m, fd)[i] = m[i]
          /\ DelManage(m, fd)[i].fd # fd
        BY ZenonT(60), <1>1, DelManageFrees
    <3> QED BY <1>2, <3>1
  <2> QED BY <2>1
<1>7. TypeOK'
  <2>1. manage' \in [1 .. MANAGE_COUNT -> Managers]
      BY <1>1, <1>2, DelManageFrees
  <2>2. open' \subseteq Fds /\ announced' \subseteq open' /\ closing' \in open' \union {0}
      BY <1>4 DEF IInv, TypeOK
  <2>3. reported' \in [Fds -> SUBSET Indices]
      BY <1>1 DEF IInv, TypeOK
  <2> QED BY <1>3, <1>5, <2>1, <2>2, <2>3 DEF IInv, TypeOK
<1>8. SlotsOK(manage')
    BY <1>6, RegistryAssumption DEF IInv, SlotsOK, NoManager
<1>9. ManagersDistinct'
    BY <1>6, <1>7 DEF IInv, TypeOK, ManagersDistinct, NoManager
<1>10. ManagersConnected'
    BY <1>4, <1>5, <1>6 DEF IInv, ManagersConnected, NoManager
<1>11. AnnouncedKnown'
  <2>1. SUFFICES ASSUME ~raced', NEW f \in announced' \ {closing'}
                 PROVE  Known(f)'
      BY DEF AnnouncedKnown
  <2>2. f \in announced \ {closing} /\ f # fd /\ ~raced
      BY <1>4, <1>5, <2>1
  <2>3. PICK i \in 1 .. MANAGE_COUNT : manage[i].fd = f
      BY <2>2 DEF IInv, TypeOK, AnnouncedKnown, Known
  <2>4. f # 0
      BY <2>2, RegistryAssumption DEF IInv, TypeOK
  <2>5. manage'[i] = manage[i]
      BY <1>6, <2>2, <2>3, <2>4
  <2> QED BY <1>7, <2>3, <2>5 DEF Known, TypeOK
<1>12. DevicesConnected'
  <2>1. SUFFICES ASSUME ~moved', ~raced'
                 PROVE  DevicesConnected'
      BY DEF DevicesConnected
  <2>2. ~moved /\ ~raced /\ DevicesConnected
      BY <1>5, <2>1 DEF IInv
  <2> DEFINE d == RemoveDev(devnet, fd)
  <2>3. \A x \in Indices : d[x].fd # fd
    <3>1. \A x \in Indices : devnet[x].fd = fd => x \in Searched /\ reported[fd] = {x}
        BY <1>1, <2>2 DEF DevicesConnected
    <3>2. devnet \in [Indices -> Devices]
        BY DEF IInv, TypeOK
    <3> QED BY ZenonT(60), <1>1, <3>1, <3>2, RemoveDevRemovesAll
  <2>4. devnet' = d
    <3>1. d \in [Indices -> Devices]
        BY <1>1, RemoveDevKeepsOrEmpties DEF IInv, TypeOK
    <3>2. devnet' = Outlived(d, fd)
        OBVIOUS
    <3> HIDE DEF d
    <3> QED BY <2>3, <3>1, <3>2 DEF Outlived
  <2>5. ASSUME NEW x \in Indices
        PROVE  d[x] = NoDevice \/ d[x] = devnet[x]
      BY <1>1, RemoveDevKeepsOrEmpties DEF IInv, TypeOK
  <2>6. NoDevice.fd \notin Fds /\ ~NoDevice.stale
      BY RegistryAssumption DEF NoDevice
  <2>7. \A f \in Fds : f # fd => reported'[f] = reported[f]
      BY DEF IInv, TypeOK
  <2> HIDE DEF d
  <2> QED BY <1>4, <2>2, <2>3, <2>4, <2>5, <2>6, <2>7 DEF DevicesConnected
<1> QED BY <1>7, <1>8, <1>9, <1>10, <1>11, <1>12 DEF IInv

-----------------------------------------------------------------------------
(* Every step keeps the invariant. *)

\* There is always a slot to take: the first free one.
LEMMA SlotForEveryone ==
    ASSUME IInv, NEW fd, NEW addr
    PROVE  \E i \in DOMAIN manage : TakesSlot(i, fd, addr)
<1> DEFINE free == {i \in 1 .. MANAGE_COUNT : manage[i].fd = 0}
<1>1. MANAGE_COUNT \in free
    BY RegistryAssumption DEF IInv, SlotsOK
<1>2. PICK i \in free : \A j \in free : i <= j
  <2>1. free \subseteq Nat /\ free # {}
      BY <1>1
  <2> HIDE DEF free
  <2> QED BY <2>1, LeastNat
<1>3. \A j \in 1 .. i - 1 : manage[j].fd # 0
    BY <1>2, RegistryAssumption
<1>4. DOMAIN manage = 1 .. MANAGE_COUNT
    BY DEF IInv, TypeOK
<1> QED BY <1>2, <1>3, <1>4 DEF TakesSlot

LEMMA InitOK == Init => IInv
<1> SUFFICES ASSUME Init
             PROVE  IInv
    OBVIOUS
<1> USE DEF Init
<1>1. NoManager \in Managers /\ NoDevice \in Devices
    BY DEF NoManager, NoDevice, Managers, Devices
<1>2. TypeOK
    BY <1>1 DEF TypeOK
<1>3. SlotsOK(manage) /\ ManagersDistinct
    BY RegistryAssumption DEF SlotsOK, ManagersDistinct, NoManager
<1>4. ManagersConnected /\ AnnouncedKnown
    BY DEF ManagersConnected, AnnouncedKnown, NoManager
<1>5. DevicesConnected
    BY RegistryAssumption DEF DevicesConnected, NoDevice
<1> QED BY <1>2, <1>3, <1>4, <1>5 DEF IInv

LEMMA AcceptOK == IInv /\ Accept => IInv'
<1> SUFFICES ASSUME IInv, NEW fd \in Fds \ open,
                    open' = open \union {fd},
                    UNCHANGED <<manage, devnet, announced, reported, moved, closing, raced>>
             PROVE  IInv'
    BY DEF Accept
<1>1. TypeOK'
    BY DEF IInv, TypeOK
<1>2. SlotsOK(manage') /\ ManagersDistinct'
    BY DEF IInv, ManagersDistinct
<1>3. ManagersConnected' /\ AnnouncedKnown' /\ DevicesConnected'
    BY DEF IInv, ManagersConnected, AnnouncedKnown, Known, DevicesConnected
<1> QED BY <1>1, <1>2, <1>3 DEF IInv

LEMMA CloseOK == \A fd \in Fds : IInv /\ Close(fd) => IInv'
<1> SUFFICES ASSUME IInv, NEW fd \in Fds, Close(fd)
             PROVE  IInv'
    OBVIOUS
<1>1. fd \in open /\ CloseAll(fd, manage)
    BY DEF Close, CloseAll
<1>2. PICK m \in [1 .. MANAGE_COUNT -> Managers] : m = manage /\ CloseAll(fd, m)
    BY <1>1 DEF IInv, TypeOK
<1>3. \A i \in 1 .. MANAGE_COUNT :
        m[i] = manage[i] \/ (manage[i].fd = 0 /\ m[i].fd = fd)
    BY <1>2, Zenon
<1>4. fd \in open /\ CloseAll(fd, m)
    BY <1>1, <1>2
<1> QED BY <1>3, <1>4, CloseAllKeeps, Zenon

\* The shell thread has run the callback: the tables no longer name the
\* connection, which stays open for a while.
LEMMA ShellCloseCallbackOK == \A fd \in Fds : IInv /\ ShellCloseCallback(fd) => IInv'
<1> SUFFICES ASSUME IInv, NEW fd \in Fds, ShellCloseCallback(fd)
             PROVE  IInv'
    OBVIOUS
<1> USE DEF ShellCloseCallback
<1>1. fd # 0
    BY RegistryAssumption
<1>2. manage' \in [1 .. MANAGE_COUNT -> Managers]
    BY DelManageFrees DEF IInv, TypeOK
<1>3. \A i \in 1 .. MANAGE_COUNT :
        /\ manage'[i].fd # fd
        /\ manage'[i] = NoManager \/ manage'[i] = manage[i]
        /\ manage[i].fd # fd => manage'[i] = manage[i]
  <2> SUFFICES ASSUME NEW i \in 1 .. MANAGE_COUNT
               PROVE  /\ manage'[i].fd # fd
                      /\ manage'[i] = NoManager \/ manage'[i] = manage[i]
                      /\ manage[i].fd # fd => manage'[i] = manage[i]
      OBVIOUS
  <2>1. manage \in [1 .. MANAGE_COUNT -> Managers] /\ manage' = DelManage(manage, fd)
      BY DEF IInv, TypeOK
  <2>2. /\ manage[i].fd = fd => DelManage(manage, fd)[i] = NoManager
        /\ manage[i].fd # fd => DelManage(manage, fd)[i] = manage[i]
        /\ DelManage(manage, fd)[i].fd # fd
      BY ZenonT(60), <2>1, DelManageFrees
  <2> QED BY <2>1, <2>2
<1>4. devnet' \in [Indices -> Devices]
    BY RemoveDevKeepsOrEmpties DEF IInv, TypeOK
<1>5. TypeOK'
    BY <1>2, <1>4 DEF IInv, TypeOK
<1>6. SlotsOK(manage')
    BY <1>3, RegistryAssumption DEF IInv, SlotsOK, NoManager
<1>7. ManagersDistinct'
    BY <1>2, <1>3 DEF IInv, TypeOK, ManagersDistinct, NoManager
<1>8. ManagersConnected'
    BY <1>1, <1>3 DEF IInv, ManagersConnected, NoManager
<1>9. AnnouncedKnown'
  <2>1. SUFFICES ASSUME ~raced, NEW f \in announced \ {fd}
                 PROVE  \E i \in DOMAIN manage' : manage'[i].fd = f
      BY DEF AnnouncedKnown, Known
  <2>2. f \in announced \ {closing}
      BY <2>1, RegistryAssumption DEF IInv, TypeOK
  <2>3. PICK i \in 1 .. MANAGE_COUNT : manage[i].fd = f
      BY <2>1, <2>2 DEF IInv, TypeOK, AnnouncedKnown, Known
  <2> QED BY <1>2, <1>3, <2>1, <2>3
<1>10. DevicesConnected'
  <2>1. SUFFICES ASSUME ~moved, ~raced
                 PROVE  DevicesConnected'
      BY DEF DevicesConnected
  <2>2. devnet \in [Indices -> Devices] /\ devnet' = RemoveDev(devnet, fd)
      BY DEF IInv, TypeOK
  <2>3. \A x \in Indices : devnet'[x].fd # fd
    <3>1. \A x \in Indices : devnet[x].fd = fd => x \in Searched /\ reported[fd] = {x}
        BY <2>1 DEF IInv, DevicesConnected
    <3> QED BY <2>2, <3>1, RemoveDevRemovesAll
  <2>4. \A x \in Indices : devnet'[x] = NoDevice \/ devnet'[x] = devnet[x]
      BY <2>2, RemoveDevKeepsOrEmpties
  <2>5. NoDevice.fd \notin Fds /\ ~NoDevice.stale
      BY RegistryAssumption DEF NoDevice
  <2> QED BY <2>1, <2>3, <2>4, <2>5 DEF IInv, DevicesConnected
<1> QED BY <1>5, <1>6, <1>7, <1>8, <1>9, <1>10 DEF IInv

\* The socket is closed after that: unless the worker has put an entry back,
\* none is left to outlive it.
LEMMA ShellCloseSocketOK == IInv /\ ShellCloseSocket => IInv'
<1> SUFFICES ASSUME IInv, ShellCloseSocket
             PROVE  IInv'
    OBVIOUS
<1> USE DEF ShellCloseSocket, CloseSocket
<1>1. closing \in open /\ closing \in Fds /\ 0 \notin open /\ closing # 0
    BY RegistryAssumption DEF IInv, TypeOK
<1>2. TypeOK'
    BY <1>1, OutlivedTypes DEF IInv, TypeOK
<1>3. \A i \in 1 .. MANAGE_COUNT :
        /\ manage'[i].fd = manage[i].fd /\ manage'[i].addr = manage[i].addr
        /\ manage[i].fd # closing => manage'[i] = manage[i]
    BY DEF IInv, TypeOK, Managers, Outlived
<1>4. SlotsOK(manage')
    BY <1>1, <1>3, RegistryAssumption DEF IInv, SlotsOK, NoManager
<1>5. ManagersDistinct'
    BY <1>2, <1>3 DEF IInv, TypeOK, ManagersDistinct
<1>6. open' \ {closing'} = open \ {closing} /\ announced' \ {closing'} = announced \ {closing}
    BY <1>1 DEF IInv, TypeOK
<1>7. ManagersConnected'
    BY <1>3, <1>6 DEF IInv, ManagersConnected
<1>8. AnnouncedKnown'
    BY <1>2, <1>3, <1>6 DEF IInv, AnnouncedKnown, Known, TypeOK
<1>9. DevicesConnected'
  <2>1. SUFFICES ASSUME ~moved, ~raced
                 PROVE  DevicesConnected'
      BY DEF DevicesConnected
  <2>2. \A x \in Indices : devnet[x].fd # closing
      BY <1>1, <2>1 DEF IInv, DevicesConnected
  <2>3. devnet' = devnet
      BY <2>2 DEF IInv, TypeOK, Outlived
  <2>4. \A f \in Fds : f # closing => reported'[f] = reported[f]
      BY DEF IInv, TypeOK
  <2> QED BY <1>6, <2>1, <2>2, <2>3, <2>4 DEF IInv, DevicesConnected
<1> QED BY <1>2, <1>4, <1>5, <1>7, <1>8, <1>9 DEF IInv

\* ID_GET_SN adds a connection that is not in the table yet, into the first
\* free slot; if that is the last slot, the connection is closed instead.
LEMMA GetSNOK == \A fd \in Fds, addr \in Addrs : IInv /\ GetSN(fd, addr) => IInv'
<1> SUFFICES ASSUME IInv, NEW fd \in Fds, NEW addr \in Addrs, GetSN(fd, addr)
             PROVE  IInv'
    OBVIOUS
<1>1. fd \in open /\ fd # 0 /\ raced' = (raced \/ fd = closing) /\ moved' = moved
    BY RegistryAssumption DEF GetSN
<1>2. CASE Known(fd) /\ announced' = announced \union {fd}
           /\ UNCHANGED <<open, manage, devnet, reported, closing>>
  <2>1. TypeOK'
      BY <1>1, <1>2 DEF IInv, TypeOK
  <2>2. SlotsOK(manage') /\ ManagersDistinct' /\ ManagersConnected' /\ DevicesConnected'
      BY <1>1, <1>2
      DEF IInv, ManagersDistinct, ManagersConnected, DevicesConnected
  <2>3. AnnouncedKnown'
      BY <1>1, <1>2 DEF IInv, AnnouncedKnown, Known
  <2> QED BY <2>1, <2>2, <2>3 DEF IInv
<1>3. ASSUME ~Known(fd), NEW i \in 1 .. MANAGE_COUNT, TakesSlot(i, fd, addr), ~IsLastSlot(i),
             manage' = [manage EXCEPT ![i] = [fd |-> fd, addr |-> addr, stale |-> FALSE]],
             announced' = announced \union {fd},
             UNCHANGED <<open, devnet, reported, closing>>
      PROVE  IInv'
  <2>1. [fd |-> fd, addr |-> addr, stale |-> FALSE] \in Managers
      BY DEF Managers
  <2>2. TypeOK'
      BY <1>1, <1>3, <2>1 DEF IInv, TypeOK
  <2>3. \A j \in 1 .. MANAGE_COUNT :
          /\ j # i => manage'[j] = manage[j]
          /\ j = i => manage'[j] = [fd |-> fd, addr |-> addr, stale |-> FALSE]
          /\ manage[j].fd # fd
      BY <1>3 DEF IInv, TypeOK, Known
  <2>4. manage[i].fd = 0
      BY <1>3 DEF TakesSlot
  <2>5. SlotsOK(manage')
      BY <1>1, <1>3, <2>3, RegistryAssumption DEF IInv, SlotsOK, IsLastSlot
  <2>6. ManagersDistinct'
    <3>1. DOMAIN manage = 1 .. MANAGE_COUNT /\ DOMAIN manage' = 1 .. MANAGE_COUNT
        BY <2>2 DEF IInv, TypeOK
    <3>2. SUFFICES ASSUME NEW a \in 1 .. MANAGE_COUNT, NEW b \in 1 .. MANAGE_COUNT,
                          a # b, manage'[a].fd # 0
                   PROVE  manage'[a].fd # manage'[b].fd
        BY <3>1 DEF ManagersDistinct
    <3>3. manage'[i].fd = fd
        BY <2>3
    <3>4. CASE a = i
        BY <2>3, <3>2, <3>3, <3>4
    <3>5. CASE b = i
        BY <2>3, <3>2, <3>3, <3>5
    <3>6. CASE a # i /\ b # i
      <4>1. manage'[a] = manage[a] /\ manage'[b] = manage[b]
          BY <2>3, <3>6
      <4> QED BY <3>1, <3>2, <4>1 DEF IInv, ManagersDistinct
    <3> QED BY <3>4, <3>5, <3>6
  <2>7. ManagersConnected'
    <3>1. SUFFICES ASSUME ~raced', NEW j \in 1 .. MANAGE_COUNT, manage'[j].fd # 0
                   PROVE  manage'[j].fd \in open \ {closing} /\ ~manage'[j].stale
        BY <1>3 DEF ManagersConnected
    <3>2. ~raced /\ fd # closing
        BY <1>1, <3>1
    <3>3. CASE j = i
        BY <1>1, <2>3, <3>2, <3>3
    <3>4. CASE j # i
      <4>1. manage'[j] = manage[j]
          BY <2>3, <3>4
      <4> QED BY <3>1, <3>2, <4>1 DEF IInv, ManagersConnected
    <3> QED BY <3>3, <3>4
  <2>8. AnnouncedKnown'
    <3>1. SUFFICES ASSUME ~raced', NEW f \in announced' \ {closing'}
                   PROVE  \E j \in 1 .. MANAGE_COUNT : manage'[j].fd = f
        BY <2>2 DEF AnnouncedKnown, Known, TypeOK
    <3>2. CASE f = fd
        BY <2>3, <3>2
    <3>3. CASE f # fd
      <4>1. f \in announced \ {closing} /\ ~raced /\ f # 0
          BY <1>1, <1>3, <3>1, <3>3, RegistryAssumption DEF IInv, TypeOK
      <4>2. PICK j \in 1 .. MANAGE_COUNT : manage[j].fd = f
          BY <4>1 DEF IInv, TypeOK, AnnouncedKnown, Known
      <4> QED BY <2>3, <2>4, <4>1, <4>2
    <3> QED BY <3>2, <3>3
  <2>9. DevicesConnected'
      BY <1>1, <1>3 DEF IInv, DevicesConnected
  <2> QED BY <2>2, <2>5, <2>6, <2>7, <2>8, <2>9 DEF IInv
<1>4. ASSUME ~Known(fd), NEW i \in 1 .. MANAGE_COUNT, TakesSlot(i, fd, addr),
             NEW m, m = [manage EXCEPT ![i] = [fd |-> fd, addr |-> addr, stale |-> FALSE]],
             CloseSocket(fd, DelManage(m, fd), RemoveDev(devnet, fd)),
             closing' = ClosingAfter(fd)
      PROVE  IInv'
  <2>1. m \in [1 .. MANAGE_COUNT -> Managers]
      BY <1>4 DEF IInv, TypeOK, Managers
  <2>2. \A j \in 1 .. MANAGE_COUNT : m[j] = manage[j] \/ (manage[j].fd = 0 /\ m[j].fd = fd)
      BY <1>4 DEF IInv, TypeOK, TakesSlot
  <2>3. CloseAll(fd, m)
      BY <1>1, <1>4 DEF CloseAll
  <2> QED BY <1>1, <2>1, <2>2, <2>3, CloseAllKeeps, Zenon
<1>5. \E i \in DOMAIN manage : TakesSlot(i, fd, addr)
    BY SlotForEveryone
<1>6. DOMAIN manage = 1 .. MANAGE_COUNT
    BY DEF IInv, TypeOK
<1> QED BY <1>2, <1>3, <1>4, <1>5, <1>6 DEF GetSN

\* ID_RET_DEVTYPE writes the entry of the location; as long as no connection
\* has moved it had no other one.
LEMMA RetDevTypeOK ==
    \A fd \in Fds : \A frame, slot : IInv /\ RetDevType(fd, frame, slot) => IInv'
<1> SUFFICES ASSUME IInv, NEW fd \in Fds, NEW frame, NEW slot, RetDevType(fd, frame, slot)
             PROVE  IInv'
    OBVIOUS
<1> DEFINE loc == Index(frame, slot)
<1>1. /\ fd \in open
      /\ devnet' = [devnet EXCEPT ![loc] = [fd |-> fd, stale |-> FALSE]]
      /\ moved' = (moved \/ slot = MAX_SLOT \/ reported[fd] \notin {{}, {loc}})
      /\ reported' = IF moved' THEN [f \in Fds |-> {}]
                     ELSE [reported EXCEPT ![fd] = {loc}]
      /\ raced' = (raced \/ fd = closing)
      /\ UNCHANGED <<open, manage, announced, closing>>
    BY DEF RetDevType
<1>2. loc \in Indices /\ (slot # MAX_SLOT => loc \in Searched)
    BY IndexInTable DEF RetDevType
<1> HIDE DEF loc
<1>3. TypeOK'
  <2>1. devnet' \in [Indices -> Devices]
      BY <1>1, <1>2 DEF IInv, TypeOK, Devices
  <2>2. reported' \in [Fds -> SUBSET Indices]
      BY <1>1, <1>2 DEF IInv, TypeOK
  <2> QED BY <1>1, <2>1, <2>2 DEF IInv, TypeOK
<1>4. SlotsOK(manage') /\ ManagersDistinct' /\ ManagersConnected' /\ AnnouncedKnown'
    BY ZenonT(60), <1>1 DEF IInv, ManagersDistinct, ManagersConnected, AnnouncedKnown, Known
<1>5. DevicesConnected'
  <2>1. SUFFICES ASSUME ~moved', ~raced'
                 PROVE  DevicesConnected'
      BY DEF DevicesConnected
  <2>2. /\ ~moved /\ ~raced /\ fd # closing
        /\ loc \in Searched /\ reported[fd] \in {{}, {loc}}
        /\ reported' = [reported EXCEPT ![fd] = {loc}]
      BY <1>1, <1>2, <2>1
  <2>3. ASSUME NEW x \in Indices, x # loc
        PROVE  devnet'[x] = devnet[x] /\ devnet[x].fd # fd
      BY <1>1, <2>2, <2>3 DEF IInv, TypeOK, DevicesConnected
  <2>4. devnet'[loc] = [fd |-> fd, stale |-> FALSE]
      BY <1>1, <1>2 DEF IInv, TypeOK
  <2>5. reported'[fd] = {loc} /\ \A f \in Fds : f # fd => reported'[f] = reported[f]
      BY <2>2 DEF IInv, TypeOK
  <2> QED BY <1>1, <1>2, <2>2, <2>3, <2>4, <2>5 DEF IInv, DevicesConnected
<1> QED BY <1>3, <1>4, <1>5 DEF IInv

LEMMA CompositionOK == \A frame, slot : IInv /\ Composition(frame, slot) => IInv'
<1> SUFFICES ASSUME IInv, NEW frame, NEW slot, Composition(frame, slot)
             PROVE  IInv'
    OBVIOUS
<1> DEFINE loc == Index(frame, slot)
<1>1. /\ devnet' = [devnet EXCEPT ![loc] = [fd |-> -1, stale |-> FALSE]]
      /\ UNCHANGED <<open, manage, announced, reported, moved, closing, raced>>
    BY DEF Composition
<1>2. loc \in Indices
    BY IndexInTable DEF Composition
<1> HIDE DEF loc
<1>3. TypeOK'
  <2>1. [fd |-> -1, stale |-> FALSE] \in Devices
      BY DEF Devices
  <2> QED BY <1>1, <1>2, <2>1 DEF IInv, TypeOK
<1>4. SlotsOK(manage') /\ ManagersDistinct' /\ ManagersConnected' /\ AnnouncedKnown'
    BY <1>1 DEF IInv, ManagersDistinct, ManagersConnected, AnnouncedKnown, Known
<1>5. DevicesConnected'
  <2>1. -1 \notin Fds
      BY RegistryAssumption
  <2>2. \A x \in Indices : devnet'[x] = devnet[x] \/ devnet'[x] = [fd |-> -1, stale |-> FALSE]
      BY <1>1 DEF IInv, TypeOK
  <2> QED BY <1>1, <2>1, <2>2 DEF IInv, DevicesConnected
<1> QED BY <1>3, <1>4, <1>5 DEF IInv

LEMMA ClearDevicesOK == IInv /\ ClearDevices => IInv'
<1> SUFFICES ASSUME IInv, ClearDevices
             PROVE  IInv'
    OBVIOUS
<1>1. /\ devnet' = [x \in Indices |-> IF x \in Searched THEN NoDevice ELSE devnet[x]]
      /\ UNCHANGED <<open, manage, announced, reported, moved, closing, raced>>
    BY DEF ClearDevices
<1>2. NoDevice \in Devices /\ NoDevice.fd \notin Fds /\ ~NoDevice.stale
    BY RegistryAssumption DEF NoDevice, Devices
<1>3. TypeOK'
    BY <1>1, <1>2 DEF IInv, TypeOK
<1>4. SlotsOK(manage') /\ ManagersDistinct' /\ ManagersConnected' /\ AnnouncedKnown'
    BY <1>1 DEF IInv, ManagersDistinct, ManagersConnected, AnnouncedKnown, Known
<1>5. \A x \in Indices : devnet'[x] \in {NoDevice, devnet[x]}
    BY <1>1
<1>6. DevicesConnected'
    BY <1>1, <1>2, <1>5 DEF IInv, DevicesConnected
<1> QED BY <1>3, <1>4, <1>6 DEF IInv

LEMMA StutterOK == IInv /\ UNCHANGED vars => IInv'
    BY DEF vars, IInv, TypeOK, SlotsOK, ManagersDistinct, ManagersConnected,
           AnnouncedKnown, Known, DevicesConnected

\* The inductive invariant holds in every state.
LEMMA Invariance == Spec => []IInv
<1>1. IInv /\ [Next]_vars => IInv'
  <2> SUFFICES ASSUME IInv, [Next]_vars
               PROVE  IInv'
      OBVIOUS
  <2>1. CASE Accept
      BY <2>1, AcceptOK
  <2>2. ASSUME NEW fd \in Fds, Close(fd)
        PROVE  IInv'
      BY <2>2, CloseOK
  <2>3. ASSUME NEW fd \in Fds, ShellCloseCallback(fd)
        PROVE  IInv'
      BY <2>3, ShellCloseCallbackOK
  <2>4. CASE ShellCloseSocket
      BY <2>4, ShellCloseSocketOK
  <2>5. ASSUME NEW fd \in Fds, NEW addr \in Addrs, GetSN(fd, addr)
        PROVE  IInv'
      BY <2>5, GetSNOK
  <2>6. ASSUME NEW fd \in Fds, NEW frame, NEW slot, RetDevType(fd, frame, slot)
        PROVE  IInv'
      BY <2>6, RetDevTypeOK
  <2>7. ASSUME NEW frame, NEW slot, Composition(frame, slot)
        PROVE  IInv'
      BY <2>7, CompositionOK
  <2>8. CASE ClearDevices
      BY <2>8, ClearDevicesOK
  <2>9. CASE UNCHANGED vars
      BY <2>9, StutterOK
  <2> QED BY <2>1, <2>2, <2>3, <2>4, <2>5, <2>6, <2>7, <2>8, <2>9 DEF Next
<1> QED BY <1>1, InitOK, PTL DEF Spec

-----------------------------------------------------------------------------
(* The theorems. *)

\* The tables keep their shape whatever the clients send, and a connection in
\* the middle of a close is one that exists: type correctness.
THEOREM TypeCorrect == Spec => []TypeOK
    BY Invariance, PTL DEF IInv

\* No connection is in sg_manage twice, so tms_Transmit2Manager and the others
\* that go over the table send nothing to a manager twice.
THEOREM NoManagerTwice == Spec => []ManagersDistinct
    BY Invariance, PTL DEF IInv

\* tms_SelectFdByAddr returns the descriptor of an open connection to that
\* manager, unless the worker handled a frame of a connection that the shell
\* thread was closing: for any number of sockets, addresses and slots.
THEOREM ManagersValid == Spec => []ManagerEntriesValidUnlessRaced
<1>1. ASSUME IInv, ~raced, NEW addr \in Addrs, SelectFdByAddr(addr) # 0
      PROVE  /\ SelectFdByAddr(addr) \in open
             /\ \E i \in DOMAIN manage :
                    manage[i] = [fd |-> SelectFdByAddr(addr), addr |-> addr, stale |-> FALSE]
  <2> DEFINE found == {i \in DOMAIN manage : manage[i].addr = addr}
             k == CHOOSE i \in found : \A j \in found : i <= j
  <2>1. found # {} /\ SelectFdByAddr(addr) = manage[k].fd
      BY <1>1 DEF SelectFdByAddr
  <2>2. found \subseteq Nat
      BY <1>1 DEF IInv, TypeOK
  <2>3. k \in found
    <3> HIDE DEF found
    <3>1. \E i \in found : \A j \in found : i <= j
        BY <2>1, <2>2, LeastNat
    <3> QED BY <3>1
  <2> HIDE DEF k
  <2>4. k \in 1 .. MANAGE_COUNT /\ manage[k].addr = addr /\ k \in DOMAIN manage
      BY <1>1, <2>3 DEF IInv, TypeOK
  <2>5. manage[k].fd \in open /\ ~manage[k].stale
      BY <1>1, <2>1, <2>4 DEF IInv, ManagersConnected
  <2>6. manage[k] = [fd |-> manage[k].fd, addr |-> addr, stale |-> FALSE]
    <3>1. manage[k] \in Managers
        BY <1>1, <2>4 DEF IInv, TypeOK
    <3> QED BY <2>4, <2>5, <3>1 DEF Managers
  <2> QED BY <2>1, <2>4, <2>5, <2>6
<1>2. IInv => ManagerEntriesValidUnlessRaced
    BY <1>1 DEF ManagerEntriesValidUnlessRaced, ManagerEntriesValid
<1> QED BY <1>2, Invariance, PTL

\* tms_AddManage always finds a slot: a manager that announced itself is served
\* as long as it is connected, however many there are.
THEOREM ManagersServed == Spec => []AnnouncedManagersServed
<1>1. ASSUME IInv, ~raced, NEW f \in announced \ {closing}
      PROVE  \E i \in DOMAIN manage : manage[i].fd = f /\ ~manage[i].stale
  <2>1. PICK i \in DOMAIN manage : manage[i].fd = f
      BY <1>1 DEF IInv, AnnouncedKnown, Known
  <2>2. f # 0 /\ i \in 1 .. MANAGE_COUNT
      BY <1>1, RegistryAssumption DEF IInv, TypeOK
  <2>3. ~manage[i].stale
      BY <1>1, <2>1, <2>2 DEF IInv, ManagersConnected
  <2> QED BY <2>1, <2>3
<1>2. IInv => AnnouncedManagersServed
    BY <1>1 DEF AnnouncedManagersServed
<1> QED BY <1>2, Invariance, PTL

\* As long as devices do not move, tms_RemoveDev, which removes one entry, leaves
\* none behind that outlives its connection.
THEOREM DevicesValid == Spec => []SingleLocationDevicesValid
<1>1. IInv => SingleLocationDevicesValid
    BY DEF IInv, SingleLocationDevicesValid, DevicesConnected
<1> QED BY <1>1, Invariance, PTL

\* No step of another connection, and none of the shell but the close of this
\* one, takes a manager's slot or changes its address.
THEOREM SlotsKept == Spec => ManagerKeepsSlot
<1>1. ASSUME IInv, [Next]_vars
      PROVE  [\A i \in DOMAIN manage :
                LET fd == manage[i].fd
                IN  fd # 0 /\ manage'[i] # manage[i] => fd \notin open' \/ closing' = fd]_vars
  <2> SUFFICES ASSUME Next, NEW i \in 1 .. MANAGE_COUNT,
                      manage[i].fd # 0, manage'[i] # manage[i]
               PROVE  manage[i].fd \notin open' \/ closing' = manage[i].fd
      BY <1>1 DEF IInv, TypeOK
  <2>1. manage \in [1 .. MANAGE_COUNT -> Managers]
      BY <1>1 DEF IInv, TypeOK
  <2>2. ASSUME NEW fd \in Fds, NEW m \in [1 .. MANAGE_COUNT -> Managers], m[i] = manage[i],
               CloseSocket(fd, DelManage(m, fd), RemoveDev(devnet, fd))
        PROVE  manage[i].fd = fd /\ fd \notin open'
    <3>1. manage' = DelManage(m, fd)
        BY <2>2, ClosedManagers DEF CloseSocket
    <3>2. /\ m[i].fd = fd => DelManage(m, fd)[i] = NoManager
          /\ m[i].fd # fd => DelManage(m, fd)[i] = m[i]
          /\ DelManage(m, fd)[i].fd # fd
        BY ZenonT(60), DelManageFrees
    <3>3. open' = open \ {fd}
        BY <2>2 DEF CloseSocket
    <3> QED BY <2>2, <3>1, <3>2, <3>3
  <2>3. ASSUME NEW fd \in Fds, Close(fd)
        PROVE  manage[i].fd \notin open'
      BY <2>1, <2>2, <2>3 DEF Close
  <2>4. ASSUME NEW fd \in Fds, ShellCloseCallback(fd)
        PROVE  closing' = manage[i].fd
    <3>1. /\ manage[i].fd = fd => DelManage(manage, fd)[i] = NoManager
          /\ manage[i].fd # fd => DelManage(manage, fd)[i] = manage[i]
          /\ DelManage(manage, fd)[i].fd # fd
        BY ZenonT(60), <2>1, DelManageFrees
    <3> QED BY <2>4, <3>1 DEF ShellCloseCallback
  <2>5. CASE ShellCloseSocket
    <3>1. manage' = Outlived(manage, closing) /\ open' = open \ {closing}
        BY <2>5 DEF ShellCloseSocket, CloseSocket
    <3>2. manage[i].fd # closing => manage'[i] = manage[i]
        BY <2>1, <3>1 DEF Outlived
    <3> QED BY <3>1, <3>2
  <2>6. ASSUME NEW fd \in Fds, NEW addr \in Addrs, GetSN(fd, addr)
        PROVE  manage[i].fd \notin open'
    <3>1. PICK j \in 1 .. MANAGE_COUNT :
            /\ TakesSlot(j, fd, addr)
            /\ LET m == [manage EXCEPT ![j] = [fd |-> fd, addr |-> addr, stale |-> FALSE]]
               IN  manage' = m \/ CloseSocket(fd, DelManage(m, fd), RemoveDev(devnet, fd))
        BY <2>1, <2>6 DEF GetSN
    <3> DEFINE m == [manage EXCEPT ![j] = [fd |-> fd, addr |-> addr, stale |-> FALSE]]
    <3>2. j # i
        BY <3>1 DEF TakesSlot
    <3>3. m \in [1 .. MANAGE_COUNT -> Managers] /\ m[i] = manage[i]
        BY <2>1, <3>2 DEF Managers
    <3>4. CloseSocket(fd, DelManage(m, fd), RemoveDev(devnet, fd))
        BY <3>1, <3>3
    <3> HIDE DEF m
    <3> QED BY <2>2, <3>3, <3>4
  <2>7. ASSUME \/ Accept \/ ClearDevices
               \/ \E fd, frame, slot : RetDevType(fd, frame, slot)
               \/ \E frame, slot : Composition(frame, slot)
        PROVE  FALSE
      BY <2>7 DEF Accept, ClearDevices, RetDevType, Composition
  <2> QED BY <2>3, <2>4, <2>5, <2>6, <2>7 DEF Next
<1> QED BY <1>1, Invariance, PTL DEF Spec, ManagerKeepsSlot
=============================================================================
