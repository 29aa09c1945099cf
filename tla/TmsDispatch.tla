---------------------------- MODULE TmsDispatch -----------------------------
(***************************************************************************)
(* One frame through tms_Analyse of protocol/tmsxx.c: the acknowledgement, *)
(* the tables of commands, the copies for a device or a manager, the       *)
(* analyser, which converts the frame where it lies in the receive buffer, *)
(* the callbacks of src/tms_app.c and the hand over to the application.    *)
(* The next frame already lies behind the one that is handled.             *)
(***************************************************************************)
EXTENDS TmsBuild, TmsAnalyse, FiniteSets

CONSTANTS
    Managers,       \* glink addresses of managers
    Origin,         \* socket |-> glink address its peer writes as source
    Messages,       \* the frames peers send
    Locs,           \* frame and slot pairs with a place in the table of devices
    Elsewhere,      \* bound: one pair without
    DevTypes        \* types of devices that matter

GLINK_4412_ADDR == 10        \* 0x0a, this machine
GLINK_DEV_ADDR == 11         \* 0x0b
GLINK_MANAGE_ADDR == 62      \* 0x3e
DEV_SMS == 8
OtdrTest == 35               \* ID_GET_OTDR_TEST as the data of an acknowledgement

ASSUME DispatchAssumption ==
    /\ Managers \subseteq 58 .. 63 /\ DOMAIN Origin \subseteq Nat \ {0}
    /\ IsFiniteSet(DOMAIN Origin) /\ Elsewhere \notin Locs

\* Every manager connects under an address of its own: glink.h has sixteen
\* addresses for as many connections.
ASSUME ManagersNamed ==
    \A fd, other \in DOMAIN Origin :
      Origin[fd] \in Managers /\ Origin[fd] = Origin[other] => fd = other

VARIABLES
    rx,             \* the frame: socket, source, destination, command, length
    arrived,        \* the buffer as it arrived
    mem,            \* the buffer
    todo,           \* what is left to do with the frame
    ok,             \* the analyser accepted it
    sent,           \* what was sent because of it
    manage,         \* sg_manage: address |-> socket or 0
    devnet          \* sg_devnet: location |-> socket or 0, and the type

vars == <<rx, arrived, mem, todo, ok, sent, manage, devnet>>

-----------------------------------------------------------------------------
(* The tables of commands. *)

\* sg_analyse_0x..., the first column.
AnalyserOf(cmd, m) ==
  CASE cmd = "ID_UPDATE" -> tms_AnalyseUpdate(m)
    [] cmd \in {"ID_TRACE0", "ID_TRACE1", "ID_TRACE2"} -> tms_AnalyseTrace(m)
    [] cmd \in {"ID_R_COMMAMD", "ID_COMMAMD"} -> tms_AnalyseCommand(m)
    [] cmd = "ID_GET_DEVTYPE" -> tms_AnalyseGetDevType(m)
    [] cmd = "ID_RET_DEVTYPE" -> tms_AnalyseRetDevType(m)
    [] cmd = "ID_CU_NOTE_NET" -> tms_AnalyseCUNoteNet(m)
    [] cmd = "ID_CU_NOTE_MANAGE_CONNECT" -> tms_AnalyseCUNoteManageConnect(m)
    [] cmd = "ID_GET_OPM_OLP_RAYPOWER" -> tms_AnalyseGetOPMOLPRayPower(m)
    [] cmd = "ID_CMD_OSW_SWITCH" -> tms_AnalyseMCU_OSWSwitch(m)
    [] cmd = "ID_CMD_OLP_REQ_OTDR" -> tms_AnalyseMCU_OLPReqOTDRTest(m)
    [] cmd = "ID_RET_ALARM_TEST" -> tms_AnalyseAnyRetOTDRTest(m)
    [] cmd = "ID_RET_DEV_STATE_FROM_TU" -> tms_AnalyseRetDevStateFromTU(m)
    [] cmd = "ID_RET_POWER_STATE_FROM_TU" -> tms_AnalyseRetPowerStateFromTU(m)
    [] cmd \in {"ID_DEV_RET_MCU_ALARM", "ID_OLP_REQUEST_OTDR"} -> tms_AnalyseDevRetMCUAlarm(m)
    [] cmd = "ID_CHANGE_ADDR" -> tms_AnalyseSetIPAddress(m)
    [] cmd = "ID_GET_SN" -> tms_AnalyseGetSerialNumber(m)
    [] cmd = "ID_RET_SN" -> tms_AnalyseRetSerialNumber(m)
    [] cmd = "ID_CFG_SMS" -> tms_AnalyseCfgSMSAuthorization(m)
    [] cmd = "ID_CFG_SMS_CLEAR" -> tms_AnalyseClearSMSAuthorization(m)
    [] cmd = "ID_GET_COMPOSITION" -> tms_AnalyseGetDeviceComposition(m)
    [] cmd \in {"ID_RET_COMPOSITION", "ID_RET_COMPOSITION_RT", "ID_ACK_COMPOSITION"}
         -> tms_AnalyseRetDeviceComposition(m)
    [] cmd = "ID_CFG_MCU_OSW_PORT" -> tms_AnalyseCfgMCUOSWPort(m)
    [] cmd = "ID_CFG_MCU_OSW_PORT_CLEAR" -> tms_AnalyseCfgMCUOPMPortClear(m)
    [] cmd = "ID_CFG_MCU_OLP_PORT" -> tms_AnalyseCfgMCUOLPPort(m)
    [] cmd = "ID_CFG_MCU_OLP_PORT_CLEAR" -> tms_AnalyseCfgMCUOLPPortClear(m)
    [] cmd = "ID_CFG_MCU_U_OPM_OSW" -> tms_AnalyseCfgMCUUniteOPMOSW(m)
    [] cmd = "ID_CFG_MCU_U_OPM_OSW_CLEAR" -> tms_AnalyseCfgMCUUniteOPMOSWClear(m)
    [] cmd = "ID_CFG_MCU_U_OLP_OSW" -> tms_AnalyseCfgMCUUniteOLPOSW(m)
    [] cmd = "ID_CFG_MCU_U_OLP_OSW_CLEAR" -> tms_AnalyseCfgMCUUniteOLPOSWClear(m)
    [] cmd = "ID_CFG_OPM_REF_LEVEL" -> tms_AnalyseCfgOPMRefLevel(m)
    [] cmd = "ID_GET_OPM_OP" -> tms_AnalyseGetOPMOP(m)
    [] cmd = "ID_RET_OPM_OP" -> tms_AnalyseRetOPMOP(m)
    [] cmd = "ID_CFG_OLP_REF_LEVEL" -> tms_AnalyseCfgOLPRefLevel(m)
    [] cmd = "ID_RET_OLP_OP" -> tms_AnalyseRetOLPOP(m)
    [] cmd = "ID_CFG_OTDR_REF" -> tms_AnalyseCfgOTDRRef(m)
    [] cmd = "ID_CFG_MCU_OSW_CYCLE" -> tms_AnalyseCfgMCUOSWCycle(m)
    [] cmd = "ID_GET_OTDR_TEST" -> tms_AnalyseGetOTDRTest(m)
    [] cmd \in {"ID_RET_OTDR_TEST", "ID_RET_OTDR_TEST_CYC"} -> tms_AnalyseRetOTDRTest(m)
    [] cmd = "ID_CFG_OLP_MODE" -> tms_AnalyseCfgOSWMode(m)
    [] cmd = "ID_CMD_OLP_SWITCH" -> tms_MCU_AnalyseOLPSwitch(m)
    [] cmd = "ID_REPORT_OLP_ACTION" -> tms_AnalyseReportOLPAction(m)
    [] cmd = "ID_ALARM_OPM" -> tms_AnalyseAlarmOPM(m)
    [] cmd = "ID_ALARM_OPM_CHANGE" -> tms_AnalyseAlarmOPMChange(m)
    [] cmd = "ID_ALARM_LINE" -> tms_AnalyseAlarmLine(m)
    [] cmd = "ID_ALARM_HW" -> tms_AnalyseAlarmHW(m)
    [] cmd = "ID_RET_OTDR_CYC" -> tms_AnalyseRetOTDRCycle(m)
    [] cmd = "ID_CMD_SMS_TEXT" -> tms_AnalyseSendSMS(m)
    [] cmd = "ID_CMD_SMS_ERROR" -> tms_AnalyseSMSError(m)
    [] cmd = "ID_GET_VERSION" -> tms_AnalyseGetVersion(m)
    [] cmd = "ID_RET_VERSION" -> tms_AnalyseRetVersion(m)
    [] cmd = "ID_ADJUST_TIME" -> tms_AnalyseAdjustTime(m)
    [] cmd = "ID_CMD_ACK" -> tms_AnalyseAck(m)
    [] cmd \in {"ID_GET_OTDR_PARAM", "ID_DELALL_TBROUTE"} -> tms_AnalyseDelAll_TbRoute(m)
    [] cmd = "ID_RET_OTDR_PARAM" -> tms_AnalyseRetOTDRParam(m)
    [] cmd = "ID_GET_DEV_PRODUCE" -> tms_AnalyseGetDevProduce(m)
    [] cmd = "ID_RET_DEV_PRODUCE" -> tms_AnalyseRetDevProduce(m)
    [] cmd = "ID_INSERT_TBROUTE" -> tms_AnalyseTbRoute_Insert(m)
    [] cmd = "ID_INSERT_TBUNIT" -> tms_AnalyseInsert_TbUnit(m)
    [] cmd = "ID_DEL_TBUNIT" -> tms_AnalyseDel_TbUnit(m)
    [] cmd = "ID_INSERT_TBCYCTEST" -> tms_AnalyseInsert_TbCycTest(m)
    [] cmd = "ID_DEL_TBCYCTEST" -> tms_AnalyseDel_TbCycTest(m)
    [] cmd = "ID_DEL_TBOTDRREFDATA" -> tms_AnalyseDel_TbOTDRRefData(m)
    [] cmd = "ID_ALARM_SOUND_ON_OFF" -> tms_AnalyseAlarmSoundONOFF(m)
    [] cmd = "ID_RET_TOTAL_OP_ALARM" -> tms_AnalyseRetTotalOPAlarm(m)
    [] cmd = "ID_RET_OLP_ACTION_LOG" -> tms_AnalyseRetOLPActionLog(m)
    [] cmd = "ID_GET_MCU_OSW_PORT" -> tms_AnalyseGetMCUOSWPort(m)
    [] cmd = "ID_GET_OTDR_REF" -> tms_AnalyseGetOTDRRef(m)
    [] cmd = "ID_GET_OLP_LINE" -> tms_AnalyseGetOLPLine(m)
    [] cmd = "ID_GET_OLP_INFO" -> tms_AnalyseGetOLPInfo(m)
    [] cmd = "ID_TICK" -> tms_AnalyseTick(m)
    [] cmd = "ID_TEST_NETPACK_SAVE" -> tms_AnalyseTestPacketSave(m)
    [] cmd = "ID_TEST_NETPACK_ECHO" -> tms_AnalyseTestPacketEcho(m)
    [] cmd = "ID_TEST_NETPACK_ACK" -> tms_AnalyseTestPacketAck(m)
    [] OTHER -> tms_AnalyseUnuse(m)

\* The second column; what is in none of the sets is PROCCESS_COPY2USE.
PROCCESS_CALLBACK == {"ID_TICK", "ID_TRACE0", "ID_TRACE1", "ID_TRACE2", "ID_R_COMMAMD",
  "ID_COMMAMD", "ID_CU_NOTE_NET", "ID_CHANGE_ADDR", "ID_RET_SN",
  "ID_TEST_NETPACK_SAVE", "ID_TEST_NETPACK_ECHO", "ID_TEST_NETPACK_ACK"}
PROCCESS_2DEV == {"ID_GET_OPM_OLP_RAYPOWER", "ID_CMD_OSW_SWITCH", "ID_CMD_OLP_START_OTDR",
  "ID_CMD_OLP_FINISH_OTDR", "ID_CFG_OPM_REF_LEVEL", "ID_GET_OLP_OP", "ID_CFG_OLP_MODE",
  "ID_CMD_OLP_SWITCH", "ID_GET_VERSION", "ID_GET_OTDR_PARAM", "ID_GET_DEV_PRODUCE",
  "ID_GET_OP_GATE"}
PROCCESS_2MANAGE == {"ID_RET_OTDR_PARAM", "ID_RET_COMPOSITION_RT", "ID_RET_OP_GATE"}
PROCCESS_2DEV_AND_COPY2USE == {"ID_UPDATE", "ID_GET_OPM_OP"}
PROCCESS_2MANAGE_AND_COPY2USE == {"ID_RET_DEVTYPE", "ID_RET_OPM_OP", "ID_RET_OLP_OP",
  "ID_RET_OTDR_TEST", "ID_REPORT_OLP_ACTION", "ID_ALARM_OPM", "ID_ALARM_OPM_CHANGE",
  "ID_CMD_SMS_ERROR", "ID_RET_VERSION", "ID_CMD_ACK", "ID_RET_OTDR_TEST_CYC",
  "ID_RET_DEV_PRODUCE"}
PROCCESS_DONOT == {"ID_GET_ALARM_TEST", "ID_GET_DEV_STATE_FROM_TU",
  "ID_GET_POWER_STATE_FROM_TU", "ID_MCU_GET_DEV_ALARM", "ID_RET_ALARM_HW_CHANGE",
  "ID_RET_MCU_TIME", "ID_RET_ALARM_SOUND_STATE", "ID_RET_TOTAL_OP_ALARM",
  "ID_RET_OLP_ACTION_LOG", "ID_RET_ALARM_POWER", "ID_RET_MCU_OSW_PORT", "ID_RET_OTDR_REF",
  "ID_RET_TBROUTE", "ID_RET_TBUNIT", "ID_RET_TBCYCTEST", "ID_RET_OLP_LINE",
  "ID_RET_OLP_INFO"}
PROCCESS_SPECAIAL == {"ID_GET_DEVTYPE", "ID_GET_OTDR_TEST", "ID_ALARM_HW",
  "ID_CMD_SMS_TEXT", "ID_GET_OTDR_TEST_CYC"}

-----------------------------------------------------------------------------
(* The tables of peers, of which TmsRegistry has the whole story: slots of *)
(* managers in the order of registration, places of devices.  There are    *)
(* fewer sockets than slots, so the last one is not taken.                 *)

Sockets == DOMAIN Origin
Slots == 1 .. Cardinality(Sockets)
FreeSlot == [fd |-> 0, addr |-> 0]
NoDevice == [fd |-> 0, type |-> 0]

First(S) == CHOOSE i \in S : \A j \in S : i <= j
SlotsWith(test(_)) == {i \in Slots : test(manage[i])}

tms_SelectFdByAddr(addr) ==
  LET found == SlotsWith(LAMBDA entry : entry.addr = addr)
  IN IF found = {} THEN 0 ELSE manage[First(found)].fd
tms_GetManageFd ==
  LET found == SlotsWith(LAMBDA entry : entry.fd # 0)
  IN IF found = {} THEN 0 ELSE manage[First(found)].fd
tms_AddManage(fd, addr) ==
  IF SlotsWith(LAMBDA entry : entry.fd = fd) # {} THEN manage
  ELSE [manage EXCEPT ![First(SlotsWith(LAMBDA entry : entry.fd = 0))] =
                         [fd |-> fd, addr |-> addr]]
tms_DelManage(fd) ==
  [i \in Slots |-> IF manage[i].fd = fd THEN FreeSlot ELSE manage[i]]

tms_GetDevBaseByLocation(loc) == IF loc \in Locs THEN devnet[loc].fd ELSE 0
tms_AddDev(loc, fd, type) ==
  IF loc \in Locs THEN [devnet EXCEPT ![loc] = [fd |-> fd, type |-> type]] ELSE devnet
\* Frame by frame, slot by slot.
Before(a, b) == a[1] < b[1] \/ (a[1] = b[1] /\ a[2] <= b[2])
FirstPlace(places) == CHOOSE a \in places : \A b \in places : Before(a, b)
tms_RemoveDev(fd) ==
  LET places == {loc \in Locs : devnet[loc].fd = fd}
  IN IF places = {} THEN devnet ELSE [devnet EXCEPT ![FirstPlace(places)] = NoDevice]

-----------------------------------------------------------------------------
(* The buffer. *)

Data(cell) == cell.at >= GLINK_OFFSET_DATA /\ cell.at < rx.len - 4
Inside(cell) == cell.at < rx.len
\* The first len bytes of the buffer m.
OneFrame(m, len) == SubSeq(m, 1, Cardinality({i \in DOMAIN m : m[i].at < len}))
CellAt(m, at) == CHOOSE c \in ToSet(m) : c.at = at

\* htonl of what lies there: a number that was converted before is none.
Spoilt == -1
NumberAt(at) == LET c == CellAt(mem, at) IN IF c.o \in {"net", "junk"} THEN c.v ELSE Spoilt
HeadAt(name) == (CHOOSE c \in ToSet(Lay(glink_base, 4)) : c.n = name).at
Source == NumberAt(HeadAt("src"))
Destination == NumberAt(HeadAt("dst"))
LocationSwapped == <<NumberAt(GLINK_OFFSET_DATA + 4), NumberAt(GLINK_OFFSET_DATA)>>
Location == <<NumberAt(GLINK_OFFSET_DATA), NumberAt(GLINK_OFFSET_DATA + 4)>>

Wrapped(data, src, dst) ==
  Text("mark", 4) \o Conv(With(With(glink_base, "src", src), "dst", dst))
    \o data \o With(Text("tail", 4), "tail", Spoilt)
NextFrame == Wrapped(Conv(tms_dev_port), GLINK_DEV_ADDR, GLINK_4412_ADDR)

NoFrame == [fd |-> 0, cmd |-> "none", len |-> 0]
Idle == todo = <<>>

\* What tms_Analyse does with a command: the acknowledgement first.
ToDevice == PROCCESS_2DEV \cup PROCCESS_2DEV_AND_COPY2USE
ToManager == PROCCESS_2MANAGE \cup PROCCESS_2MANAGE_AND_COPY2USE
OnlyAnalysed == PROCCESS_2DEV \cup PROCCESS_2MANAGE \cup PROCCESS_CALLBACK
Ignored == PROCCESS_DONOT \cup {"unknown"}      \* "unknown": in none of the tables

\* Bugs: analysed before it is passed on; unknown commands not acknowledged;
\* analysed once for the device and once more.
tms_AnalyseFirst(cmd) ==
  <<"ack">> \o (IF cmd \in Ignored THEN <<>> ELSE <<"analyse">>)
            \o (IF cmd \in ToDevice THEN <<"device">> ELSE <<>>)
            \o (IF cmd \in ToManager THEN <<"manager">> ELSE <<>>)
            \o (IF cmd \in OnlyAnalysed \cup Ignored THEN <<>> ELSE <<"copy">>)
            \o <<"release">>
tms_AnalyseKnown(cmd) ==
  IF cmd \in Ignored THEN <<"release">> ELSE tms_AnalyseFirst(cmd)
tms_AnalyseTwice(cmd) ==
  IF cmd \in ToDevice THEN <<"ack", "device", "analyse", "analyse", "release">>
                      ELSE tms_AnalyseFirst(cmd)
tms_Analyse(cmd) ==
  <<"ack">> \o (IF cmd \in ToDevice THEN <<"device">> ELSE <<>>)
            \o (IF cmd \in ToManager THEN <<"manager">> ELSE <<>>)
            \o (IF cmd \in Ignored THEN <<>>
                ELSE IF cmd \in OnlyAnalysed THEN <<"analyse">> ELSE <<"analyse", "copy">>)
            \o <<"release">>

Init ==
  /\ rx = NoFrame /\ arrived = <<>> /\ mem = <<>> /\ todo = <<>>
  /\ ok = TRUE /\ sent = <<>>
  /\ manage = [i \in Slots |-> FreeSlot]
  /\ devnet = [loc \in Locs |-> NoDevice]

(***************************************************************************)
(* A frame has been found in the buffer.  Devices announce themselves with *)
(* their place and type, managers by asking for the serial number.  Where  *)
(* the command is for a manager, a peer may name any destination.          *)
(***************************************************************************)
Sends(fd, cmd) ==
  CASE cmd = "ID_RET_DEVTYPE" -> Origin[fd] = GLINK_DEV_ADDR
    [] cmd = "ID_GET_SN" -> Origin[fd] \in Managers
    [] OTHER -> TRUE
Destinations(cmd) ==
  IF cmd \in ToManager THEN Managers \cup {GLINK_4412_ADDR, GLINK_DEV_ADDR}
                       ELSE {GLINK_4412_ADDR}
Places(cmd) ==
  IF cmd \in ToDevice \cup {"ID_RET_DEVTYPE"} THEN Locs \cup {Elsewhere} ELSE {Elsewhere}
Types(cmd) == IF cmd = "ID_RET_DEVTYPE" THEN DevTypes ELSE {0}

\* What lies in the buffer then.
Arriving(fd, message, dst, loc, type) ==
  LET placed == With(With(message.data, "frame", loc[1]), "slot", loc[2])
      data == IF message.cmd = "ID_RET_DEVTYPE" THEN With(placed, "type", type) ELSE placed
  IN Lay(Wrapped(data, Origin[fd], dst) \o NextFrame, 0)

\* What tms_Analyse relies on where it reads the frame: the fields lie one
\* behind the other, the head has a source, its sender's, and a destination in
\* network order, and two words of data name the place where there is one.
Cell == [n : STRING, w : Nat, o : {"host", "net", "text", "swab", "junk"}, v : Int, at : Nat]
Ordered(m) == m \in Seq(Cell) /\ \A i, j \in DOMAIN m : i < j => m[i].at < m[j].at
Written(m, at, orders) == \E i \in DOMAIN m : m[i].at = at /\ m[i].o \in orders
Filled(m, cmd, src) ==
  /\ Ordered(m)
  /\ HeadAt("src") # HeadAt("dst")
  /\ Written(m, HeadAt("dst"), {"net"}) /\ Written(m, HeadAt("src"), {"net"})
  /\ CellAt(m, HeadAt("src")).v = src
  /\ cmd \in ToDevice => \A at \in {GLINK_OFFSET_DATA, GLINK_OFFSET_DATA + 4} :
                            Written(m, at, {"net", "junk"})
ASSUME FrameAssumption ==
  \A fd \in Sockets, message \in Messages : Sends(fd, message.cmd) =>
    \A dst \in Destinations(message.cmd), loc \in Places(message.cmd),
       type \in Types(message.cmd) :
      Filled(Arriving(fd, message, dst, loc, type), message.cmd, Origin[fd])

Receive(fd, message) ==
  /\ Idle /\ Sends(fd, message.cmd)
  /\ rx' = [fd |-> fd, cmd |-> message.cmd, len |-> GLINK_OFFSET_DATA + message.datalen + 4]
  /\ \E dst \in Destinations(message.cmd), loc \in Places(message.cmd),
        type \in Types(message.cmd) : mem' = Arriving(fd, message, dst, loc, type)
  /\ arrived' = mem'
  /\ todo' = tms_Analyse(message.cmd)
  /\ ok' = TRUE /\ sent' = <<>>
  /\ UNCHANGED <<manage, devnet>>

Doing(step) == todo # <<>> /\ Head(todo) = step /\ todo' = Tail(todo)
Sent(fd, how, cells) ==
  sent' = Append(sent, [fd |-> fd, how |-> how, about |-> rx.cmd, cells |-> cells])

\* Built with CONFIG_ACK_DEVICE.  The words are converted here and in tms_AckEx.
tms_AckDevice ==
  /\ Doing("ack")
  /\ IF Source # GLINK_DEV_ADDR THEN UNCHANGED sent
     ELSE Sent(rx.fd, "ack",
            tms_AckEx([i \in DOMAIN tms_ack |->
              IF tms_ack[i].n \in {"errcode", "cmdid"} THEN htonl(tms_ack[i])
                                                       ELSE tms_ack[i]]).data)
  /\ UNCHANGED <<rx, arrived, mem, ok, manage, devnet>>

tms_Transmit2Dev ==
  /\ Doing("device")
  /\ LET fd == tms_GetDevBaseByLocation(Location)
     IN IF fd = 0 THEN UNCHANGED sent ELSE Sent(fd, "device", OneFrame(mem, rx.len))
  /\ UNCHANGED <<rx, arrived, mem, ok, manage, devnet>>

IsManagerAddr(addr) == addr \in 48 .. 63          \* (addr & 0x30) == 0x30
Refused == \/ Destination = GLINK_4412_ADDR \/ Source = GLINK_4412_ADDR
           \/ ~IsManagerAddr(Destination)
Addressed(m, name, addr) ==
  [i \in DOMAIN m |-> IF m[i].at = HeadAt(name) THEN [m[i] EXCEPT !.o = "net", !.v = addr]
                                                ELSE m[i]]
ReaddressedSourceKept == Addressed(mem, "dst", GLINK_MANAGE_ADDR)
Readdressed == Addressed(Addressed(mem, "dst", GLINK_MANAGE_ADDR), "src", GLINK_4412_ADDR)

\* The frame is given new addresses where it lies, then sent to the old one.
Transmit2Manager ==
  IF Refused THEN UNCHANGED <<mem, sent>>
  ELSE /\ mem' = Readdressed
       /\ LET fd == tms_SelectFdByAddr(Destination)
          IN IF fd = 0 THEN UNCHANGED sent ELSE Sent(fd, "manager", OneFrame(Readdressed, rx.len))

tms_Transmit2Manager ==
  /\ Doing("manager") /\ Transmit2Manager
  /\ UNCHANGED <<rx, arrived, ok, manage, devnet>>

-----------------------------------------------------------------------------
(* The analyser, and what else its command makes happen. *)

Analysed == AnalyserOf(rx.cmd, Analysis(mem, rx.len))
Analyse(cmds) == /\ rx.cmd \in cmds /\ Doing("analyse") /\ ok' = Analysed.ok
                 /\ UNCHANGED <<rx, arrived>>
DataAt(k) == CellAt(Analysed.mem, GLINK_OFFSET_DATA + 4 * k).v

\* A device's heartbeat is answered.
AnalyseTick ==
  /\ Analyse({"ID_TICK"}) /\ mem' = Analysed.mem
  /\ IF Source = GLINK_DEV_ADDR THEN Sent(rx.fd, "tick", tms_Tick.data) ELSE UNCHANGED sent
  /\ UNCHANGED <<manage, devnet>>

\* A device is entered, and a manager, if there is one, reads about it.
AnalyseRetDevType ==
  /\ Analyse({"ID_RET_DEVTYPE"}) /\ mem' = Analysed.mem
  /\ devnet' = tms_AddDev(<<DataAt(0), DataAt(1)>>, rx.fd, DataAt(2))
  /\ Sent(tms_GetManageFd, "trace", tms_Trace(1, 0).data)
  /\ UNCHANGED manage

AnalyseRetVersion ==
  /\ Analyse({"ID_RET_VERSION"}) /\ mem' = Analysed.mem
  /\ Sent(tms_GetManageFd, "trace", tms_Trace(1, 0).data)
  /\ UNCHANGED <<manage, devnet>>

AnalyseSetIPAddress ==
  /\ Analyse({"ID_CHANGE_ADDR"}) /\ mem' = Analysed.mem
  /\ IF Analysed.ok
       THEN Sent(rx.fd, "reply", tms_AckEx(Unassigned(tms_ack,
                   {"reserve1", "reserve2", "reserve3", "reserve4"})).data)
       ELSE UNCHANGED sent
  /\ UNCHANGED <<manage, devnet>>

AnalyseGetSerialNumber ==
  /\ Analyse({"ID_GET_SN"}) /\ mem' = Analysed.mem
  /\ manage' = tms_AddManage(rx.fd, Source)
  /\ UNCHANGED <<sent, devnet>>

\* The text goes on, as it is, to the first device that sends such texts.
AnalyseSendSMS ==
  /\ Analyse({"ID_CMD_SMS_TEXT"}) /\ mem' = Analysed.mem
  /\ LET places == {loc \in Locs : devnet[loc].fd # 0 /\ devnet[loc].type = DEV_SMS}
     IN IF places = {} THEN UNCHANGED sent
        ELSE Sent(devnet[FirstPlace(places)].fd, "sms", OneFrame(mem, rx.len))
  /\ UNCHANGED <<manage, devnet>>

\* The acknowledgement of a measurement is sent to a manager once more, were
\* it not that the buffer names this machine as its source by now.
AnalyseAck ==
  /\ Analyse({"ID_CMD_ACK"})
  /\ LET again == NumberAt(GLINK_OFFSET_DATA + 4) = OtdrTest /\ ~Refused
         now == IF again THEN Readdressed ELSE mem
         fd == tms_SelectFdByAddr(Destination)
     IN /\ mem' = AnalyserOf("ID_CMD_ACK", Analysis(now, rx.len)).mem
        /\ IF again /\ fd # 0 THEN Sent(fd, "manager", OneFrame(now, rx.len)) ELSE UNCHANGED sent
  /\ UNCHANGED <<manage, devnet>>

\* A packet of the net's test is answered with a text that is no frame.
AnalyseTestPacket ==
  /\ Analyse({"ID_TEST_NETPACK_ECHO", "ID_TEST_NETPACK_ACK"}) /\ mem' = Analysed.mem
  /\ Sent(rx.fd, "echo", Text("pecho", IF rx.cmd = "ID_TEST_NETPACK_ECHO" THEN 32 ELSE 64))
  /\ UNCHANGED <<manage, devnet>>

WithMore == {"ID_TICK", "ID_RET_DEVTYPE", "ID_RET_VERSION", "ID_CHANGE_ADDR", "ID_GET_SN",
  "ID_CMD_SMS_TEXT", "ID_CMD_ACK", "ID_TEST_NETPACK_ECHO", "ID_TEST_NETPACK_ACK"}
AnalyseOnly ==
  /\ Analyse({rx.cmd} \ WithMore) /\ mem' = Analysed.mem
  /\ UNCHANGED <<sent, manage, devnet>>

\* The head in this machine's order, for the application, refused or not.
tms_Copy2Use ==
  /\ Doing("copy") /\ mem' = ConvertAt(mem, Lay(glink_base, 4))
  /\ UNCHANGED <<rx, arrived, ok, sent, manage, devnet>>

\* tms_Analyse is back, the frame is taken out of the buffer.
Release ==
  /\ Doing("release")
  /\ rx' = NoFrame /\ arrived' = <<>> /\ mem' = <<>> /\ ok' = TRUE /\ sent' = <<>>
  /\ UNCHANGED <<manage, devnet>>

\* A connection is closed between two frames.
Disconnect(fd) ==
  /\ Idle
  /\ manage' = tms_DelManage(fd) /\ devnet' = tms_RemoveDev(fd) /\ sent' = <<>>
  /\ UNCHANGED <<rx, arrived, mem, todo, ok>>

(***************************************************************************)
(* What is reported to GLINK_MASK_MADDR goes to all managers, a frame for  *)
(* each, from the shell: "tms olprep" and "tms alarmline".  The loop over  *)
(* the addresses is written out.                                           *)
(***************************************************************************)
Reports == {tms_ReportOLPAction, tms_AlarmLine(10, 1, "ID_ALARM_LINE")}
ForManager(frame, addr) == Wrapped(frame.data, GLINK_4412_ADDR, addr)
ToEach(frame, addr) ==
  [fd |-> tms_SelectFdByAddr(addr), how |-> "alarm", about |-> frame.cmd,
   cells |-> ForManager(frame, addr)]
Registered(addr) == tms_SelectFdByAddr(addr) # 0
Here(addr) == IF Registered(addr) THEN <<addr>> ELSE <<>>
Reached == Here(58) \o Here(59) \o Here(60) \o Here(61) \o Here(62) \o Here(63)

tms_SendAllManager(frame) == [i \in DOMAIN Reached |-> ToEach(frame, Reached[i])]
\* The same, with the data in several parts.
tms_SendAllManagerDot(frame) == [i \in DOMAIN Reached |-> ToEach(frame, Reached[i])]

Report ==
  /\ Idle
  /\ \/ sent' = tms_SendAllManager(tms_ReportOLPAction)
     \/ sent' = tms_SendAllManagerDot(tms_AlarmLine(10, 1, "ID_ALARM_LINE"))
  /\ UNCHANGED <<rx, arrived, mem, todo, ok, manage, devnet>>

\* A report is laid out with its reader's address in the head.
NamesReader(cells, addr) ==
  \E i \in DOMAIN cells : cells[i].n = "dst" /\ cells[i].o = "net" /\ cells[i].v = addr
ASSUME ReportAssumption ==
  \A frame \in Reports, addr \in 58 .. 63 : NamesReader(ForManager(frame, addr), addr)

Next == \/ \E fd \in Sockets : Disconnect(fd) \/ (\E message \in Messages : Receive(fd, message))
        \/ tms_AckDevice \/ tms_Transmit2Dev \/ tms_Transmit2Manager
        \/ AnalyseTick \/ AnalyseRetDevType \/ AnalyseRetVersion \/ AnalyseSetIPAddress
        \/ AnalyseGetSerialNumber \/ AnalyseSendSMS \/ AnalyseAck \/ AnalyseTestPacket \/ AnalyseOnly
        \/ tms_Copy2Use \/ Release \/ Report

Spec == Init /\ [][Next]_vars

-----------------------------------------------------------------------------
(* Properties. *)

Copies(how) == {i \in DOMAIN sent : sent[i].how = how}
Done == todo = <<"release">>
AsArrived(cell) == CellAt(arrived, cell.at)
Addresses == {HeadAt("src"), HeadAt("dst")}

\* What is passed on to a device, a manager or the sender of short messages is
\* the frame as it arrived, in network order, although the analyser converts
\* the same bytes where they lie; only the addresses of a manager's copy differ
\* (tms_Transmit2Dev, tms_Transmit2Manager and tms_OnSpSendSMS send the buffer).
ForwardedAsReceived ==
  /\ \A i \in Copies("device") \cup Copies("sms") : sent[i].cells = OneFrame(arrived, rx.len)
  /\ \A i \in Copies("manager") : \A c \in ToSet(sent[i].cells) :
       c.at \notin Addresses => c = AsArrived(c)

\* A frame that names this machine as its source is not passed on.
PassedOnOnce ==
  Done =>
    LET dst == CellAt(arrived, HeadAt("dst")).v
        to == {i \in Slots : manage[i].fd # 0 /\ manage[i].addr = dst}
        copies == Copies("manager")
    IN IF rx.cmd \in ToManager /\ Origin[rx.fd] # GLINK_4412_ADDR /\ to # {}
         THEN \E k \in copies : copies = {k} /\ sent[k].fd = manage[First(to)].fd
         ELSE copies = {}

\* A frame for a manager other than this machine reaches the one registered
\* under the destination it arrived with, exactly once, although the buffer is
\* given other addresses before the table is searched and an acknowledgement of
\* a measurement is passed on from two places (tms_OnSpAck).  A report to all
\* reaches each registered manager once, under its own address, and whoever has
\* gone or is a device not at all (tms_SendAllManager, tms_SendAllManagerDot).
ManagerReceivesOnce ==
  /\ (Idle /\ sent # <<>>) =>
       \A i \in Slots :
         LET copies == {k \in DOMAIN sent : sent[k].fd = manage[i].fd}
         IN manage[i].fd # 0 =>
              \E k \in copies : copies = {k} /\ NamesReader(sent[k].cells, manage[i].addr)
  /\ Idle => \A s \in ToSet(sent) : \E i \in Slots : manage[i].fd = s.fd /\ s.fd # 0
  /\ PassedOnOnce

\* A frame for a device reaches the socket registered at the place that its
\* first two words name, once, and nobody when there is none.
DeviceReceivesOnce ==
  Done =>
    LET there == CellAt(arrived, GLINK_OFFSET_DATA).v
        slot == CellAt(arrived, GLINK_OFFSET_DATA + 4).v
        copies == Copies("device")
    IN IF rx.cmd \in ToDevice /\ <<there, slot>> \in Locs /\ devnet[<<there, slot>>].fd # 0
         THEN \E k \in copies : copies = {k} /\ sent[k].fd = devnet[<<there, slot>>].fd
         ELSE copies = {}

\* A device gets one acknowledgement for every frame, on its own socket and
\* before anything else that the frame causes, for unknown commands and refused
\* frames too; managers get none (tms_AckDevice).  What answers a frame, goes to
\* the socket that it came from.
AckedFirst ==
  /\ Done => Copies("ack") = IF Origin[rx.fd] = GLINK_DEV_ADDR THEN {1} ELSE {}
  /\ ~Idle => \A i \in DOMAIN sent :
       sent[i].how = "ack" <=> i = 1 /\ Origin[rx.fd] = GLINK_DEV_ADDR
  /\ \A i \in Copies("ack") : sent[i].about = rx.cmd
  /\ \A i \in DOMAIN sent : sent[i].how \in {"ack", "tick", "reply", "echo"} => sent[i].fd = rx.fd

\* Words that stay as they travelled because the analyser leaves them out, or
\* leaves the whole frame alone.
LeftOut == {<<"ID_GET_OPM_OP", "type">>, <<"ID_ALARM_OPM", "type">>,
  <<"ID_ALARM_OPM_CHANGE", "type">>, <<"ID_ALARM_HW", "type">>,
  <<"ID_CMD_SMS_TEXT", "count">>, <<"ID_GET_OTDR_TEST", "reserve0">>}
LeftAlone == {"ID_CMD_OLP_START_OTDR", "ID_CMD_OLP_FINISH_OTDR", "ID_CMD_OLP_SWITCH",
  "ID_CFG_OLP_MODE", "ID_GET_TOTAL_OP_ALARM", "ID_RET_OTDR_CYC", "ID_GET_OTDR_TEST_CYC"}
NamesSwapped == {"ID_CFG_MCU_OSW_PORT", "ID_CFG_MCU_OLP_PORT"}

\* What a builder wrote its analyser reads: after an accepted analysis every
\* number that was assigned is in this machine's order, and every text is as it
\* was sent, in every frame with any count, up to the three lists above: the
\* layouts of some ninety pairs of functions agree word by word.
Understood ==
  (ok /\ rx.cmd \notin Ignored \cup LeftAlone /\ "analyse" \notin ToSet(todo)) =>
    \A c \in ToSet(SelectSeq(mem, Data)) :
      LET sentAs == AsArrived(c).o
      IN CASE sentAs = "net" -> c.o = "host" \/ <<rx.cmd, c.n>> \in LeftOut
           [] sentAs = "text" /\ rx.cmd \in NamesSwapped -> c.o \in {"text", "swab"}
           [] sentAs = "text" -> c.o = "text"
           [] OTHER -> TRUE

CountsSent == [i \in DOMAIN SelectSeq(arrived, LAMBDA c : Data(c) /\ c.n = "count") |->
                 SelectSeq(arrived, LAMBDA c : Data(c) /\ c.n = "count")[i].v]

\* No frame of the library's own builders is refused by its analyser, but a
\* trace without events and with fewer than eleven samples, because the least
\* length of a trace includes an event (lines 3895 to 3900); a reference, which
\* ends in three more words, is refused with fewer than five.
RefusedOnlyShortTraces ==
  ("analyse" \notin ToSet(todo) /\ todo # <<>>) =>
    LET Short(least) == CountsSent[2] = 0 /\ CountsSent[1] < least
        Accepted == CASE rx.cmd \in {"ID_RET_OTDR_TEST", "ID_RET_OTDR_TEST_CYC",
                                     "ID_RET_ALARM_TEST", "ID_ALARM_LINE"} -> ~Short(11)
                      [] rx.cmd = "ID_CFG_OTDR_REF" -> ~Short(5)
                      [] OTHER -> TRUE
    IN ok = Accepted

\* Analysers that read a fixed number of words of a frame that may be shorter,
\* or bytes as if they were words.
ReadFurther == {"ID_GET_DEVTYPE", "ID_RET_DEVTYPE", "ID_CMD_OSW_SWITCH",
  "ID_CMD_OLP_REQ_OTDR", "ID_GET_OTDR_PARAM", "ID_GET_DEV_PRODUCE", "ID_DELALL_TBROUTE",
  "ID_RET_DEV_STATE_FROM_TU"}

\* Handling a frame leaves the frame behind it in the buffer alone, whatever
\* the counts in it, but for the commands above.
NeighbourUntouched ==
  rx.cmd \notin ReadFurther =>
    \A c \in ToSet(mem) : ~Inside(c) => c = AsArrived(c)

\* No command converts bytes that lie behind its frame: the length a caller
\* hands to tms_AnalyseMCUtoDevice is documented as the bytes of the content.
WithinFrame ==
  rx.cmd \in ReadFurther \ {"ID_GET_DEVTYPE", "ID_RET_DEVTYPE"} =>
    \A c \in ToSet(mem) : ~Inside(c) => c = AsArrived(c)

\* A number once in this machine's order stays so: between the copies, the
\* analyser, the callbacks and the hand over nothing is converted back, in the
\* head or in the data.
NeverConvertedBack ==
  [][\A i \in DOMAIN mem' : i \in DOMAIN mem /\ todo # <<>> /\ mem[i].o = "host"
       => mem'[i].o = "host"]_vars

=============================================================================
