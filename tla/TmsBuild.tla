------------------------------ MODULE TmsBuild ------------------------------
(***************************************************************************)
(* What every function of protocol/tmsxx.c that builds a frame hands to    *)
(* glink: the command, the announced length and the data, field by field.  *)
(* Each operator has the name of its C function; its parameters are the    *)
(* counts, and the command where the caller chooses it.                    *)
(***************************************************************************)
EXTENDS TmsStructs

CONSTANTS OTDR_SAMPLE,      \* OTDR_SAMPLE_32000: the samples of a trace
          OTDR_EVENT_MAX    \* 1024: the events of a trace, counts are masked with 0x3ff

ASSUME TraceAssumption ==
  OTDR_SAMPLE \in Nat \ {0} /\ OTDR_EVENT_MAX \in Nat \ {0}

Frame(cmd, data) == [cmd |-> cmd, datalen |-> Bytes(data), data |-> data]

\* The frame announces and sends len bytes from a buffer that holds others.
Cut(fields, len) ==
  LET Whole(k) == Bytes(SubSeq(fields, 1, k)) <= len
      fit == SubSeq(fields, 1, Len(SelectSeq([k \in DOMAIN fields |-> k], Whole)))
      rest == len - Bytes(fit)
  IN IF rest = 0 THEN fit ELSE fit \o Field("rest", rest, "junk")

(***************************************************************************)
(* Frames without numbers, and the short ones: one fixed structure.        *)
(***************************************************************************)
tms_Tick == Frame("ID_TICK", <<>>)
tms_Update(flen) == Frame("ID_UPDATE",
  Conv(With(tms_dev_update_hdr, "flen", flen)) \o Text("file", flen) \o tms_dev_md5)
tms_Trace(len, level) ==          \* the command is ID_TRACE0 + (level & 3)
  Frame(<<"ID_TRACE0", "ID_TRACE1", "ID_TRACE2", "ID_R_COMMAMD">>[(level % 4) + 1],
        Text("strout", len))
tms_Command(len) == Frame("ID_COMMAMD", Text("strcmd", len))

tms_MCUtoDevice(cmdID, len) == Frame(cmdID, SubSeq(Conv(tms_dev_port), 1, len \div 4))
tms_MCU_GetDeviceType == tms_MCUtoDevice("ID_GET_DEVTYPE", 0)
tms_MCU_RetDeviceType == tms_MCUtoDevice("ID_RET_DEVTYPE", Bytes(tms_dev_port))
tms_MCU_RetDeviceType_V2 == Frame("ID_RET_DEVTYPE", Conv(tms_ret_dev_type))
tms_MCU_GetOPMAlarm == tms_MCUtoDevice("ID_GET_OPM_OLP_RAYPOWER", Bytes(tms_dev_type))
tms_MCU_GetOLPAlarm == tms_MCUtoDevice("ID_GET_OPM_OLP_RAYPOWER", Bytes(tms_dev_type))
tms_MCU_OSWSwitch == tms_MCUtoDevice("ID_CMD_OSW_SWITCH", Bytes(tms_dev_port))
tms_MCU_OLPReqOTDRTest == tms_MCUtoDevice("ID_CMD_OLP_REQ_OTDR", Bytes(tms_dev_port))
tms_MCU_OLPStartOTDRTest == tms_MCUtoDevice("ID_CMD_OLP_START_OTDR", Bytes(tms_dev_port))
tms_MCU_OLPFinishOTDRTest == tms_MCUtoDevice("ID_CMD_OLP_FINISH_OTDR", Bytes(tms_dev_port))
tms_SetIPAddress == Frame("ID_CHANGE_ADDR", tms_change_addr)
tms_GetSerialNumber == Frame("ID_GET_SN", <<>>)
tms_RetSerialNumber == Frame("ID_RET_SN", tms_sn)
tms_ClearSMSAuthorization == tms_MCUtoDevice("ID_CFG_SMS_CLEAR", 0)
tms_GetDeviceComposition == tms_MCUtoDevice("ID_GET_COMPOSITION", 0)
tms_GetDeviceCompositionRT == tms_MCUtoDevice("ID_GET_COMPOSITION_RT", 0)
tms_GetOPMOP == tms_MCUtoDevice("ID_GET_OPM_OP", Bytes(tms_dev_type))
tms_GetOLPOP == tms_MCUtoDevice("ID_GET_OPM_OP", Bytes(tms_dev_type))
tms_MCU_OLPSwitch == tms_MCUtoDevice("ID_CMD_OLP_SWITCH", Bytes(tms_dev_port))
tms_GetVersion == tms_MCUtoDevice("ID_GET_VERSION", Bytes(tms_dev_type))
tms_MCU_GetOTDRParam == tms_MCUtoDevice("ID_GET_OTDR_PARAM", 12)
tms_GetDevProduce == tms_MCUtoDevice("ID_GET_DEV_PRODUCE", 12)
tms_DelAll_TbRoute == tms_MCUtoDevice("ID_DELALL_TBROUTE", 0)
tms_DelAll_TbUnit == tms_MCUtoDevice("ID_DELALL_TBUNIT", 0)
tms_DelAll_TbCycTest == tms_MCUtoDevice("ID_DELALL_TBCYCTEST", 0)
tms_DelAll_TbOTDRHistData == tms_MCUtoDevice("ID_DELALL_TBOTDRREFDATA", 0)
tms_GetTotalOPAlarm == tms_MCUtoDevice("ID_GET_TOTAL_OP_ALARM", 0)
tms_GetTotalHwAlarm == tms_MCUtoDevice("ID_GET_TOTAL_HW_ALARM", 0)
tms_GetOLPActionLog == tms_MCUtoDevice("ID_GET_OLP_ACTION_LOG", 0)
tms_GetDevStateFromTU == tms_MCUtoDevice("ID_GET_DEV_STATE_FROM_TU", 0)
tms_GetPowerStateFromTU == tms_MCUtoDevice("ID_GET_POWER_STATE_FROM_TU", 0)
tms_MCUGeTDevAlarm == tms_MCUtoDevice("ID_MCU_GET_DEV_ALARM", Bytes(tms_mcu_get_dev_alarm))

tms_RetVersion == Frame("ID_RET_VERSION", Conv(tms_dev_version))
tms_RetSMSError == Frame("ID_CMD_SMS_ERROR", Conv(tms_sms_state))
tms_CfgOLPModeEx == Frame("ID_CFG_OLP_MODE", Conv(tms_cfg_olp_mode))
\* the assignments of the structure are commented out: the stack is sent
tms_CfgOLPMode == Frame("ID_CFG_OLP_MODE",
  Unassigned(tms_cfg_olp_mode, {f.n : f \in ToSet(tms_cfg_olp_mode)}))
tms_ReportOLPAction == Frame("ID_REPORT_OLP_ACTION",
  Conv(Unassigned(tms_report_olp_action, {"time"})))
tms_ReportOLPActionEx == Frame("ID_REPORT_OLP_ACTION", Conv(tms_report_olp_action))
\* the address of a parameter, and the stack after it, is sent for the structure
tms_RetDevProduce == Frame("ID_RET_DEV_PRODUCE",
  Field("paddr", Bytes(tms_dev_produce), "junk"))
\* twenty bytes announced and sent as the twenty-four of an acknowledgement
tms_AdjustTime == Frame("ID_ADJUST_TIME", Cut(tms_adjust_tm, Bytes(tms_ack)))
tms_Ack == Frame("ID_CMD_ACK", Conv(Unassigned(tms_ack,
  {"reserve1", "reserve2", "reserve3", "reserve4"})))
\* converts what its caller passes, so the words of a caller that converted
\* them already travel in this machine's order
tms_AckEx(ack) == Frame("ID_CMD_ACK", Conv(ack))
tms_RetMCUTime == Frame("ID_RET_MCU_TIME", Text("time", 20))
tms_RetAlarmSoundState == Frame("ID_RET_ALARM_SOUND_STATE", Conv(Words(<<"data_state">>)))
\* both under the identifier of the log of switchings
tms_RetOLPLine == Frame("ID_RET_OLP_ACTION_LOG", Conv(tms_ret_olp_line))
tms_RetOLPInfo == Frame("ID_RET_OLP_ACTION_LOG", Conv(tms_ret_olp_info))

\* A packet to try the net with: what the caller has, unconverted.  The shell's (tnp) has at
\* least the length of the structure, and asks to be saved if a file is named.
tms_TestPacketID(pdata, cmdid) == Frame(cmdid, pdata)
cmd_testnetpacket(save, more, cmdid) ==
  tms_TestPacketID(With(test_netpacket, "save", save) \o Field("pdata", more, "text"), cmdid)

(***************************************************************************)
(* A head with the number of entries, then the entries.                    *)
(***************************************************************************)
Listed(hdr, n, val) == Conv(Counted(hdr, n) \o Times(n, val))

tms_CfgSMSAuthorization(count) ==
  Frame("ID_CFG_SMS", Listed(tms_cfg_sms, count, tms_cfg_sms_val))
tms_RetDeviceComposition_any(count, cmdid) ==
  Frame(cmdid, Listed(tms_dev_composition, count, tms_dev_composition_val))
tms_RetDeviceComposition(count) ==
  tms_RetDeviceComposition_any(count, "ID_RET_COMPOSITION")
tms_RetDeviceCompositionRT(count) ==
  tms_RetDeviceComposition_any(count, "ID_RET_COMPOSITION_RT")
tms_CfgMCUAnyPort(cmdid) == Frame(cmdid, Conv(tms_cfg_mcu_osw_port))
tms_CfgMCUOSWPort == tms_CfgMCUAnyPort("ID_CFG_MCU_OSW_PORT")
tms_CfgMCUOLPPort == tms_CfgMCUAnyPort("ID_CFG_MCU_OLP_PORT")
tms_CfgMCUUniteAnyOSW(count, cmdid) ==
  Frame(cmdid, Listed(tms_cfg_mcu_u_any_osw, count, tms_cfg_mcu_u_any_osw_val))
tms_CfgMCUUniteOPMOSW(count) == tms_CfgMCUUniteAnyOSW(count, "ID_CFG_MCU_U_OPM_OSW")
tms_CfgMCUUniteOLPOSW(count) == tms_CfgMCUUniteAnyOSW(count, "ID_CFG_MCU_U_OLP_OSW")
tms_CfgMCUAnyPortClear(count, cmdid) ==
  Frame(cmdid, Listed(tms_cfg_mcu_u_any_osw, count, tms_cfg_mcu_any_port_clear_val))
tms_CfgMCUOPMPortClear(count) == tms_CfgMCUAnyPortClear(count, "ID_CFG_MCU_OSW_PORT_CLEAR")
tms_CfgMCUOSWPortClear(count) == tms_CfgMCUAnyPortClear(count, "ID_CFG_MCU_OSW_PORT_CLEAR")
tms_CfgMCUOLPPortClear(count) == tms_CfgMCUAnyPortClear(count, "ID_CFG_MCU_OLP_PORT_CLEAR")
tms_CfgMCUUniteOPMOSWClear(count) ==
  tms_CfgMCUAnyPortClear(count, "ID_CFG_MCU_U_OPM_OSW_CLEAR")
tms_CfgMCUUniteOLPOSWClear(count) ==
  tms_CfgMCUAnyPortClear(count, "ID_CFG_MCU_U_OLP_OSW_CLEAR")
tms_CfgAnyRefLevel(count, cmdid) ==
  Frame(cmdid, Listed(tms_cfg_any_power_ref, count, tms_cfg_opm_ref_val))
tms_CfgOPMRefLevel(count) == tms_CfgAnyRefLevel(count, "ID_CFG_OPM_REF_LEVEL")
tms_CfgOLPRefLevel(count) == tms_CfgAnyRefLevel(count, "ID_CFG_OPM_REF_LEVEL")
tms_RetAnyOP(count, cmdid) == Frame(cmdid, Listed(tms_any_op, count, tms_any_op_val))
tms_RetOPMOP(count) == tms_RetAnyOP(count, "ID_RET_OPM_OP")
tms_RetOLPOP(count) == tms_RetAnyOP(count, "ID_RET_OLP_OP")
tms_CfgMCUOSWCycle_any(count, cmdid) ==
  Frame(cmdid, Listed(tms_cfg_mcu_osw_cycle, count, tms_cfg_mcu_osw_cycle_val))
tms_CfgMCUOSWCycle(count) == tms_CfgMCUOSWCycle_any(count, "ID_CFG_MCU_OSW_CYCLE")
tms_AlarmOPM(count) == Frame("ID_ALARM_OPM", Listed(tms_alarm_opm, count, tms_alarm_opm_val))
tms_AlarmOPMEx(count) == Frame("ID_ALARM_OPM", Listed(tms_alarm_opm, count, tms_alarm_opm_val))
tms_AlarmOPMChange(count) == Frame("ID_ALARM_OPM_CHANGE",
  Listed(Unassigned(tms_alarm_opm_change, {"type"}), count, tms_alarm_opm_val))
tms_AlarmOPMChangeEx(count) == Frame("ID_ALARM_OPM_CHANGE",
  Listed(tms_alarm_opm_change, count, tms_alarm_opm_val))
tms_AlarmHW(count) == Frame("ID_ALARM_HW", Listed(tms_alarm_hw, count, tms_alarm_hw_val))
tms_RetAlarmHWChange(count) == Frame("ID_RET_ALARM_HW_CHANGE",
  Listed(tms_alarm_hw_change, count, tms_alarm_hw_change_val))
tms_RetTotalOPAlarm(count) == Frame("ID_RET_TOTAL_OP_ALARM",
  Listed(tms_total_op_alarm_hdr, count, tms_total_op_alarm_val))
\* under the identifier of the request, with the pointer in place of the list
tms_RetTotalOPAlarmEx(count) == Frame("ID_GET_TOTAL_OP_ALARM",
  Conv(Counted(tms_total_op_alarm_hdr, count))
    \o Field("pval", count * Bytes(tms_total_op_alarm_val), "junk"))
tms_RetOLPActionLog(count) == Frame("ID_RET_OLP_ACTION_LOG",
  Listed(tms_olp_action_log_hdr, count, tms_olp_action_log_val))

\* A count and entries that are nothing but words, converted where they lie.
tms_ListFrame(count, val, cmdid) ==
  Frame(cmdid, Listed(Words(<<"count">>), count, val))
tms_TbRoute_Insert(count) == tms_ListFrame(count, tms_route, "ID_INSERT_TBROUTE")
tms_TbUnit_any(count, cmdid) == tms_ListFrame(count, tms_unit, cmdid)
tms_Insert_TbUnit(count) == tms_ListFrame(count, tms_unit, "ID_INSERT_TBUNIT")
tms_Del_TbUnit(count) == tms_ListFrame(count, tms_unit, "ID_DEL_TBUNIT")
tms_Insert_TbCycTest(count) == tms_ListFrame(count, tms_cyctest, "ID_INSERT_TBCYCTEST")
tms_Del_TbCycTest(count) == tms_ListFrame(count, tms_cyctest, "ID_DEL_TBCYCTEST")
tms_Del_TbOTDRRefData(count) == tms_ListFrame(count, tms_dev_port, "ID_DEL_TBOTDRREFDATA")

\* The buffer of a text of count characters: its size counts a byte for each
\* character where the four of the counter belong.
tms_SendSMS(count) ==
  LET len == 16 + count + count * 2
      text == Text("phone", 16) \o Conv(Counted(Words(<<"count">>), count))
                \o Times(count, Halves(<<"text">>))
  IN Frame("ID_CMD_SMS_TEXT", Cut(text, len))

(***************************************************************************)
(* Traces: parameters, samples, events and the whole chain.  The counts of *)
(* the caller are brought into the local arrays first.                     *)
(***************************************************************************)
tms_OTDRConv_tms_retotdr_test_param(val) == Conv(val)
tms_OTDRConv_tms_retotdr_data_hdr(val) == Conv(val)
tms_OTDRConv_tms_retotdr_data_val(val, n) == Conv(Times(n, val))
tms_OTDRConv_tms_retotdr_event_hdr(val) == Conv(val)
tms_OTDRConv_tms_retotdr_event_val(val, n) == Conv(Times(n, val))
tms_OTDRConv_tms_retotdr_chain(val) == Conv(val)

Trace(count, events) ==
  LET n == IF count > OTDR_SAMPLE THEN OTDR_SAMPLE ELSE count
      k == events % OTDR_EVENT_MAX
  IN tms_OTDRConv_tms_retotdr_test_param(tms_retotdr_test_param)
     \o tms_OTDRConv_tms_retotdr_data_hdr(Counted(tms_retotdr_data_hdr, n))
     \o tms_OTDRConv_tms_retotdr_data_val(tms_retotdr_data_val, n)
     \o tms_OTDRConv_tms_retotdr_event_hdr(Counted(tms_retotdr_event_hdr, k))
     \o tms_OTDRConv_tms_retotdr_event_val(tms_retotdr_event_val, k)
     \o tms_OTDRConv_tms_retotdr_chain(tms_retotdr_chain)

tms_CfgOTDRRef(count, events) == Frame("ID_CFG_OTDR_REF",
  Conv(tms_otdr_ref_hdr) \o Trace(count, events) \o Conv(tms_cfg_otdr_ref_val))
tms_AnyRetOTDRTest(count, events, cmdID) ==
  Frame(cmdID, Conv(tms_retotdr_test_hdr) \o Trace(count, events))
tms_RetOTDRTest(count, events) == tms_AnyRetOTDRTest(count, events, "ID_RET_OTDR_TEST")
tms_RetOTDRTestCycle(count, events) ==
  tms_AnyRetOTDRTest(count, events, "ID_RET_OTDR_TEST_CYC")
\* A word set to zero is the same in every order.
Zeroed(fields, name) ==
  [i \in DOMAIN fields |-> IF fields[i].n = name THEN [fields[i] EXCEPT !.o = "text"]
                                                 ELSE fields[i]]
tms_AlarmLine(count, events, cmdID) ==
  Frame(cmdID, Conv(Zeroed(tms_alarm_line_hdr, "reserve0"))
                \o Conv(tms_retotdr_test_hdr) \o Trace(count, events))
tms_RetOTDRCycle_V2(count, events) == Frame("ID_RET_OTDR_CYC",
  Conv(Words(<<"linecount">>)) \o Conv(tms_alarm_line_hdr) \o Conv(tms_retotdr_test_hdr)
    \o Trace(count, events))

tms_AnyGetOTDRTest(cmdID) == Frame(cmdID, Conv(tms_getotdr_test_hdr)
  \o tms_OTDRConv_tms_retotdr_test_param(tms_getotdr_test_param))
tms_GetOTDRTest == tms_AnyGetOTDRTest("ID_GET_OTDR_TEST")
tms_GetOTDRTestCycle == tms_AnyGetOTDRTest("ID_GET_OTDR_TEST_CYC")
=============================================================================
