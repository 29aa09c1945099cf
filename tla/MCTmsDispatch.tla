---------------------------- MODULE MCTmsDispatch ----------------------------
EXTENDS TmsDispatch, TLC

MCManagers == {58, 62}
MCOrigin == 1 :> GLINK_MANAGE_ADDR @@ 2 :> GLINK_DEV_ADDR @@ 3 :> 58
MCLocs == {<<0, 1>>}
MCElsewhere == <<16, 0>>

Fixed == {tms_Tick, tms_Update(3), tms_MCU_GetDeviceType, tms_MCU_RetDeviceType,
  tms_MCU_RetDeviceType_V2, tms_MCU_GetOPMAlarm, tms_MCU_OSWSwitch, tms_MCU_OLPReqOTDRTest,
  tms_MCU_OLPStartOTDRTest, tms_MCU_OLPFinishOTDRTest, tms_SetIPAddress,
  tms_GetSerialNumber, tms_RetSerialNumber, tms_ClearSMSAuthorization,
  tms_GetDeviceComposition, tms_GetDeviceCompositionRT, tms_GetOPMOP, tms_MCU_OLPSwitch,
  tms_GetVersion, tms_MCU_GetOTDRParam, tms_GetDevProduce, tms_DelAll_TbRoute,
  tms_DelAll_TbUnit, tms_DelAll_TbCycTest, tms_DelAll_TbOTDRHistData, tms_GetTotalOPAlarm,
  tms_GetTotalHwAlarm, tms_GetOLPActionLog, tms_GetDevStateFromTU, tms_GetPowerStateFromTU,
  tms_MCUGeTDevAlarm, tms_RetVersion, tms_RetSMSError, tms_CfgOLPModeEx, tms_CfgOLPMode,
  tms_ReportOLPAction, tms_ReportOLPActionEx, tms_RetDevProduce, tms_AdjustTime,
  tms_RetMCUTime, tms_RetAlarmSoundState, tms_RetOLPLine, tms_RetOLPInfo,
  tms_CfgMCUOSWPort, tms_CfgMCUOLPPort, tms_GetOTDRTest, tms_GetOTDRTestCycle,
  tms_Command(5)} \cup {tms_Trace(5, level) : level \in {0, 3}}

Acks == {Frame("ID_CMD_ACK", Conv(With(tms_ack, "cmdid", cmdid))) : cmdid \in {0, OtdrTest}}

Lists == UNION {{tms_CfgSMSAuthorization(n), tms_RetDeviceComposition(n),
  tms_RetDeviceCompositionRT(n), tms_CfgMCUUniteOPMOSW(n), tms_CfgMCUUniteOLPOSW(n),
  tms_CfgMCUOPMPortClear(n), tms_CfgMCUOSWPortClear(n), tms_CfgMCUOLPPortClear(n),
  tms_CfgMCUUniteOPMOSWClear(n), tms_CfgMCUUniteOLPOSWClear(n), tms_CfgOPMRefLevel(n),
  tms_CfgOLPRefLevel(n), tms_RetOPMOP(n), tms_RetOLPOP(n), tms_CfgMCUOSWCycle(n),
  tms_AlarmOPM(n), tms_AlarmOPMEx(n), tms_AlarmOPMChange(n), tms_AlarmOPMChangeEx(n),
  tms_AlarmHW(n), tms_RetAlarmHWChange(n), tms_RetTotalOPAlarm(n),
  tms_RetTotalOPAlarmEx(n), tms_RetOLPActionLog(n), tms_TbRoute_Insert(n),
  tms_Insert_TbUnit(n), tms_Del_TbUnit(n), tms_Insert_TbCycTest(n), tms_Del_TbCycTest(n),
  tms_Del_TbOTDRRefData(n), tms_SendSMS(n)} : n \in {0, 2}}

Traces == UNION {{tms_RetOTDRTest(n, k), tms_RetOTDRTestCycle(n, k), tms_CfgOTDRRef(n, k),
  tms_AlarmLine(n, k, "ID_ALARM_LINE"), tms_RetOTDRCycle_V2(n, k),
  tms_AnyRetOTDRTest(n, k, "ID_RET_ALARM_TEST")} :
    <<n, k>> \in {<<0, 0>>, <<10, 0>>, <<11, 0>>, <<0, 1>>, <<40, 5>>}}

TestPackets == {cmd_testnetpacket(save, more, cmdid) : save \in {0, 1}, more \in {0, 8},
  cmdid \in {"ID_TEST_NETPACK_ECHO", "ID_TEST_NETPACK_ACK"}}

\* What only peers build, from the structures their analysers read.
OtherPeers == {
  Frame("ID_CU_NOTE_NET", <<>>),
  Frame("ID_CU_NOTE_MANAGE_CONNECT", Conv(Words(<<"val">>))),
  Frame("ID_OLP_REQUEST_OTDR", Conv(tms_olp_request_otdr)),
  Frame("ID_RET_DEV_STATE_FROM_TU", Conv(tms_dev_status_from_tu)),
  Frame("ID_ALARM_SOUND_ON_OFF", Conv(Words(<<"val">>))),
  Frame("ID_GET_MCU_OSW_PORT", Conv(tms_get_mcuosw_port)),
  Frame("ID_GET_OTDR_REF", Conv(tms_get_otdrref)),
  Frame("ID_GET_OLP_LINE", Conv(tms_get_olp_line)),
  Frame("ID_GET_OLP_INFO", Conv(tms_get_olp_info)),
  Frame("ID_RET_POWER_STATE_FROM_TU",
        Listed(tms_ret_power_state_from_tu, 2, tms_ret_power_state_from_tu_val)),
  Frame("ID_DEV_RET_MCU_ALARM", Listed(tms_dev_ret_mcu_alarm, 2, tms_dev_ret_mcu_alarm_val)),
  Frame("ID_RET_OTDR_PARAM", Listed(tms_otdr_produce_hdr, 2, tms_otdr_produce_val)),
  Frame("ID_TEST_NETPACK_SAVE", test_netpacket),
  Frame("unknown", Conv(Words(<<"val">>)))}

MCMessages == Fixed \cup Acks \cup Lists \cup Traces \cup TestPackets \cup OtherPeers
=============================================================================
