----------------------------- MODULE TmsAnalyse -----------------------------
(***************************************************************************)
(* What every tms_Analyse function of protocol/tmsxx.c does to the receive *)
(* buffer.  The buffer is a sequence of cells, a field each, with the byte *)
(* at which the cell lies; the analysers convert the fields they know of   *)
(* where they lie, whatever lies there.                                    *)
(***************************************************************************)
EXTENDS TmsStructs

\* The head as it lies in a frame, behind its marker.
GLINK_OFFSET_DATA == 4 + Bytes(glink_base)

\* Fields laid one behind the other from a byte on; one of no bytes has no cell.
Lay(fields, from) ==
  FoldLeft(LAMBDA laid, f : IF f.w = 0 THEN laid ELSE
             [to |-> laid.to + f.w,
              cells |-> Append(laid.cells,
                [n |-> f.n, w |-> f.w, o |-> f.o, v |-> f.v, at |-> laid.to])],
           [to |-> from, cells |-> <<>>], fields).cells

(***************************************************************************)
(* An analysis under way: the buffer, the position in it, the end of the   *)
(* frame, the last number of entries read, and whether it goes on.         *)
(***************************************************************************)
Analysis(mem, len) ==
  [mem |-> mem, pos |-> GLINK_OFFSET_DATA, end |-> len, n |-> 0, ok |-> TRUE]

\* The cell exactly there is converted, one that is only touched is spoilt.
ConvertAt(mem, fields) ==
  LET Over(c, f) == c.at < f.at + f.w /\ f.at < c.at + c.w
      Same(c, f) == c.at = f.at /\ c.w = f.w
  IN [i \in DOMAIN mem |->
        LET c == mem[i]
            over == SelectSeq(fields, LAMBDA f : Over(c, f))
        IN CASE over = <<>> -> c
             [] Len(over) = 1 /\ Same(c, over[1]) -> htonl(c)
             [] OTHER -> [c EXCEPT !.o = "mixed"]]

ValueAt(m, at) == (CHOOSE c \in ToSet(m.mem) : c.at = at).v

\* The number of entries in a head that lies at m.pos.
Count(m, hdr) == LET at == (CHOOSE f \in ToSet(Lay(hdr, m.pos)) : f.n = "count").at
                 IN ValueAt(m, at)

Skip(m, fields) == [m EXCEPT !.pos = @ + Bytes(fields)]
Convert(m, fields, converted(_)) ==
  IF ~m.ok THEN m ELSE
    [m EXCEPT !.mem = ConvertAt(@, SelectSeq(Lay(fields, m.pos), converted)),
              !.pos = @ + Bytes(fields)]
ReadBut(m, fields, kept) == Convert(m, fields, LAMBDA f : f.o # "text" /\ f.n \notin kept)
Read(m, fields) == ReadBut(m, fields, {})
ReadHead(m, hdr, kept) ==
  IF m.ok THEN [ReadBut(m, hdr, kept) EXCEPT !.n = Count(m, hdr)] ELSE m
ReadBodyOneMore(m, val, kept) == ReadBut(m, Times(m.n + 1, val), kept)
ReadBody(m, val, kept) == ReadBut(m, Times(m.n, val), kept)
ReadList(m, hdr, val) == ReadBody(ReadHead(m, hdr, {}), val, {})

CHECK_PTROneMore(m, A, B, count) ==
  m.pos + Bytes(A) + Bytes(B) * count <= m.end - Bytes(B)
CHECK_PTR(m, A, B, count) == m.pos + Bytes(A) + Bytes(B) * (count - 1) <= m.end - Bytes(B)
Unless(m, refused) == IF refused THEN [m EXCEPT !.ok = FALSE] ELSE m
Checked(m, hdr, val) == Unless(m, ~CHECK_PTR(m, hdr, val, Count(m, hdr)))

(***************************************************************************)
(* Analysers that convert nothing, or one structure.                       *)
(***************************************************************************)
tms_AnalyseUnuse(m) == m
tms_AnalyseTick(m) == m
tms_AnalyseTrace(m) == m
tms_AnalyseCommand(m) == m
tms_AnalyseCUNoteNet(m) == m
tms_AnalyseGetSerialNumber(m) == m
tms_AnalyseRetSerialNumber(m) == m
tms_AnalyseGetDeviceComposition(m) == m
tms_AnalyseCfgOSWMode(m) == m
tms_MCU_AnalyseOLPSwitch(m) == m
tms_AnalyseRetOTDRCycle(m) == m             \* its body is compiled out
tms_AnalyseSendSMS(m) == m
tms_AnalyseAdjustTime(m) == m
tms_AnalyseRetTotalOPAlarm(m) == m
tms_AnalyseRetOLPActionLog(m) == m
tms_AnalyseSetIPAddress(m) == Unless(m, m.end < 16 * 3)

\* Converts len words: its callers pass the bytes of the structure.
tms_AnalyseMCUtoDevice(m, len) == Read(m, Times(len, Words(<<"p32">>)))
tms_AnalyseMCU_OSWSwitch(m) == tms_AnalyseMCUtoDevice(m, Bytes(tms_dev_port))
tms_AnalyseMCU_OLPReqOTDRTest(m) == tms_AnalyseMCUtoDevice(m, Bytes(tms_dev_port))
tms_AnalyseClearSMSAuthorization(m) == tms_AnalyseMCUtoDevice(m, 0)
tms_AnalyseRetDevStateFromTU(m) == tms_AnalyseMCUtoDevice(m, Bytes(tms_dev_status_from_tu))
tms_AnalyseDelAll_TbRoute(m) == tms_AnalyseMCUtoDevice(m, m.end)
tms_AnalyseGetDevProduce(m) == tms_AnalyseMCUtoDevice(m, m.end)

tms_AnalyseUpdate(m) == Read(m, tms_dev_update_hdr)
tms_AnalyseGetDevType(m) == Read(m, tms_dev_slot)
tms_AnalyseRetDevType(m) == Read(m, tms_ret_dev_type)
tms_AnalyseCUNoteManageConnect(m) == Read(m, Words(<<"val">>))
tms_AnalyseGetOPMOLPRayPower(m) == Read(m, tms_dev_type)
tms_AnalyseGetOPMOP(m) == Read(m, tms_dev_slot)
tms_AnalyseReportOLPActionShort(m) == Read(m, tms_dev_type)
tms_AnalyseReportOLPAction(m) == Read(m, tms_report_olp_action)
tms_AnalyseRetSMSError(m) == Read(m, tms_sms_state)
tms_AnalyseSMSError(m) == Read(m, tms_sms_state)
tms_AnalyseGetVersion(m) == Read(m, tms_dev_type)
tms_AnalyseRetVersion(m) == Read(m, tms_dev_version)
tms_AnalyseRetDevProduce(m) == Read(m, tms_dev_produce)
tms_AnalyseAck(m) == Read(m, tms_ack)
tms_AnalyseAlarmSoundONOFF(m) == Read(m, Words(<<"val">>))
tms_AnalyseGetOLPLine(m) == Read(m, tms_get_olp_line)
tms_AnalyseGetOLPInfo(m) == Read(m, tms_get_olp_info)

\* Converts the names too, which are sent as they are.
tms_AnalyseCfgMCUAnyPort(m) == Convert(m, tms_cfg_mcu_osw_port, LAMBDA f : TRUE)
tms_AnalyseCfgMCUOSWPort(m) == tms_AnalyseCfgMCUAnyPort(m)
tms_AnalyseCfgMCUOLPPort(m) == tms_AnalyseCfgMCUAnyPort(m)

\* A packet of the net's test is written to the file that it names, and asks no more for it.
SaveAt == GLINK_OFFSET_DATA + 16
test_save_bin(m) ==
  [m EXCEPT !.mem = [i \in DOMAIN @ |-> IF @[i].at = SaveAt THEN [@[i] EXCEPT !.v = 0] ELSE @[i]]]
tms_AnalyseTestPacketSave(m) == m
tms_AnalyseTestPacketEcho(m) == IF ValueAt(m, SaveAt) = 1 THEN test_save_bin(m) ELSE m
tms_AnalyseTestPacketAck(m) == IF ValueAt(m, SaveAt) = 1 THEN test_save_bin(m) ELSE m

(***************************************************************************)
(* A head and a list, read without a look at the length of the frame ...   *)
(***************************************************************************)
tms_AnalyseCfgSMSAuthorization(m) == ReadList(m, tms_cfg_sms, tms_cfg_sms_val)
tms_AnalyseRetDeviceComposition(m) ==
  ReadList(m, tms_dev_composition, tms_dev_composition_val)
tms_AnalyseCfgMCUAnyPortClear(m) ==
  ReadList(m, tms_cfg_mcu_u_any_osw, tms_cfg_mcu_any_port_clear_val)
tms_AnalyseCfgMCUOPMPortClear(m) == tms_AnalyseCfgMCUAnyPortClear(m)
tms_AnalyseCfgMCUOLPPortClear(m) == tms_AnalyseCfgMCUAnyPortClear(m)
tms_AnalyseCfgMCUUniteOPMOSWClear(m) == tms_AnalyseCfgMCUAnyPortClear(m)
tms_AnalyseCfgMCUUniteOLPOSWClear(m) == tms_AnalyseCfgMCUAnyPortClear(m)
tms_AnalyseCfgAnyRefLevel(m, val) == ReadList(m, tms_cfg_any_power_ref, val)
tms_AnalyseCfgOPMRefLevel(m) == tms_AnalyseCfgAnyRefLevel(m, tms_cfg_opm_ref_val)
tms_AnalyseCfgOLPRefLevel(m) == tms_AnalyseCfgAnyRefLevel(m, tms_cfg_olp_ref_val)
tms_AnalyseRetAnyOP(m) == ReadList(m, tms_any_op, tms_any_op_val)
tms_AnalyseRetOPMOP(m) == tms_AnalyseRetAnyOP(m)
tms_AnalyseRetOLPOP(m) == tms_AnalyseRetAnyOP(m)
tms_AnalyseAlarmHW(m) ==
  ReadBody(ReadHead(m, tms_alarm_hw, {}), tms_alarm_hw_val, {"type"})
tms_AnalyseAlarmOPM(m) == ReadBody(ReadHead(m, tms_alarm_opm, {"type"}), tms_alarm_opm_val, {})
tms_AnalyseRetOTDRParam(m) ==
  ReadList(Unless(m, m.end < Bytes(tms_otdr_produce_hdr \o tms_otdr_produce_val)),
           tms_otdr_produce_hdr, tms_otdr_produce_val)

(***************************************************************************)
(* ... and after the check that the list fits.                             *)
(***************************************************************************)
tms_AnalyseCfgMCUUniteAnyOSW(m) ==
  ReadList(Checked(m, tms_cfg_mcu_u_any_osw, tms_cfg_mcu_u_any_osw_val),
           tms_cfg_mcu_u_any_osw, tms_cfg_mcu_u_any_osw_val)
tms_AnalyseCfgMCUUniteOPMOSW(m) == tms_AnalyseCfgMCUUniteAnyOSW(m)
tms_AnalyseCfgMCUUniteOLPOSW(m) == tms_AnalyseCfgMCUUniteAnyOSW(m)
tms_AnalyseCfgMCUOSWCycle_any(m) ==
  ReadList(Checked(m, tms_cfg_mcu_osw_cycle, tms_cfg_mcu_osw_cycle_val),
           tms_cfg_mcu_osw_cycle, tms_cfg_mcu_osw_cycle_val)
tms_AnalyseCfgMCUOSWCycle(m) == tms_AnalyseCfgMCUOSWCycle_any(m)
tms_AnalyseRetPowerStateFromTU(m) ==
  ReadList(Checked(m, tms_ret_power_state_from_tu, tms_ret_power_state_from_tu_val),
           tms_ret_power_state_from_tu, tms_ret_power_state_from_tu_val)
tms_AnalyseDevRetMCUAlarm(m) ==
  ReadList(Checked(m, tms_dev_ret_mcu_alarm, tms_dev_ret_mcu_alarm_val),
           tms_dev_ret_mcu_alarm, tms_dev_ret_mcu_alarm_val)
tms_AnalyseAlarmOPMChange(m) ==
  ReadBody(ReadHead(Checked(m, tms_alarm_opm_change, tms_alarm_opm_val),
                    tms_alarm_opm_change, {"type"}),
           tms_alarm_opm_val, {})

\* The check counts four bytes for an entry: sizeof is applied to the
\* parameter that holds the size.
tms_AnalyseListFrame(m, val) ==
  ReadList(Checked(m, Words(<<"count">>), Words(<<"size">>)), Words(<<"count">>), val)
tms_AnalyseTbRoute_Insert(m) == tms_AnalyseListFrame(m, tms_route)
tms_AnalyseTbUnit_any(m) == tms_AnalyseListFrame(m, tms_unit)
tms_AnalyseInsert_TbUnit(m) == tms_AnalyseListFrame(m, tms_unit)
tms_AnalyseDel_TbUnit(m) == tms_AnalyseListFrame(m, tms_unit)
tms_AnalyseInsert_TbCycTest(m) == tms_AnalyseListFrame(m, tms_cyctest)
tms_AnalyseDel_TbCycTest(m) == tms_AnalyseListFrame(m, tms_cyctest)
tms_AnalyseDel_TbOTDRRefData(m) == tms_AnalyseListFrame(m, tms_dev_port)

\* The bytes of the structure as words again.
tms_Conv_Nx4Byte(m, bytes) == Read(m, Times(bytes \div 4, Words(<<"p32">>)))
tms_AnalyseGetMCUOSWPort(m) == tms_Conv_Nx4Byte(m, Bytes(tms_get_mcuosw_port))
tms_AnalyseGetOTDRRef(m) == tms_Conv_Nx4Byte(m, Bytes(tms_get_otdrref))

(***************************************************************************)
(* Traces.  The frame must hold one sample and one event, the samples and  *)
(* the events are checked to fit before anything is converted, the chain   *)
(* behind them is not.                                                     *)
(***************************************************************************)
TraceParts == tms_retotdr_test_param \o tms_retotdr_data_hdr \o tms_retotdr_data_val
  \o tms_retotdr_event_hdr \o tms_retotdr_event_val \o tms_retotdr_chain

TraceFits(m, before) ==
  LET d == Skip(m, before \o tms_retotdr_test_param)
      n == Count(d, tms_retotdr_data_hdr)
      e == Skip(d, tms_retotdr_data_hdr \o Times(n, tms_retotdr_data_val))
  IN /\ m.end - GLINK_OFFSET_DATA >= Bytes(before) + Bytes(TraceParts)
     /\ CHECK_PTR(d, tms_retotdr_data_hdr, tms_retotdr_data_val, n)
     /\ CHECK_PTR(e, tms_retotdr_event_hdr, tms_retotdr_event_val,
                  Count(e, tms_retotdr_event_hdr))

ReadTrace(m) ==
  LET d == ReadList(Read(m, tms_retotdr_test_param), tms_retotdr_data_hdr,
                    tms_retotdr_data_val)
  IN Read(ReadList(d, tms_retotdr_event_hdr, tms_retotdr_event_val), tms_retotdr_chain)

tms_AnalyseCfgOTDRRef(m) ==
  LET checked == Unless(m, ~TraceFits(m, tms_otdr_ref_hdr))
  IN Read(ReadTrace(Read(checked, tms_otdr_ref_hdr)), tms_cfg_otdr_ref_val)
tms_AnalyseAnyRetOTDRTest(m) ==
  ReadTrace(Read(Unless(m, ~TraceFits(m, tms_retotdr_test_hdr)), tms_retotdr_test_hdr))
tms_AnalyseRetOTDRTest(m) == tms_AnalyseAnyRetOTDRTest(m)
tms_AnalyseRetOTDRTestCycle(m) == tms_AnalyseAnyRetOTDRTest(m)
tms_AnalyseAlarmLine(m) ==
  LET checked == Unless(m, ~TraceFits(m, tms_alarm_line_hdr \o tms_retotdr_test_hdr))
  IN ReadTrace(Read(ReadBut(checked, tms_alarm_line_hdr, {"reserve0"}), tms_retotdr_test_hdr))
tms_AnalyseRetOTDRCycle_V2(m) ==
  LET hdrs == Words(<<"linecount">>) \o tms_alarm_line_hdr \o tms_retotdr_test_hdr
      checked == Unless(m, ~TraceFits(m, hdrs))
  IN ReadTrace(ReadBut(checked, hdrs, {"linecount"}))

tms_AnalyseAnyGetOTDRTest(m) ==
  Read(ReadBut(m, tms_getotdr_test_hdr, {"reserve0"}), tms_getotdr_test_param)
tms_AnalyseGetOTDRTest(m) == tms_AnalyseAnyGetOTDRTest(m)
=============================================================================
