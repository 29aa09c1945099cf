---------------------------- MODULE TmsCommands -----------------------------
(***************************************************************************)
(* The lines a user types (src/shell/cmd/cmd_tmsxx.c), by command: which   *)
(* arguments a line has and in which member of the structure or parameter  *)
(* of the function each one ends up.  A line is a record:                  *)
(*   fn      the function that builds the frame, or works on the table     *)
(*   usage   the arguments after the words, named as the comment beside    *)
(*           the code names them, or its variable where there is none      *)
(*   takes   member |-> number of the argument it is assigned              *)
(*   from    members refused from their limit on                           *)
(*   past    members refused only beyond their limit                       *)
(*   every   port |-> number of the argument whose 'c' stands for all      *)
(*   words   members for which a word is expected                          *)
(*   junk    members that are handed on without a value                    *)
(*   mask    members the mask of a delete or a select names                *)
(*   here    frame and slot are those chosen last                          *)
(*   moves   the place the line makes the chosen one before it is used     *)
(*   to      where the frame goes                                          *)
(* Constants that a line hands on beside its arguments are left out.       *)
(***************************************************************************)
EXTENDS TmsSchema, FiniteSets, TLC

Slot == SubSeq(Place, 1, 2)
Port == Append(Slot, "port")
OswPort == <<"osw_frame", "osw_slot", "osw_port">>

InOrder(members) == [m \in ToSet(members) |-> CHOOSE i \in DOMAIN members : members[i] = m]

\* A line whose arguments are assigned to the members of these names in order.
Plain(fn, usage) ==
  [fn |-> fn, usage |-> usage, takes |-> InOrder(usage), from |-> {}, past |-> {}, every |-> <<>>, words |-> {},
   junk |-> {}, mask |-> {}, here |-> FALSE, moves |-> <<>>, to |-> "sg_sockfdid"]

Here(fn, usage) == [Plain(fn, usage) EXCEPT !.here = TRUE]
Moving(fn, usage, to) == [Here(fn, usage) EXCEPT !.moves = to]
ToTable(fn, usage, mask) == [Plain(fn, usage) EXCEPT !.to = "table", !.mask = mask]
Asks(fn, usage) == ToTable(fn, usage, ToSet(usage))

-----------------------------------------------------------------------------
(* Commands to devices. *)

\* opm unit, unit clear, op, alarm
cmd_opm ==
  [opm_unit |-> [Plain("tms_CfgMCUUniteOPMOSW", Port \o OswPort) EXCEPT !.from = ToSet(Port \o OswPort)],
   opm_unit_clear |-> Plain("tms_CfgMCUUniteOPMOSWClear", Port),
   opm_op |-> Plain("tms_GetOPMOP", Slot),
   opm_alarm |-> Plain("tms_MCU_GetOPMAlarm", Slot)]

\* opm ref go, clear, auto: the levels are in TmsShell
cmd_opmRef ==
  [opm_ref_go |-> Plain("tms_CfgOPMRefLevel", Slot),
   opm_ref_clear |-> Plain("tms_CfgOPMRefLevel", Slot),
   opm_ref_auto |-> Plain("tms_GetOPMOP", Slot)]

\* opm alarm alone
cmd_opmAlarm == [opm_alarm_change |-> [Here("tms_AlarmOPMChange", <<>>) EXCEPT !.junk = {"type"}]]

\* olp pos, pos clear, unit, unit clear
cmd_olp ==
  [olp_pos |-> [Plain("tms_CfgMCUOLPPort", Port) EXCEPT !.from = {"frame"}, !.past = {"slot", "port"}],
   olp_pos_clear |-> [Plain("tms_CfgMCUOLPPortClear", Port) EXCEPT !.from = {"frame"}, !.past = {"slot", "port"}],
   olp_unit |-> [Plain("tms_CfgMCUUniteOLPOSW", Port \o OswPort) EXCEPT !.from = ToSet(Port \o OswPort)],
   olp_unit_clear |-> Plain("tms_CfgMCUUniteOLPOSWClear", Port)]

\* olp op, alarm, mode, sw.  What tms_CfgOLPMode is given never reaches the frame.
cmd_olpSwitch ==
  [olp_op |-> Plain("tms_GetOLPOP", Slot),
   olp_alarm |-> Plain("tms_MCU_GetOLPAlarm", Slot),
   olp_mode |-> [Plain("tms_CfgOLPMode", Slot \o <<"protect", "mode">>) EXCEPT
                   !.takes = <<>>, !.junk = ToSet(Slot \o <<"protect", "mode">>)],
   olp_sw |-> Plain("tms_MCU_OLPSwitch", Port)]

\* olp ref go, clear, auto
cmd_olpRef ==
  [olp_ref_go |-> Plain("tms_CfgOLPRefLevel", Slot),
   olp_ref_clear |-> Plain("tms_CfgOLPRefLevel", Slot),
   olp_ref_auto |-> Plain("tms_GetOLPOP", Slot)]

\* otdr test, cyc, alarmtest, ref test
cmd_otdr ==
  [otdr_test |-> [Plain("tms_GetOTDRTest", Port) EXCEPT !.takes = @ @@ [otdr_port |-> 3]],
   otdr_cyc |-> Plain("tms_GetOTDRTestCycle", Port),
   otdr_alarmtest |-> Plain("tms_AnyGetOTDRTest", Port),
   otdr_ref_test |-> Plain("tms_GetOTDRTest", <<"file">> \o Port)]

\* otdr ref go, and produce
cmd_otdrRef ==
  [otdr_ref_go |-> [Plain("tms_CfgOTDRRef", <<"file">> \o OswPort \o Levels) EXCEPT !.junk = {"osw_type"}],
   otdr_produce |-> Plain("tms_MCU_GetOTDRParam", Slot)]

\* prod <dev frame/slot/type>: the arguments are read one place too late.
cmd_produce ==
  [produce |-> [Plain("tms_GetDevProduce", Slot \o <<"type">>) EXCEPT
                  !.takes = [frame |-> 2, slot |-> 3, type |-> 4]]]

\* sms msg, and go, clear
cmd_sms ==
  [sms_msg |-> [Plain("tms_SendSMS", Slot) EXCEPT !.takes = <<>>],
   sms_alarm_go |-> Plain("tms_CfgSMSAuthorization", <<>>),
   sms_alarm_clear |-> Plain("tms_ClearSMSAuthorization", <<>>)]

\* sms alarm <index> ...: an entry of sg_alarm_sms.  A word that is not known is reported,
\* leaves its member as it was, and the rest of the line is carried out.
cmd_smsAlarm ==
  [sms_alarm |-> [Plain("sg_alarm_sms", <<"index", "time", "phone", "type", "level">>) EXCEPT
                    !.from = {"index"}, !.words = {"time", "type", "level"}, !.to = "table"]]

\* sn, sip, r
cmd_sn == [sn |-> Plain("tms_GetSerialNumber", <<>>)]
cmd_sip == [sip |-> Plain("tms_SetIPAddress", <<"ip", "mask", "gw">>)]
cmd_remotecmd == [r |-> Plain("tms_Command", <<"cmd">>)]

\* gver mcu, dev; gver cmd dev asks the device that is found at the place, with the place
\* it reported, or 0/0 if none did.
cmd_gver ==
  [gver_mcu |-> Plain("tms_Command", <<>>),
   gver_dev |-> Plain("tms_GetVersion", Slot \o <<"type">>),
   gver_cmd_dev |-> [Plain("tms_GetVersion", Slot) EXCEPT !.takes = <<>>, !.to = "found"]]

\* update bin <file> <frame/slot/type>
cmd_update == [update_bin |-> Plain("tms_Update", <<"file">> \o Slot \o <<"type">>)]

\* update com request: what devices there are
cmd_updateCom == [update_com |-> [Plain("tms_Trace", <<>>) EXCEPT !.to = "managers"]]

\* osw pos, pos clear
cmd_osw ==
  [osw_pos |-> [Plain("tms_CfgMCUOSWPort", Port) EXCEPT !.from = {"frame"}, !.past = {"slot", "port"}],
   osw_pos_clear |-> [Plain("tms_CfgMCUOSWPortClear", Port) EXCEPT !.from = {"frame"}, !.past = {"slot", "port"}]]

\* osw sw, whose place is not refused, and cyc, whose interval is its port
cmd_oswCycle ==
  [osw_sw |-> [Plain("tms_MCU_OSWSwitch", Port) EXCEPT !.past = {"port"}],
   osw_cyc |-> [Plain("tms_CfgMCUOSWCycle", Port \o <<"iscyc", "interval">>) EXCEPT
                  !.takes = [@ EXCEPT !["interval"] = 3], !.moves = <<0, 1>>]]

-----------------------------------------------------------------------------
(* "tms ...": mostly with fixed values. *)

cmd_tmsall ==
  [alarmhw |-> Plain("tms_AlarmHW", <<>>),
   rtopma |-> [Plain("tms_RetTotalOPAlarm", <<>>) EXCEPT !.junk = {"slot", "port", "level", "time"}],
   rsn |-> Plain("tms_RetSerialNumber", <<>>),
   tms_sip |-> Plain("tms_SetIPAddress", <<"ip", "mask", "gw">>),
   gcom |-> Plain("tms_GetDeviceComposition", <<>>),
   gdev |-> Plain("tms_MCU_GetDeviceType", <<>>),
   gsn |-> Plain("tms_GetSerialNumber", <<>>),
   cfgsmsa |-> Plain("tms_CfgSMSAuthorization", <<>>),
   clsmsa |-> Plain("tms_ClearSMSAuthorization", <<>>),
   cfgoswcyc |-> Moving("tms_CfgMCUOSWCycle", <<"port">>, <<0, 1>>),
   closwcyc |-> Moving("tms_CfgMCUOSWCycle", <<"port">>, <<0, 1>>),
   oswsw |-> [Here("tms_MCU_OSWSwitch", <<"port">>) EXCEPT !.from = {"port"}],
   oswp |-> [Moving("tms_CfgMCUOSWPort", <<"port">>, <<0, 1>>) EXCEPT !.takes = <<>>],
   adjt |-> Plain("tms_AdjustTime", <<>>),
   trace |-> [Plain("tms_Trace", <<"text">>) EXCEPT !.to = "managers"],
   cmd |-> Plain("tms_Command", <<"cmd">>)]

\* oswclear takes up to eight ports, one is enough here
cmd_tmsallClear ==
  [oswclear |-> Moving("tms_CfgMCUOSWPortClear", <<"port">>, <<0, 1>>),
   smstxt |-> Plain("tms_SendSMS", <<>>),
   rdevc |-> [Plain("tms_RetDeviceComposition", <<>>) EXCEPT
                !.junk = {"reserved0", "reserved1", "reserved2", "reserved3"}],
   rdevcrt |-> Plain("tms_RetDeviceCompositionRT", <<>>),
   getotdr |-> Plain("tms_GetOTDRTest", <<>>),
   getotdrc |-> Plain("tms_GetOTDRTestCycle", <<>>)]

cmd_tmsallTrace ==
  [retotdr |-> Plain("tms_RetOTDRCycle_V2", <<>>),
   retotdrc |-> Plain("tms_RetOTDRTestCycle", <<>>),
   refotdr |-> Plain("tms_CfgOTDRRef", <<>>)]

cmd_tmsallOLP ==
  [tick |-> Plain("tms_Tick", <<>>),
   olpa |-> Here("tms_MCU_GetOLPAlarm", <<>>),
   olpstart |-> Here("tms_MCU_OLPStartOTDRTest", <<"port">>),
   olpfinish |-> Here("tms_MCU_OLPFinishOTDRTest", <<"port">>),
   cfgolp |-> [Moving("tms_CfgMCUOLPPort", <<"port">>, <<0, 5>>) EXCEPT !.takes = <<>>],
   clolp |-> Here("tms_CfgMCUOLPPortClear", <<"port">>),
   cfgolpu |-> Moving("tms_CfgMCUUniteOLPOSW", <<"port">>, <<0, 5>>),
   clolpu |-> Here("tms_CfgMCUUniteOLPOSWClear", <<"port">>),
   cfgopmu |-> [Moving("tms_CfgMCUUniteOPMOSW", <<"port">>, <<0, 6>>) EXCEPT !.takes = <<>>],
   clopmu |-> [Moving("tms_CfgMCUUniteOPMOSWClear", <<"port">>, <<0, 6>>) EXCEPT !.takes = <<>>]]

\* olpref go, opmref go
cmd_tmsallOLPRef == [olpref_go |-> Here("tms_CfgOLPRefLevel", <<>>)]
cmd_tmsallOPMRef == [opmref_go |-> Here("tms_CfgOPMRefLevel", <<>>)]

cmd_tmsallAlarm == [aopm |-> Here("tms_AlarmOPM", <<>>)]

cmd_tmsallState ==
  [olpop |-> Here("tms_GetOLPOP", <<>>),
   opmop |-> Here("tms_GetOPMOP", <<>>),
   cfgolpm |-> [Plain("tms_CfgOLPMode", <<>>) EXCEPT !.junk = ToSet(Slot \o <<"protect", "mode">>)],
   olpsw |-> [Here("tms_MCU_OLPSwitch", <<"port">>) EXCEPT !.from = {"port"}]]

cmd_tmsallVersion ==
  [gver |-> Here("tms_GetVersion", <<>>),
   rver |-> Here("tms_RetVersion", <<>>),
   ack |-> [Plain("tms_AckEx", <<>>) EXCEPT !.junk = {"src", "pkid"}]]

cmd_tmsallPower ==
  [aopmc |-> [Here("tms_AlarmOPMChange", <<>>) EXCEPT !.junk = {"type"}],
   ropm |-> Here("tms_RetOPMOP", <<>>),
   rolp |-> Here("tms_RetOLPOP", <<>>)]

-----------------------------------------------------------------------------
(* Commands to tables. *)

\* select <table> <value>: by the first member only
cmd_select ==
  [select_common |-> Asks("tmsdb_Select_common", <<"val1">>),
   select_sn |-> Asks("tmsdb_Select_sn", <<"sn">>),
   select_sms |-> Asks("tmsdb_Select_sms", <<"time">>),
   select_composition |-> Asks("tmsdb_Select_composition", <<"frame">>),
   select_dev_map |-> Asks("tmsdb_Select_dev_map", <<"frame">>),
   select_any_unit_osw |-> Asks("tmsdb_Select_any_unit_osw", <<"any_frame">>)]

cmd_selectOTDR ==
  [select_osw_cyc |-> Asks("tmsdb_Select_osw_cyc", <<"frame">>),
   select_osw_cyc_bak |-> Asks("tmsdb_Select_osw_cyc_bak", <<"frame">>),
   select_otdr_rollcall |-> Asks("tmsdb_Select_otdr_rollcall", <<"frame">>),
   select_otdr_ref |-> Asks("tmsdb_Select_otdr_ref", <<"osw_frame">>),
   select_otdr_his_data |-> Asks("tmsdb_Select_otdr_his_data", <<"osw_frame">>),
   select_otdr_alarm_data |-> Asks("tmsdb_Select_otdr_alarm_data", <<"osw_frame">>)]

\* delete <table> ...: the masks of composition and dev_map name two members more
cmd_delete ==
  [delete_common |-> Asks("tmsdb_Delete_common", SubSeq(Vals, 1, 4)),
   delete_sn |-> Asks("tmsdb_Delete_sn", <<>>),
   delete_sms |-> Asks("tmsdb_Delete_sms", <<"time", "phone">>),
   delete_composition |-> [Asks("tmsdb_Delete_composition", Slot) EXCEPT
                             !.mask = ToSet(Place), !.junk = {"type", "port"}],
   delete_dev_map |-> [Asks("tmsdb_Delete_dev_map", Slot) EXCEPT !.mask = ToSet(Place)]]

cmd_deleteOTDR ==
  [delete_any_unit_osw |-> Asks("tmsdb_Delete_any_unit_osw", SubSeq(AnyUnit, 1, 2)),
   delete_osw_cyc |-> Asks("tmsdb_Delete_osw_cyc", Slot),
   delete_osw_cyc_bak |-> Asks("tmsdb_Delete_osw_cyc_bak", Slot),
   delete_otdr_his_data |-> Asks("tmsdb_Delete_otdr_his_data", SubSeq(Osw, 1, 2)),
   delete_otdr_alarm_data |-> Asks("tmsdb_Delete_otdr_alarm_data", SubSeq(Osw, 1, 2)),
   delete_otdr_rollcall |-> Asks("tmsdb_Delete_otdr_rollcall", Slot),
   delete_otdr_ref |-> Asks("tmsdb_Delete_otdr_ref", SubSeq(Osw, 1, 2))]

\* insert <table> ...: the members that are not named have fixed values, or none
cmd_insert ==
  [insert_common |-> [ToTable("tmsdb_Insert_common", SubSeq(Vals, 1, 4) \o <<"pdata">>, {}) EXCEPT
                        !.junk = ToSet(SubSeq(Vals, 5, 12))],
   insert_sn |-> ToTable("tmsdb_Insert_sn", <<"sn">>, {}),
   insert_sms |-> ToTable("tmsdb_Insert_sms", <<"time", "phone">>, {}),
   insert_composition |-> ToTable("tmsdb_Insert_composition", Slot, {}),
   insert_dev_map |-> ToTable("tmsdb_Insert_dev_map", Slot, {})]

cmd_insertPort ==
  [insert_a_trigger_b |-> ToTable("tmsdb_Insert_a_trigger_b", PortA \o PortB, {}),
   insert_any_unit_osw |-> [ToTable("tmsdb_Insert_any_unit_osw", SubSeq(AnyUnit, 1, 2), {}) EXCEPT
                              !.junk = ToSet(Osw)],
   insert_osw_cyc |-> [ToTable("tmsdb_Insert_osw_cyc", Slot, {}) EXCEPT !.junk = {"iscyc", "interval"}],
   insert_osw_cyc_bak |-> [ToTable("tmsdb_Insert_osw_cyc_bak", Slot, {}) EXCEPT !.junk = {"interval"}],
   insert_otdr_rollcall |-> [ToTable("tmsdb_Insert_otdr_rollcall", Slot, {}) EXCEPT
                               !.junk = {"hdr_reserve0", "param_reserve2"}]]

cmd_insertOTDR ==
  [insert_otdr_ref |-> [ToTable("tmsdb_Insert_otdr_ref", SubSeq(Osw, 1, 2), {}) EXCEPT !.junk = {"otdr_port"}],
   insert_otdr_his_data |-> [ToTable("tmsdb_Insert_otdr_his_data", SubSeq(Osw, 1, 2), {}) EXCEPT
                               !.junk = ToSet(Otdr)],
   insert_otdr_alarm_data |-> [ToTable("tmsdb_Insert_otdr_alarm_data", SubSeq(Osw, 1, 2), {}) EXCEPT
                                 !.junk = ToSet(Otdr)]]

\* atb: add also tells the device (tms_Insert_TbUnit); del with one port deletes the
\* rows that begin and then those that end there; del with two tells the device
\* (tms_Del_TbUnit) without a value for the second, and deletes what del of the first does.
cmd_atb ==
  [atb_add |-> [ToTable("tmsdb_Insert_a_trigger_b", PortA \o PortB, {}) EXCEPT
                  !.every = [port_a |-> 4, port_b |-> 4], !.to = "sg_sockfdid"],
   atb_del |-> [Asks("tmsdb_Delete_a_trigger_b", PortA) EXCEPT !.every = [port_a |-> 4]],
   atb_del_ab |-> [Asks("tms_Del_TbUnit", PortA \o PortB) EXCEPT
                     !.takes = InOrder(PortA), !.mask = ToSet(PortA), !.every = [port_a |-> 4],
                     !.junk = ToSet(PortB), !.to = "sg_sockfdid"],
   atb_del_all |-> Plain("tms_DelAll_TbUnit", <<>>)]

-----------------------------------------------------------------------------
Lines ==
  cmd_opm @@ cmd_opmRef @@ cmd_opmAlarm @@ cmd_olp @@ cmd_olpSwitch @@ cmd_olpRef @@ cmd_otdr @@ cmd_otdrRef @@ cmd_produce @@ cmd_sms @@ cmd_smsAlarm @@ cmd_sn
    @@ cmd_sip @@ cmd_remotecmd @@ cmd_gver @@ cmd_update @@ cmd_updateCom @@ cmd_osw @@ cmd_oswCycle
    @@ cmd_tmsall @@ cmd_tmsallClear @@ cmd_tmsallTrace @@ cmd_tmsallOLP @@ cmd_tmsallOLPRef
    @@ cmd_tmsallOPMRef @@ cmd_tmsallAlarm @@ cmd_tmsallState
    @@ cmd_tmsallVersion @@ cmd_tmsallPower
    @@ cmd_select @@ cmd_selectOTDR @@ cmd_delete @@ cmd_deleteOTDR
    @@ cmd_insert @@ cmd_insertPort @@ cmd_insertOTDR @@ cmd_atb
=============================================================================
