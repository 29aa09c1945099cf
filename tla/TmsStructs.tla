----------------------------- MODULE TmsStructs -----------------------------
(***************************************************************************)
(* The structures of protocol/tmsxx.h and the head of a glink frame, as    *)
(* sequences of fields in the order in which they lie in memory.  Values   *)
(* are left out except where the code branches on them; what matters is    *)
(* the order of a field's bytes: as this machine computes with them        *)
(* ("host"), as they travel ("net"), a text that is left alone ("text") or *)
(* one whose halves were exchanged ("swab"), or never assigned ("junk").   *)
(***************************************************************************)
EXTENDS Integers, Sequences, SequencesExt

CONSTANT TLE_LEN        \* length of a telephone number in tmsxx.h

(***************************************************************************)
(* Fields and what the conversions of the library do to them.              *)
(***************************************************************************)
Field(name, bytes, order) == <<[n |-> name, w |-> bytes, o |-> order, v |-> 0]>>

Words(names)  == FlattenSeq([i \in DOMAIN names |-> Field(names[i], 4, "host")])
Halves(names) == FlattenSeq([i \in DOMAIN names |-> Field(names[i], 2, "host")])
Text(name, bytes) == Field(name, bytes, "text")

Bytes(fields) == FoldLeft(LAMBDA sum, f : sum + f.w, 0, fields)
Times(n, fields) == IF n < 1 THEN <<>> ELSE FlattenSeq([i \in 1..n |-> fields])

\* htonl, and htons, exchange the bytes: twice is nothing.
htonl(f) == [f EXCEPT !.o = CASE @ = "host" -> "net"  [] @ = "net"  -> "host"
                              [] @ = "text" -> "swab" [] @ = "swab" -> "text"
                              [] OTHER -> @]

\* A structure whose numbers are converted one by one, all, or all but some.
ConvBut(fields, kept) ==
  [i \in DOMAIN fields |-> IF fields[i].o \in {"text", "swab"} \/ fields[i].n \in kept
                             THEN fields[i] ELSE htonl(fields[i])]
Conv(fields) == ConvBut(fields, {})

\* A local variable of which some members are not assigned.
Unassigned(fields, names) ==
  [i \in DOMAIN fields |-> IF fields[i].n \in names THEN [fields[i] EXCEPT !.o = "junk"]
                                                    ELSE fields[i]]

With(fields, name, value) ==
  [i \in DOMAIN fields |-> IF fields[i].n = name THEN [fields[i] EXCEPT !.v = value]
                                                 ELSE fields[i]]
Counted(fields, n) == With(fields, "count", n)

(***************************************************************************)
(* The structures.                                                         *)
(***************************************************************************)
glink_base == Words(<<"pklen", "version", "src", "dst">>) \o Halves(<<"type", "pkid">>)
  \o Words(<<"reserve", "cmdid", "datalen">>)

tms_dev_slot == Words(<<"frame", "slot">>)
tms_dev_type == Words(<<"frame", "slot", "type">>)
tms_dev_version == Words(<<"frame", "slot", "type">>) \o Text("vsersion", 48)
tms_dev_update_hdr == Words(<<"frame", "slot", "type">>) \o Text("target", 16)
  \o Words(<<"flen">>)
tms_dev_md5 == Text("md5", 32)
tms_change_addr == Text("ip", 16) \o Text("mask", 16) \o Text("gw", 16)
tms_sn == Text("sn", 128)
tms_cfg_sms == Words(<<"count">>)
tms_cfg_sms_val == Words(<<"time">>) \o Text("phone", TLE_LEN)
  \o Words(<<"type", "level">>)
tms_cfg_mcu_osw_port == Words(<<"frame", "slot", "type", "port">>)
  \o Text("dev_name", 64) \o Text("cable_name", 64) \o Text("start_name", 64)
  \o Text("end_name", 64)
tms_dev_port == Words(<<"frame", "slot", "type", "port">>)
tms_ret_dev_type ==
  Words(<<"frame", "slot", "type", "port", "reserved0", "reserved1", "reserved2",
    "reserved3">>)
tms_dev_composition == Words(<<"count">>)
tms_dev_composition_val ==
  Words(<<"frame", "slot", "type", "port", "reserved0", "reserved1", "reserved2",
    "reserved3">>)
tms_dev_status_from_tu == Words(<<"frame", "slot", "type", "dev_status">>)
tms_ret_power_state_from_tu == Words(<<"frame", "slot", "type", "count">>)
tms_ret_power_state_from_tu_val ==
  Words(<<"frame", "slot", "type", "port", "reserve0", "reserve1", "reserve2",
    "reserve3">>)
tms_mcu_get_dev_alarm == Words(<<"frame", "slot", "type">>)
tms_dev_ret_mcu_alarm == Words(<<"alarm_type", "frame", "slot", "type", "count">>)
tms_dev_ret_mcu_alarm_val == Words(<<"level", "frame", "slot", "reason">>)
  \o Text("time", 20)
tms_olp_request_otdr == Words(<<"frame", "slot", "type", "port">>)
tms_alarm_hw_change == Words(<<"type", "total", "count">>)
tms_alarm_hw_change_val == Words(<<"level", "frame", "slot", "type", "reason">>)
  \o Text("time", 20)
tms_cfg_mcu_u_any_osw == Words(<<"any_frame", "any_slot", "any_type", "count">>)
tms_cfg_mcu_u_any_osw_val ==
  Words(<<"any_port", "osw_frame", "osw_slot", "osw_type", "osw_port">>)
tms_cfg_mcu_any_port_clear_val == Words(<<"any_port">>)
tms_cfg_any_power_ref == Words(<<"frame", "slot", "type", "count">>)
tms_cfg_opm_ref_val ==
  Words(<<"port", "isminitor", "wave", "ref_power", "leve0", "leve1", "leve2">>)
tms_cfg_olp_ref_val ==
  Words(<<"port", "isminitor", "wave", "ref_power", "leve0", "leve1", "leve2">>)
tms_any_op == Words(<<"frame", "slot", "type", "count">>)
tms_any_op_val == Words(<<"port", "power">>)
tms_cfg_mcu_osw_cycle == Words(<<"frame", "slot", "type", "count">>)
tms_cfg_mcu_osw_cycle_val == Words(<<"port", "iscyc", "interval">>)
tms_cfg_olp_mode ==
  Words(<<"frame", "slot", "type", "flag", "mode", "back_time", "protect_port",
    "work_line", "sw_level1", "sw_level2", "tx_ref">>)
tms_alarm_line_hdr ==
  Words(<<"alarm_type", "alarm_level", "frame", "slot", "port", "alarm_position">>)
  \o Text("time", 20) \o Words(<<"reserve0">>)
tms_getotdr_test_hdr == Words(<<"frame", "slot", "type", "port", "reserve0">>)
tms_getotdr_test_param ==
  Words(<<"rang", "wl", "pw", "time", "gi", "end_threshold",
    "none_reflect_threshold", "reserve0", "reserve1", "reserve2">>)
tms_otdr_ref_hdr ==
  Words(<<"osw_frame", "osw_slot", "osw_type", "osw_port", "otdr_port">>)
  \o Text("strid", 20)
tms_cfg_otdr_ref_val == Words(<<"leve0", "leve1", "leve2">>)
tms_retotdr_test_hdr == Words(<<"osw_frame", "osw_slot", "osw_type", "osw_port">>)
  \o Text("time", 20) \o Words(<<"otdr_frame", "otdr_slot", "otdr_type", "otdr_port">>)
tms_retotdr_test_param ==
  Words(<<"rang", "wl", "pw", "time", "gi", "end_threshold",
    "none_reflect_threshold", "sample", "reserve0", "reserve1">>)
tms_retotdr_data_hdr == Text("dpid", 12) \o Words(<<"count">>)
tms_retotdr_data_val == Halves(<<"data">>)
tms_retotdr_event_hdr == Text("eventid", 12) \o Words(<<"count">>)
tms_retotdr_event_val ==
  Words(<<"distance", "event_type", "att", "loss", "reflect", "link_loss">>)
tms_retotdr_chain == Text("inf", 20) \o Words(<<"range", "loss", "att">>)
tms_alarm_opm == Words(<<"alarm_type", "frame", "slot", "type", "count">>)
tms_alarm_opm_val == Words(<<"port", "levelx", "power">>) \o Text("time", 20)
tms_alarm_opm_change ==
  Words(<<"alarm_type", "frame", "slot", "type", "alarm_cnt", "count">>)
tms_report_olp_action == Words(<<"frame", "slot", "type", "sw_type", "sw_port">>)
  \o Text("time", 20)
tms_alarm_hw == Words(<<"alarm_type", "count">>)
tms_alarm_hw_val == Words(<<"level", "frame", "slot", "type", "reason">>)
  \o Text("time", 20)
tms_sms_state == Text("phone", 16) \o Words(<<"state">>)
tms_adjust_tm == Text("tm", 20)
tms_ack == Words(<<"errcode", "cmdid", "reserve1", "reserve2", "reserve3", "reserve4">>)
tms_dev_produce == Words(<<"frame", "slot", "type">>) \o Text("hw_ver", 20)
  \o Text("date", 20) \o Text("sn", 64) \o Words(<<"reserved0", "reserved1">>)
tms_otdr_produce_hdr == Words(<<"frame", "slot", "type">>) \o Halves(<<"count">>)
tms_otdr_produce_val == Halves(<<"index", "dB">>)
tms_route ==
  Words(<<"ip_src", "ip_dst", "frame_a", "slot_a", "type_a", "port_a", "frame_b",
    "slot_b", "type_b", "port_b">>)
tms_cyctest == Words(<<"frame", "slot", "type", "port", "reserved0", "iscyc">>)
tms_unit ==
  Words(<<"frame_a", "slot_a", "type_a", "port_a", "frame_b", "slot_b", "type_b",
    "port_b">>)
tms_total_op_alarm_hdr == Words(<<"type", "count">>)
tms_total_op_alarm_val == Words(<<"frame", "slot", "port", "alarm_level", "cur_power">>)
  \o Text("time", 20)
tms_olp_action_log_hdr == Words(<<"count">>)
tms_olp_action_log_val == Words(<<"frame", "slot", "type", "sw_type", "sw_port">>)
  \o Text("time", 20)
tms_get_olp_line == Words(<<"frame", "slot", "type">>)
tms_ret_olp_line == Words(<<"frame", "slot", "type", "current_line">>)
tms_get_olp_info == Words(<<"frame", "slot", "type">>)
tms_ret_olp_info ==
  Words(<<"frame", "slot", "type", "flag", "mode", "back_time", "protect_port",
    "work_line", "sw_level1", "sw_level2", "tx_ref", "tx_jump">>)
tms_get_mcuosw_port == Words(<<"frame", "slot", "type", "port">>)
tms_get_otdrref == Words(<<"frame", "slot", "type", "port">>)
\* Built with CONFIG_TEST_NET_STRONG; travels in the order of the machine that sends it.
test_netpacket == Text("fname", 16) \o Words(<<"save", "id", "thread_id">>)
=============================================================================
