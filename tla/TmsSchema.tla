----------------------------- MODULE TmsSchema ------------------------------
(***************************************************************************)
(* The fourteen tables of src/tmsxxdb.c, and what each function of the     *)
(* file writes where, reads from where and compares with what.  A function *)
(* is a record:                                                            *)
(*   table     the table it works on                                       *)
(*   fields    members of the structure, in the order of the statement     *)
(*   reads     member |-> column, for the members it fills                 *)
(*   where     member |-> column, for the members a mask may name          *)
(*   hidden    pairs of members: the first is not compared if the mask     *)
(*             names the second                                            *)
(*   null      what it does without a condition                            *)
(* Members that several structures below a pointer share are named after   *)
(* their column.                                                           *)
(***************************************************************************)
EXTENDS Integers, Sequences, SequencesExt

Place == <<"frame", "slot", "type", "port">>
Osw == <<"osw_frame", "osw_slot", "osw_type", "osw_port">>
Otdr == <<"otdr_frame", "otdr_slot", "otdr_type", "otdr_port">>
AnyUnit == <<"any_frame", "any_slot", "any_type", "any_port">>
PortA == <<"frame_a", "slot_a", "type_a", "port_a">>
PortB == <<"frame_b", "slot_b", "type_b", "port_b">>
Vals == <<"val1", "val2", "val3", "val4", "val5", "val6", "val7", "val8", "val9", "val10",
  "val11", "val12">>
Names == <<"dev_name", "cable_name", "start_name", "end_name">>
Param == <<"rang", "wl", "pw", "time", "gi", "end_threshold", "none_reflect_threshold">>
Samples == <<"dpid", "sample_count", "sample_data", "eventid", "event_count", "event_data">>
Chain == <<"inf", "range", "loss", "att">>
Levels == <<"leve0", "leve1", "leve2">>
Alarm == <<"alarm_type", "alarm_level", "alarm_frame", "alarm_slot", "alarm_port",
  "alarm_position", "alarm_time", "alarm_reserve0">>
Id(columns) == <<"id">> \o columns

-----------------------------------------------------------------------------
(* The tables' columns. *)

_tmsdb_CreateTable_common == Id(Vals \o <<"bin_len", "bin_data">>)
_tmsdb_CreateTable_sn == <<"sn">>
_tmsdb_CreateTable_sms == Id(<<"date", "phone", "type", "level">>)
_tmsdb_CreateTable_composition == Id(Place)
_tmsdb_CreateTable_dev_map == Id(AnyUnit \o Names)
_tmsdb_CreateTable_any_unit_osw == Id(AnyUnit \o Osw)
_tmsdb_CreateTable_route == Id(<<"ip_src", "ip_dst">> \o PortA \o PortB)
_tmsdb_CreateTable_a_trigger_b == Id(PortA \o PortB)
_tmsdb_CreateTable_osw_cyc == Id(Osw \o <<"iscyc", "interval">>)
_tmsdb_CreateTable_osw_cyc_bak == Id(Osw \o <<"iscyc", "interval", "nexttest">>)
_tmsdb_CreateTable_otdr_rollcall == Id(Osw \o <<"hdr_reserve0">> \o Param
  \o <<"param_reserve0", "param_reserve1", "param_reserve2">>)
_tmsdb_CreateTable_otdr_ref == Id(Osw \o <<"otdr_port", "strid">> \o Param
  \o <<"param_reserve0", "param_reserve1", "param_reserve2">> \o Samples
  \o <<"ch_inf", "ch_range", "ch_loss", "ch_att">> \o Levels)
_tmsdb_CreateTable_otdr_his_data == Id(Osw \o <<"date">> \o Otdr \o Param
  \o <<"sample", "param_reserve1", "param_reserve2">> \o Samples \o Chain)
_tmsdb_CreateTable_otdr_alarm_data == _tmsdb_CreateTable_otdr_his_data \o Alarm

tmsdb_CheckDb ==
  [common |-> _tmsdb_CreateTable_common, sn |-> _tmsdb_CreateTable_sn,
   sms |-> _tmsdb_CreateTable_sms, composition |-> _tmsdb_CreateTable_composition,
   dev_map |-> _tmsdb_CreateTable_dev_map,
   any_unit_osw |-> _tmsdb_CreateTable_any_unit_osw, route |-> _tmsdb_CreateTable_route,
   a_trigger_b |-> _tmsdb_CreateTable_a_trigger_b, osw_cyc |-> _tmsdb_CreateTable_osw_cyc,
   osw_cyc_bak |-> _tmsdb_CreateTable_osw_cyc_bak,
   otdr_rollcall |-> _tmsdb_CreateTable_otdr_rollcall,
   otdr_ref |-> _tmsdb_CreateTable_otdr_ref,
   otdr_his_data |-> _tmsdb_CreateTable_otdr_his_data,
   otdr_alarm_data |-> _tmsdb_CreateTable_otdr_alarm_data]

-----------------------------------------------------------------------------
(* Functions that insert.  When a statement fails they go on ("ignore"),   *)
(* stop ("stop"), or take everything back ("rollback").                    *)

Inserts(table, fields, failed) ==
  [kind |-> "insert", table |-> table, fields |-> fields, failed |-> failed]

tmsdb_Insert_common == Inserts("common", Vals \o <<"lenpdata", "pdata">>, "ignore")
tmsdb_Insert_sn == Inserts("sn", <<"sn">>, "stop")
tmsdb_Insert_sms == Inserts("sms", <<"time", "phone", "type", "level">>, "stop")
tmsdb_Insert_composition == Inserts("composition", Place, "stop")
tmsdb_Insert_dev_map == Inserts("dev_map", Place \o Names, "ignore")
tmsdb_Insert_any_unit_osw == Inserts("any_unit_osw", AnyUnit \o Osw, "stop")
tmsdb_Insert_route == Inserts("route", <<"ip_src", "ip_dst">> \o PortA \o PortB, "rollback")
tmsdb_Insert_a_trigger_b == Inserts("a_trigger_b", PortA \o PortB, "rollback")
tmsdb_Insert_osw_cyc == Inserts("osw_cyc", Place \o <<"iscyc", "interval">>, "stop")
tmsdb_Insert_osw_cyc_bak ==
  Inserts("osw_cyc_bak", Place \o <<"iscyc", "interval", "nexttest">>, "stop")

\* The first reserve is written twice, the last one not at all.
tmsdb_Insert_otdr_rollcall ==
  Inserts("otdr_rollcall", Place \o <<"hdr_reserve0">> \o Param
    \o <<"reserve0", "reserve0", "reserve1">>, "ignore")
tmsdb_Insert_otdr_ref ==
  Inserts("otdr_ref", Osw \o <<"otdr_port", "strid">> \o Param
    \o <<"sample", "reserve0", "reserve1">> \o Samples \o Chain \o Levels, "ignore")
tmsdb_Insert_otdr_his_data ==
  Inserts("otdr_his_data", Osw \o <<"date">> \o Otdr \o Param
    \o <<"sample", "reserve0", "reserve1">> \o Samples \o Chain, "ignore")
tmsdb_Insert_otdr_alarm_data ==
  Inserts("otdr_alarm_data", tmsdb_Insert_otdr_his_data.fields \o Alarm, "ignore")

-----------------------------------------------------------------------------
(* Conditions: members and the columns they are compared with. *)

Where(fields, columns) ==
  [f \in ToSet(fields) |-> columns[CHOOSE i \in DOMAIN fields : fields[i] = f]]
Same(fields) == Where(Id(fields), Id(fields))
ByOsw == Where(Id(Place), Id(Osw))

Deletes(table, where, null) ==
  [kind |-> "delete", table |-> table, where |-> where, hidden |-> {}, null |-> null,
   failed |-> "ignore"]

tmsdb_Delete_common == Deletes("common", Same(Vals), "refused")
tmsdb_Delete_sn == Deletes("sn", Where(<<>>, <<>>), "all")
tmsdb_Delete_sms ==
  Deletes("sms", Where(Id(<<"time", "phone", "type", "level">>),
                       Id(<<"date", "phone", "type", "level">>)), "all")
tmsdb_Delete_composition == Deletes("composition", Same(Place), "all")
tmsdb_Delete_any_unit_osw == Deletes("any_unit_osw", Same(AnyUnit \o Osw), "all")
\* Without a condition another table is emptied.
tmsdb_Delete_dev_map == Deletes("dev_map", Where(Id(Place), Id(AnyUnit)), "composition")
\* Without a condition nothing is deleted: the statement is a select.
tmsdb_Delete_route ==
  [Deletes("route", Same(<<"ip_src", "ip_dst">> \o PortA \o PortB), "nothing")
     EXCEPT !.failed = "rollback"]
tmsdb_Delete_a_trigger_b == Deletes("a_trigger_b", Same(PortA \o PortB), "all")
tmsdb_Delete_osw_cyc ==
  Deletes("osw_cyc", Where(Id(Place \o <<"iscyc", "interval">>),
                           Id(Osw \o <<"iscyc", "interval">>)), "all")
tmsdb_Delete_osw_cyc_bak == [tmsdb_Delete_osw_cyc EXCEPT !.table = "osw_cyc_bak"]
tmsdb_Delete_otdr_ref == Deletes("otdr_ref", Same(Osw), "refused")
tmsdb_Delete_otdr_rollcall == Deletes("otdr_rollcall", ByOsw, "refused")
tmsdb_Delete_otdr_his_data == Deletes("otdr_his_data", Same(Osw \o Otdr), "refused")
tmsdb_Delete_otdr_alarm_data == Deletes("otdr_alarm_data", Same(Osw \o Otdr), "refused")

-----------------------------------------------------------------------------
(* Functions that select: all rows into an array, or row by row into a     *)
(* callback, in pages or not.                                              *)

Selects(table, columns, fields, where, into) ==
  [kind |-> "select", table |-> table, text |-> "sound", reads |-> Where(fields, columns),
   where |-> where, hidden |-> {}, null |-> "all", into |-> into, more |-> FALSE]

tmsdb_Select_common ==
  [Selects("common", _tmsdb_CreateTable_common, Id(Vals \o <<"lenpdata", "pdata">>),
           Same(Vals), "callback") EXCEPT !.null = "refused"]
tmsdb_Select_sn == Selects("sn", <<"sn">>, <<"sn">>, Where(<<>>, <<>>), "array")
tmsdb_Select_sms ==
  Selects("sms", _tmsdb_CreateTable_sms, Id(<<"time", "phone", "type", "level">>),
          tmsdb_Delete_sms.where, "array")
tmsdb_Select_composition ==
  Selects("composition", Id(Place), Id(Place), Same(Place), "array")
tmsdb_Select_dev_map ==
  Selects("dev_map", Id(AnyUnit \o Names), Id(Place \o Names), Where(Id(Place), Id(AnyUnit)), "array")

\* The row's number is not compared, nor is the switch's frame: the text of the
\* port's condition stands in its place.
tmsdb_Select_any_unit_osw ==
  Selects("any_unit_osw", Id(AnyUnit \o Osw), Id(AnyUnit \o Osw),
          Where(AnyUnit \o Tail(Osw), AnyUnit \o Tail(Osw)), "array")

tmsdb_Select_route ==
  Selects("route", _tmsdb_CreateTable_route, _tmsdb_CreateTable_route,
          Same(<<"ip_src", "ip_dst">> \o PortA \o PortB), "callback")
tmsdb_Select_Page_route == [tmsdb_Select_route EXCEPT !.into = "page", !.more = TRUE]

\* The row's number is not read, so that every column lands one member too early.
Shifted == Where(Id(PortA \o PortB), Append(PortA \o PortB, "none"))

\* Without a condition as in Shifted.
tmsdb_Select_a_trigger_b ==
  [Selects("a_trigger_b", Id(PortA \o PortB), Id(PortA \o PortB), Same(PortA \o PortB), "callback")
     EXCEPT !.null = "shifted"]
tmsdb_Select_Page_a_trigger_b ==
  [tmsdb_Select_a_trigger_b EXCEPT !.into = "page", !.more = TRUE]

\* Without a condition a table is asked that does not exist.
tmsdb_Select_osw_cyc ==
  [Selects("osw_cyc", _tmsdb_CreateTable_osw_cyc, Id(Place \o <<"iscyc", "interval">>),
           tmsdb_Delete_osw_cyc.where, "array") EXCEPT !.null = "no table"]
tmsdb_Select_osw_cyc_bak ==
  [Selects("osw_cyc_bak", _tmsdb_CreateTable_osw_cyc_bak,
           Id(Place \o <<"iscyc", "interval", "nexttest">>),
           tmsdb_Delete_osw_cyc_bak.where, "array") EXCEPT !.null = "no table"]

tmsdb_Select_otdr_rollcall ==
  [Selects("otdr_rollcall", _tmsdb_CreateTable_otdr_rollcall,
           Id(Place \o <<"hdr_reserve0">> \o Param \o <<"reserve0", "reserve1", "reserve2">>),
           ByOsw, "callback") EXCEPT !.null = "refused"]
\* A trace that later ones are compared with, one that was taken, and one with its
\* alarm: column by column into structures on the stack, which the callback is given.
\* The time of the alarm is read from the column of the chain's text.
Read_otdr_ref == Where(Id(tmsdb_Insert_otdr_ref.fields), _tmsdb_CreateTable_otdr_ref)
Read_otdr_his_data == Where(Id(tmsdb_Insert_otdr_his_data.fields), _tmsdb_CreateTable_otdr_his_data)
Read_otdr_alarm_data ==
  [Where(Id(tmsdb_Insert_otdr_alarm_data.fields), _tmsdb_CreateTable_otdr_alarm_data)
     EXCEPT ![tmsdb_Insert_otdr_alarm_data.fields[Len(tmsdb_Insert_otdr_alarm_data.fields) - 1]] = "inf"]

Traces(table, read, compared) ==
  [Selects(table, <<>>, <<>>, Same(compared), "callback") EXCEPT !.null = "refused", !.reads = read]

tmsdb_Select_otdr_ref == Traces("otdr_ref", Read_otdr_ref, Osw)

\* The conditions of the measuring module take the place of the switch's.
Instead == {<<Osw[i], Otdr[i]>> : i \in 1..4}

\* The statement ends its list of columns in a comma: it is never prepared.
tmsdb_Select_otdr_his_data ==
  [Traces("otdr_his_data", Read_otdr_his_data, Osw \o Otdr) EXCEPT !.hidden = Instead, !.text = "comma"]

tmsdb_Select_otdr_alarm_data ==
  [Traces("otdr_alarm_data", Read_otdr_alarm_data, Osw \o Otdr) EXCEPT !.hidden = Instead, !.more = TRUE]

-----------------------------------------------------------------------------
(* The functions by their names. *)

tmsxxdb ==
  [tmsdb_Insert_common |-> tmsdb_Insert_common, tmsdb_Insert_sn |-> tmsdb_Insert_sn,
   tmsdb_Insert_sms |-> tmsdb_Insert_sms, tmsdb_Insert_composition |-> tmsdb_Insert_composition,
   tmsdb_Insert_dev_map |-> tmsdb_Insert_dev_map,
   tmsdb_Insert_any_unit_osw |-> tmsdb_Insert_any_unit_osw,
   tmsdb_Insert_route |-> tmsdb_Insert_route,
   tmsdb_Insert_a_trigger_b |-> tmsdb_Insert_a_trigger_b,
   tmsdb_Insert_osw_cyc |-> tmsdb_Insert_osw_cyc,
   tmsdb_Insert_osw_cyc_bak |-> tmsdb_Insert_osw_cyc_bak,
   tmsdb_Insert_otdr_rollcall |-> tmsdb_Insert_otdr_rollcall,
   tmsdb_Insert_otdr_ref |-> tmsdb_Insert_otdr_ref,
   tmsdb_Insert_otdr_his_data |-> tmsdb_Insert_otdr_his_data,
   tmsdb_Insert_otdr_alarm_data |-> tmsdb_Insert_otdr_alarm_data,
   tmsdb_Delete_common |-> tmsdb_Delete_common, tmsdb_Delete_sn |-> tmsdb_Delete_sn,
   tmsdb_Delete_sms |-> tmsdb_Delete_sms, tmsdb_Delete_composition |-> tmsdb_Delete_composition,
   tmsdb_Delete_dev_map |-> tmsdb_Delete_dev_map,
   tmsdb_Delete_any_unit_osw |-> tmsdb_Delete_any_unit_osw,
   tmsdb_Delete_route |-> tmsdb_Delete_route,
   tmsdb_Delete_a_trigger_b |-> tmsdb_Delete_a_trigger_b,
   tmsdb_Delete_osw_cyc |-> tmsdb_Delete_osw_cyc,
   tmsdb_Delete_osw_cyc_bak |-> tmsdb_Delete_osw_cyc_bak,
   tmsdb_Delete_otdr_rollcall |-> tmsdb_Delete_otdr_rollcall,
   tmsdb_Delete_otdr_ref |-> tmsdb_Delete_otdr_ref,
   tmsdb_Delete_otdr_his_data |-> tmsdb_Delete_otdr_his_data,
   tmsdb_Delete_otdr_alarm_data |-> tmsdb_Delete_otdr_alarm_data,
   tmsdb_Select_common |-> tmsdb_Select_common, tmsdb_Select_sn |-> tmsdb_Select_sn,
   tmsdb_Select_sms |-> tmsdb_Select_sms, tmsdb_Select_composition |-> tmsdb_Select_composition,
   tmsdb_Select_dev_map |-> tmsdb_Select_dev_map,
   tmsdb_Select_any_unit_osw |-> tmsdb_Select_any_unit_osw,
   tmsdb_Select_route |-> tmsdb_Select_route, tmsdb_Select_Page_route |-> tmsdb_Select_Page_route,
   tmsdb_Select_a_trigger_b |-> tmsdb_Select_a_trigger_b,
   tmsdb_Select_Page_a_trigger_b |-> tmsdb_Select_Page_a_trigger_b,
   tmsdb_Select_osw_cyc |-> tmsdb_Select_osw_cyc,
   tmsdb_Select_osw_cyc_bak |-> tmsdb_Select_osw_cyc_bak,
   tmsdb_Select_otdr_rollcall |-> tmsdb_Select_otdr_rollcall,
   tmsdb_Select_otdr_ref |-> tmsdb_Select_otdr_ref,
   tmsdb_Select_otdr_his_data |-> tmsdb_Select_otdr_his_data,
   tmsdb_Select_otdr_alarm_data |-> tmsdb_Select_otdr_alarm_data]
=============================================================================
