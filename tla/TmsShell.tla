------------------------------ MODULE TmsShell ------------------------------
(***************************************************************************)
(* The shell thread (src/shell/cmd/cmd_tmsxx.c) between a user, who        *)
(* chooses a device and types lines, the devices, which come and go, and   *)
(* the worker thread, whose callback (src/src/tms_app.c) fills the         *)
(* reference levels that the user types, too.  The lines themselves are in *)
(* TmsCommands; an argument is its number on the line and its range.       *)
(***************************************************************************)
EXTENDS TmsCommands, Integers

CONSTANTS
    Connections,    \* bound: connections, of devices, managers and others
    Sockets,        \* the descriptors they may get
    Places,         \* <<frame, slot>> of the devices
    Refs            \* by kind, how many entries there are, have a name, and are sent by "clear"

ASSUME ShellAssumption ==
    /\ Sockets \subseteq Nat \ {0}
    /\ Refs \in [{"opm", "olp"} -> [all : Nat, named : Nat \ {0}, first : Nat]]
    /\ \A k \in DOMAIN Refs : Refs[k].first <= Refs[k].all /\ Refs[k].named <= Refs[k].all

VARIABLES
    place,          \* sg_frameid, sg_slotid
    sock,           \* sg_sockfdid
    conn,           \* the connections: descriptor, and place if the type was reported
    chosen,         \* what the user last chose
    refs,           \* sg_opmref or sg_olpref, with the default and the wish for an answer
    sent            \* what the last line handed on

shellVars == <<place, sock, conn, chosen, refs, sent>>

NoPlace == <<-1, -1>>
Nobody == "nobody"
Nothing == [line |-> "none"]

-----------------------------------------------------------------------------
(* Connections. *)

Off == [fd |-> 0, at |-> NoPlace]
Used == {conn[c].fd : c \in Connections}
FdAt(p) == IF \E c \in Connections : conn[c].at = p
           THEN conn[CHOOSE c \in Connections : conn[c].at = p].fd ELSE 0
Holder(fd) == IF fd \in Used \ {0} THEN CHOOSE c \in Connections : conn[c].fd = fd ELSE Nobody

Lowest(fds) == CHOOSE f \in fds : \A g \in fds : f <= g

Opened(c) == conn' = [conn EXCEPT ![c] = [Off EXCEPT !.fd = Lowest(Sockets \ Used)]]

Connects ==
  \E c \in Connections :
    /\ conn[c] = Off /\ ~(Sockets \subseteq Used)
    /\ Opened(c)
    /\ sent' = Nothing /\ UNCHANGED <<place, sock, chosen, refs>>

\* tms_AddDev; a device has one place here, and a place one device.
Reports ==
  \E c \in Connections, p \in Places :
    /\ conn[c].fd # 0 /\ conn[c].at = NoPlace /\ FdAt(p) = 0
    /\ conn' = [conn EXCEPT ![c].at = p]
    /\ sent' = Nothing /\ UNCHANGED <<place, sock, chosen, refs>>

\* The shell is not told.
Disconnects ==
  \E c \in Connections :
    /\ conn[c] # Off
    /\ conn' = [conn EXCEPT ![c] = Off]
    /\ chosen' = IF chosen.conn = c THEN [chosen EXCEPT !.conn = Nobody] ELSE chosen
    /\ sent' = Nothing /\ UNCHANGED <<place, sock, refs>>

-----------------------------------------------------------------------------
(* Choosing. *)

Choose(c, p) == chosen' = [conn |-> c, place |-> p]

\* interface <frame/slot>
cmd_intface(p) ==
  /\ IF FdAt(p) # 0
     THEN sock' = FdAt(p) /\ place' = p /\ Choose(Holder(FdAt(p)), p)
     ELSE UNCHANGED <<sock, place, chosen>>
  /\ sent' = Nothing

\* What is known of the device that holds a descriptor.
KnownAt(fd) == IF Holder(fd) = Nobody THEN NoPlace ELSE conn[Holder(fd)].at

\* interface sockfd <fd>: the place of a device that is not known stays what it was
\* Bug: so does that of one that is.
cmd_intfaceSockfdOnly(fd) ==
  /\ sock' = fd /\ UNCHANGED place
  /\ Choose(Holder(fd), KnownAt(fd)) /\ sent' = Nothing
cmd_intfaceSockfd(fd) ==
  /\ sock' = fd
  /\ place' = IF KnownAt(fd) # NoPlace THEN KnownAt(fd) ELSE place
  /\ Choose(Holder(fd), KnownAt(fd)) /\ sent' = Nothing

\* dev <frame/slot> [do]: the place only; with "do" whether or not a device is there
cmd_device(p, do) ==
  /\ IF FdAt(p) # 0 \/ do
     THEN place' = p /\ chosen' = [chosen EXCEPT !.place = p]
     ELSE UNCHANGED <<place, chosen>>
  /\ sent' = Nothing /\ UNCHANGED sock

\* scan <fd>: the descriptor only
cmd_tmsscan(fd) ==
  /\ sock' = fd /\ UNCHANGED place
  /\ Choose(Holder(fd), NoPlace)
  /\ sent' = [line |-> "scan", fd |-> fd]

\* tconnect: a connection of the shell's own, which "int s <fd>" makes the chosen one
\* before its number, its text and its devices are asked for.
cmd_term_connect ==
  \E c \in Connections :
    /\ conn[c] = Off /\ ~(Sockets \subseteq Used)
    /\ Opened(c)
    /\ sock' = conn'[c].fd /\ Choose(c, NoPlace)
    /\ sent' = [line |-> "tconnect", fd |-> conn'[c].fd]
    /\ UNCHANGED place

\* "disp clear", and "disp update" and "disp updatev2", which ask the chosen device to
\* report all anew: no device is known by its place any more.
cmd_Disp ==
  /\ conn' = [c \in Connections |-> [conn[c] EXCEPT !.at = NoPlace]]
  /\ sent' \in {Nothing, [line |-> "disp_update", fd |-> sock]}
  /\ UNCHANGED <<place, sock, chosen>>

Chooses ==
  /\ \/ (\E p \in Places : cmd_intface(p) \/ \E do \in BOOLEAN : cmd_device(p, do)) /\ UNCHANGED conn
     \/ (\E fd \in Sockets : cmd_intfaceSockfd(fd) \/ cmd_tmsscan(fd)) /\ UNCHANGED conn
     \/ cmd_term_connect
     \/ cmd_Disp
  /\ UNCHANGED refs

-----------------------------------------------------------------------------
(* Lines. *)

\* The arguments that have a range; the others are free.
Ranged == {"index", "frame", "slot", "port", "osw_frame", "osw_slot", "osw_port"}

\* At most one argument is special: at the limit of its range, beyond it, the 'c' for all
\* ports, or a word that is not known.
Specials(l) ==
  {[arg |-> 0, is |-> "plain"]}
    \cup [arg : {i \in DOMAIN l.usage : l.usage[i] \in Ranged}, is : {"limit", "beyond"}]
    \cup [arg : {i \in DOMAIN l.usage : l.usage[i] \in {"port_a", "port_b"} /\ l.every # <<>>}, is : {"all"}]
    \cup [arg : {i \in DOMAIN l.usage : l.usage[i] \in l.words}, is : {"unknown"}]

Typed(special, i) == <<i, IF special.arg = i THEN special.is ELSE "plain">>

Refused(l, special) ==
  \E m \in DOMAIN l.takes : l.takes[m] = special.arg /\
    \/ m \in l.from /\ special.is \in {"limit", "beyond"}
    \/ m \in l.past /\ special.is = "beyond"

\* What arrives in a member: the number before a 'c' is 0, for all ports there is a value, and a
\* word that is not known changes nothing.
Arrives(l, special, m) ==
  LET i == l.takes[m]
  IN IF m \in DOMAIN l.every
     THEN IF special = [arg |-> l.every[m], is |-> "all"] THEN <<"all">>
          ELSE IF special = [arg |-> i, is |-> "all"] THEN <<"zero">> ELSE Typed(special, i)
     ELSE IF special = [arg |-> i, is |-> "unknown"] THEN <<"kept">> ELSE Typed(special, i)

\* Where the frame goes; 0 for the managers and for what is no frame.
Target(to) == CASE to = "sg_sockfdid" -> {sock}
                [] to = "found" -> {FdAt(p) : p \in Places}
                [] OTHER -> {0}

TypeLine ==
  \E line \in DOMAIN Lines :
    LET l == Lines[line] IN
    \E special \in Specials(l) :
      IF Refused(l, special) THEN sent' = Nothing /\ UNCHANGED <<place, chosen>>
      ELSE LET where == IF l.moves # <<>> THEN l.moves ELSE place IN
           /\ place' = where
           /\ chosen' = IF l.moves # <<>> THEN [chosen EXCEPT !.place = NoPlace] ELSE chosen
           /\ \E fd \in Target(l.to) :
                sent' = [line |-> line, special |-> special, fd |-> fd,
                         at |-> IF l.here THEN where ELSE NoPlace,
                         members |-> [m \in DOMAIN l.takes |-> Arrives(l, special, m)]]

-----------------------------------------------------------------------------
(* Reference levels, typed by entry or taken from the answer of a device.  *)
(* Only where a value comes from is kept.                                  *)

Entry(by, port, on, level) == [by |-> by, port |-> port, on |-> on, level |-> level]
All == 1 .. Refs[refs.kind].all
Named == 1 .. Refs[refs.kind].named
Number(i) == (i - 1) % Refs[refs.kind].named       \* the port the program gives an entry

\* opm ref <port> <power> [levels]; the entry becomes the default, too.
RefType(i, levels) ==
  LET level == IF levels THEN "typed" ELSE refs.def
  IN /\ refs' = [refs EXCEPT !.list[i] = Entry("typed", Number(i), TRUE, level), !.def = level]
     /\ sent' = Nothing

\* opm ref level, if the levels are in order.
RefLevel == refs' = [refs EXCEPT !.def = "typed"] /\ sent' = Nothing

SendRefs(list, n) == sent' = [line |-> "refs", list |-> SubSeq(list, 1, n)]

\* opm ref clear sends some entries, olp ref clear all, in two frames, one step here.
RefClear ==
  LET list == [i \in All |-> Entry("cleared", Number(i), TRUE, "preset")]
  IN refs' = [refs EXCEPT !.list = list] /\ SendRefs(list, Refs[refs.kind].first)

RefEnable(i, on) == refs' = [refs EXCEPT !.list[i].on = on] /\ sent' = Nothing

\* opm ref go
RefGo == SendRefs(refs.list, Refs[refs.kind].named) /\ UNCHANGED refs

\* opm ref auto: tms_ReadOPMAuto, then the device is asked.
RefAuto == refs' = [refs EXCEPT !.auto = TRUE] /\ sent' = Nothing

\* tms_OnRetAnyOP, in the worker thread: the first answer of this kind, whoever sends it.  An
\* entry that is too weak is switched off, and not on again by a later answer.
tms_OnRetAnyOP ==
  \E n \in 0 .. Refs[refs.kind].named + 1, low \in 0 .. 1, weak \in BOOLEAN :
    /\ LET max == IF n > Refs[refs.kind].named THEN Refs[refs.kind].named ELSE n
           answered(i) == Entry("answered", low + i - 1, refs.list[i].on /\ ~weak, refs.def)
       IN refs' = IF refs.auto
                  THEN [refs EXCEPT !.auto = FALSE,
                          !.list = [i \in All |-> IF i <= max THEN answered(i) ELSE refs.list[i]]]
                  ELSE refs
    /\ sent' = Nothing

TypeLevels ==
  \/ RefLevel \/ RefClear \/ RefGo \/ RefAuto \/ tms_OnRetAnyOP
  \/ \E i \in Named, b \in BOOLEAN : RefType(i, b) \/ RefEnable(i, b)

-----------------------------------------------------------------------------
\* cmd_InitTmsxxEnv
cmd_InitTmsxxEnv(kind) ==
  /\ place = <<0, 0>> /\ sock = 0
  /\ conn = [c \in Connections |-> Off]
  /\ chosen = [conn |-> Nobody, place |-> NoPlace]
  /\ refs = [kind |-> kind, def |-> "preset", auto |-> FALSE,
             list |-> [i \in 1 .. Refs[kind].all |-> Entry("preset", (i - 1) % Refs[kind].named, TRUE, "preset")]]
  /\ sent = Nothing

\* A line is through before the next one is read; what it handed on is forgotten.
Through == sent # Nothing /\ sent' = Nothing

ShellNext ==
  \/ sent = Nothing /\ (Connects \/ Reports \/ Disconnects \/ Chooses)
  \/ sent = Nothing /\ TypeLine /\ UNCHANGED <<sock, conn, refs>>
  \/ Through /\ UNCHANGED <<place, sock, conn, chosen, refs>>

LevelsNext ==
  /\ \/ sent = Nothing /\ TypeLevels
     \/ Through /\ UNCHANGED refs
  /\ UNCHANGED <<place, sock, conn, chosen>>

ShellSpec ==
  /\ \E kind \in DOMAIN Refs : cmd_InitTmsxxEnv(kind)
  /\ [][ShellNext \/ LevelsNext]_shellVars

-----------------------------------------------------------------------------
(* Properties. *)

\* Lines that drop an argument or read another one for it, and lines that hand on more than
\* they were given a value for.
Misread == {"produce", "gver_cmd_dev", "olp_mode", "osw_cyc", "sms_msg", "oswp", "cfgolp", "cfgopmu", "clopmu", "atb_del_ab"}
Unset == {"opm_alarm_change", "olp_mode", "cfgolpm", "otdr_ref_go", "rtopma", "rdevc", "ack", "aopmc", "delete_composition",
  "insert_common", "insert_any_unit_osw", "insert_osw_cyc", "insert_osw_cyc_bak", "insert_otdr_rollcall",
  "insert_otdr_ref", "insert_otdr_his_data", "insert_otdr_alarm_data", "atb_del_ab"}
Widened == {"delete_composition", "delete_dev_map", "atb_del_ab"}

\* Lines that name a place to configure, or a switch to set.
Positions == {"opm_unit", "olp_unit", "olp_pos", "olp_pos_clear", "osw_pos", "osw_pos_clear", "oswsw", "olpsw"}
Positioned(line, name) == line \in Positions \/ <<line, name>> = <<"osw_sw", "port">>

\* A slot or port one past the last is accepted.
AtLimit == {"olp_pos", "olp_pos_clear", "osw_pos", "osw_pos_clear", "osw_sw"}

\* What the texts of the lines say: but for the exceptions each argument has the member of
\* its name, nothing else is handed on or asked for, and what names a position has a limit.
ASSUME LinesAssumption ==
  /\ {"none", "refs", "scan", "tconnect", "disp_update"} \cap DOMAIN Lines = {}
  /\ \A line \in DOMAIN Lines :
       LET l == Lines[line] IN
       /\ line \notin Misread => \A i \in DOMAIN l.usage :
            /\ l.usage[i] \in DOMAIN l.takes /\ l.takes[l.usage[i]] = i
            /\ l.every # <<>> /\ l.usage[i] \in {"port_a", "port_b"} => l.usage[i] \in DOMAIN l.every
            /\ l.usage[i] \in DOMAIN l.every =>
                 l.every[l.usage[i]] = i \/ <<line, l.usage[i]>> = <<"atb_add", "port_b">>
       /\ l.junk # {} => line \in Unset
       /\ l.mask # {} /\ line \notin Widened => l.mask = ToSet(l.usage)
       /\ \A i \in DOMAIN l.usage : Positioned(line, l.usage[i]) /\ l.usage[i] \in Ranged =>
            \E m \in DOMAIN l.takes : l.takes[m] = i /\
              \/ m \in l.from
              \/ m \in l.past /\ line \in AtLimit /\ l.usage[i] # "frame"

(* A line that is typed reaches the device the user chose last, for as     *)
(* long as it is connected, and names the place the user chose last unless *)
(* it was moved since, whatever devices came and went meanwhile.  Each of  *)
(* its arguments arrives in the member the usage names, nothing is handed  *)
(* on that was not typed, and a delete or a select asks for exactly what   *)
(* was typed; a position out of range is refused (cmd_opm to cmd_tmsall,   *)
(* cmd_select to cmd_atb).  Reference levels that are sent name their own  *)
(* port, unless they come from an answer.  Exceptions: the lines of        *)
(* Misread, Unset and Widened, AtLimit, the second 'c' of "atb add", and a  *)
(* word of "sms alarm" that is not known.                                  *)
SentAsTyped ==
  CASE sent.line = "refs" -> \A i \in DOMAIN sent.list :
           sent.list[i].by = "answered" \/ sent.list[i].port = Number(i)
    [] sent.line \in {"scan", "tconnect", "disp_update"} -> chosen.conn # Nobody => conn[chosen.conn].fd = sent.fd
    [] sent.line \in DOMAIN Lines ->
         LET l == Lines[sent.line]
             meant(i) == IF sent.special = [arg |-> i, is |-> "all"] THEN <<"all">> ELSE Typed(sent.special, i)
         IN /\ l.to = "sg_sockfdid" /\ chosen.conn # Nobody => sent.fd = conn[chosen.conn].fd
            /\ l.here /\ chosen.place # NoPlace => sent.at = chosen.place
            /\ sent.line \notin Misread => \A i \in DOMAIN l.usage :
                 \/ l.usage[i] \in DOMAIN sent.members /\ sent.members[l.usage[i]] = meant(i)
                 \/ sent.line = "atb_add" /\ l.usage[i] = "port_b" /\ sent.special.is = "all"
                 \/ sent.special = [arg |-> i, is |-> "unknown"]
            /\ l.junk # {} => sent.line \in Unset
            /\ l.mask # {} /\ sent.line \notin Widened => l.mask = ToSet(l.usage)
            /\ sent.special.is \in {"limit", "beyond"} /\ Positioned(sent.line, l.usage[sent.special.arg])
                 => sent.special.is = "limit" /\ sent.line \in AtLimit /\ l.usage[sent.special.arg] # "frame"
    [] OTHER -> TRUE
=============================================================================
