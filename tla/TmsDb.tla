------------------------------- MODULE TmsDb -------------------------------
(***************************************************************************)
(* src/tmsxxdb.c: a thread calls the functions of one table while another  *)
(* thread reads and writes the same file, that table and others: the shell *)
(* and the worker, which runs any line of the shell that it receives.      *)
(* Every function opens a connection, runs its statements one by one, each *)
(* of which the other's lock may refuse, and closes the connection.  A     *)
(* structure is its pattern of bits: a value is the member it comes from   *)
(* and one bit, so that a value in a wrong place shows; a row is its       *)
(* number and the pattern that was inserted.                               *)
(***************************************************************************)
EXTENDS TmsSchema, Sqlite, Sublists

CONSTANTS
    Functions,      \* the functions by their names: tmsxxdb of TmsSchema
    Tables,         \* the tables
    MaxRows,        \* bound: rows in a table
    MaxId           \* bound: numbers of rows

ASSUME DbAssumption ==
    /\ Tables \subseteq DOMAIN tmsdb_CheckDb
    /\ \A n \in DOMAIN Functions : Functions[n].table \in DOMAIN tmsdb_CheckDb
    /\ MaxRows \in Nat /\ MaxId \in Nat

VARIABLES
    focus,          \* the table the thread works on
    stored,         \* the tables' rows in the order of their numbers
    lock,           \* what the threads' connections hold
    call            \* the function that runs

vars == <<focus, stored, lock, call>>

Me == "caller"
Other == "other"

Idle == [step |-> "idle", fn |-> "", mask |-> {}, cond |-> <<0, 0>>, list |-> <<>>, next |-> 1,
         before |-> <<>>, rows |-> <<>>, found |-> <<>>, from |-> 0, limit |-> 0, answer |-> 0, refused |-> FALSE,
         disturbed |-> FALSE, ret |-> 0]

F == Functions[call.fn]
NULL == {"NULL"}
RefusedRet == -3

-----------------------------------------------------------------------------
(* Rows. *)

\* Structures of zeros, of ones, and of both in turn.
Patterns == {<<0, 0>>, <<1, 1>>, <<1, 0>>}

Position(x, seq) == CHOOSE i \in DOMAIN seq : seq[i] = x /\ \A j \in 1 .. i - 1 : seq[j] # x

\* The members that are inserted, by table.
Inserted == [t \in DOMAIN tmsdb_CheckDb |->
  Functions[CHOOSE n \in DOMAIN Functions : Functions[n].kind = "insert" /\ Functions[n].table = t].fields]

\* The part of the pattern that stands for a member: one end of a link, or in turn.
Part(t, m) == IF m \in ToSet(PortA) THEN 1 ELSE IF m \in ToSet(PortB) THEN 2
              ELSE 1 + (Position(m, Inserted[t]) % 2)

\* The member a column's value comes from, by table, and its part.
From(t, m) == <<m, Part(t, m)>>
Columns(t) == SelectSeq(tmsdb_CheckDb[t], LAMBDA c : c # "id")
Source == [t \in DOMAIN tmsdb_CheckDb |->
  [c \in ToSet(Columns(t)) |-> From(t, Inserted[t][Position(c, Columns(t))])]]

\* The value of member m of a structure.
Value(t, of, m) == <<m, of[Part(t, m)]>>

\* What a row holds in a column.
Cell(t, row, column) ==
  CASE column = "id" -> <<"id", row.id>>
    [] column = "none" -> <<"none", 0>>
    [] OTHER -> LET from == Source[t][column] IN <<from[1], row.of[from[2]]>>

\* "id integer primary key": one more than the largest.
\* Bug: one more than the number of rows.
NextIdOfCount(rows) == Len(rows) + 1
NextId(rows) == IF rows = <<>> THEN 1 ELSE Last(rows).id + 1

\* Bug: the conditions are joined by "or".
MeetsOne(f, row, mask, cond, id) ==
  \E m \in mask \cap DOMAIN f.where :
    Cell(f.table, row, f.where[m]) = IF m = "id" THEN <<"id", id>> ELSE Value(f.table, cond, m)

\* The text after "where": what the mask names of the structure cond and the row's number id.
Meets(f, row, mask, cond, id) ==
  /\ \A m \in mask \cap DOMAIN f.where :
       \/ \E h \in f.hidden : h[1] = m /\ h[2] \in mask
       \/ Cell(f.table, row, f.where[m]) = IF m = "id" THEN <<"id", id>> ELSE Value(f.table, cond, m)
  /\ "id>" \in mask => row.id > id

-----------------------------------------------------------------------------
(* How a function ends. *)

Return(r) == call' = [call EXCEPT !.step = "returned", !.ret = r]

Done == call.step = "returned" /\ call' = Idle /\ UNCHANGED <<focus, stored, lock>>

\* Bug: without "begin" every statement stands for itself.
TransactionNever == FALSE
Transaction == F.failed = "rollback"

\* The return value of COMMIT is not looked at; the connection is closed in any case.
Commit ==
  IF CanCommit(lock, Me)
  THEN /\ stored' = [stored EXCEPT ![focus] = call.rows]
       /\ lock' = With(lock, Me, "none") /\ Return(0)
  ELSE /\ lock' = With(lock, Me, "pending")
       /\ call' = [call EXCEPT !.step = "close", !.refused = TRUE] /\ UNCHANGED stored

Close ==
  /\ call.step = "close"
  /\ lock' = With(lock, Me, "none") /\ Return(0) /\ UNCHANGED <<focus, stored>>

-----------------------------------------------------------------------------
(* Inserting. *)

StartInsert(fn, list) == call' = [Idle EXCEPT !.step = "insert", !.fn = fn, !.list = list]

CallInsert ==
  /\ call.step = "idle"
  /\ \E fn \in DOMAIN Functions, list \in UNION {[1 .. n -> Patterns] : n \in 1 .. MaxRows} :
       /\ Functions[fn].kind = "insert" /\ Functions[fn].table = focus
       /\ Len(stored[focus]) + Len(list) <= MaxRows
       /\ NextId(stored[focus]) + Len(list) - 1 <= MaxId
       /\ StartInsert(fn, list)
  /\ UNCHANGED <<focus, stored, lock>>

\* The rows a transaction works on, and the table as the first statement found it.
Rows == IF call.next = 1 THEN stored[focus] ELSE call.rows
Begun == [call EXCEPT !.before = IF call.next = 1 THEN stored[focus] ELSE @]

Appended(rows) == Append(rows, [id |-> NextId(rows), of |-> call.list[call.next]])

\* A statement within BEGIN and COMMIT.
InTransaction(rows) ==
  IF CanReserve(lock, Me)
  THEN /\ lock' = With(lock, Me, "reserved")
       /\ call' = [Begun EXCEPT !.rows = rows, !.next = @ + 1]
  ELSE /\ lock' = With(lock, Me, "none")
       /\ call' = [Begun EXCEPT !.step = "returned", !.ret = -1, !.refused = TRUE]

\* A statement of its own.
InsertRow ==
  IF CanWrite(lock, Me)
  THEN /\ stored' = [stored EXCEPT ![focus] = Appended(@)]
       /\ call' = [Begun EXCEPT !.next = @ + 1]
  ELSE /\ call' = IF F.failed = "ignore" THEN [Begun EXCEPT !.next = @ + 1, !.refused = TRUE]
                  ELSE [Begun EXCEPT !.step = "returned", !.ret = -1, !.refused = TRUE]
       /\ UNCHANGED stored

Insert ==
  /\ call.step = "insert"
  /\ \/ call.next <= Len(call.list) /\ Transaction /\ InTransaction(Appended(Rows)) /\ UNCHANGED stored
     \/ call.next <= Len(call.list) /\ ~Transaction /\ InsertRow /\ UNCHANGED lock
     \/ call.next > Len(call.list) /\ Transaction /\ Commit
     \/ call.next > Len(call.list) /\ ~Transaction /\ Return(0) /\ UNCHANGED <<stored, lock>>
  /\ UNCHANGED focus

-----------------------------------------------------------------------------
(* Deleting. *)

\* A member a structure of this table has, as far as a mask may name it.
Members == [t \in DOMAIN tmsdb_CheckDb |->
  UNION {DOMAIN Functions[n].where : n \in {n \in DOMAIN Functions :
           Functions[n].kind # "insert" /\ Functions[n].table = t}}]

Masks(f) ==
  {NULL, {}} \cup {{m} : m \in Members[f.table]} \cup {{h[1], h[2]} : h \in f.hidden}
    \cup IF f.kind = "select" /\ f.more THEN {{"id>"}} ELSE {}

StartDelete(fn, mask, ids) ==
  call' = [Idle EXCEPT !.step = "delete", !.fn = fn, !.mask = mask, !.list = ids]

CallDelete ==
  /\ call.step = "idle"
  /\ \E fn \in DOMAIN Functions, ids \in {<<1>>, <<2>>, <<1, 2>>} :
       /\ Functions[fn].kind = "delete" /\ Functions[fn].table = focus
       /\ \E mask \in Masks(Functions[fn]) :
            /\ ids # <<1>> => mask = {"id"}
            /\ Len(ids) > 1 => focus = "route"
            /\ StartDelete(fn, mask, ids)
  /\ UNCHANGED <<focus, stored, lock>>

Remaining(rows, id) == Kept(rows, {i \in DOMAIN rows : ~Meets(F, rows[i], call.mask, call.cond, id)})

\* _tmsdb_Delete_any; its result is not passed on.
DeleteOnce(emptied) ==
  IF CanWrite(lock, Me)
  THEN /\ stored' = IF call.mask = NULL THEN [stored EXCEPT ![emptied] = <<>>]
                    ELSE [stored EXCEPT ![focus] = Remaining(@, call.list[1])]
       /\ call' = [Begun EXCEPT !.step = "returned"]
  ELSE call' = [Begun EXCEPT !.step = "returned", !.refused = TRUE] /\ UNCHANGED stored

\* No statement that deletes.
DeleteNone(r) == call' = [Begun EXCEPT !.step = "returned", !.ret = r] /\ UNCHANGED <<stored, lock>>

Delete ==
  /\ call.step = "delete"
  /\ \/ call.mask = NULL /\ F.null = "refused" /\ DeleteNone(RefusedRet)
     \/ call.mask = NULL /\ F.null = "nothing" /\ DeleteNone(0)
     \/ /\ call.mask = NULL /\ F.null \notin {"refused", "nothing"}
        /\ DeleteOnce(IF F.null = "all" THEN focus ELSE F.null) /\ UNCHANGED lock
     \/ call.mask # NULL /\ ~Transaction /\ DeleteOnce(focus) /\ UNCHANGED lock
     \/ /\ call.mask # NULL /\ Transaction /\ call.next <= Len(call.list)
        /\ InTransaction(Remaining(Rows, call.list[call.next])) /\ UNCHANGED stored
     \/ call.mask # NULL /\ Transaction /\ call.next > Len(call.list) /\ Commit
  /\ UNCHANGED focus

-----------------------------------------------------------------------------
(* Selecting. *)

Selecting(fn, mask, cond) ==
  [Idle EXCEPT !.step = "select", !.fn = fn, !.mask = mask, !.cond = cond, !.list = <<1>>]

StartSelect(fn, mask, cond, limit, answer) ==
  call' = [Selecting(fn, mask, cond) EXCEPT !.limit = limit, !.answer = answer]

\* Rows from a place on, of those whose number is larger if the mask says so.
StartPage(fn, mask, cond, id, from, limit) ==
  call' = [Selecting(fn, mask, cond) EXCEPT !.list = <<id>>, !.from = from, !.limit = limit]

CallSelect ==
  /\ call.step = "idle"
  /\ \E fn \in DOMAIN Functions, limit \in 1 .. 2, answer \in {0, -1, 1} :
       /\ Functions[fn].kind = "select" /\ Functions[fn].table = focus
       /\ Functions[fn].into # "page" => limit = 2
       /\ Functions[fn].into = "array" => answer = 0
       /\ \E mask \in Masks(Functions[fn]) :
            \/ StartSelect(fn, mask, <<0, 0>>, limit, answer)
            \/ Functions[fn].into = "page" /\ answer = 0 /\ StartPage(fn, mask, <<0, 0>>, 1, 1, limit)
  /\ UNCHANGED <<focus, stored, lock>>

\* The structure a row is read into.
Filled(row) ==
  LET reads == IF call.mask = NULL /\ F.null = "shifted" THEN Shifted ELSE F.reads
  IN [m \in DOMAIN reads |-> Cell(F.table, row, reads[m])]

\* Of the rows that meet the conditions those that are passed on.
\* Bug: the row that the page begins at is not among them.
PageBehind(rows) ==
  LET most == IF call.answer # 0 THEN 1 ELSE IF F.into = "page" THEN call.limit ELSE Len(rows)
      last == call.from + most
  IN SubSeq(rows, call.from + 2, IF last < Len(rows) THEN last ELSE Len(rows))
Page(rows) ==
  LET most == IF call.answer # 0 THEN 1 ELSE IF F.into = "page" THEN call.limit ELSE Len(rows)
      last == call.from + most
  IN SubSeq(rows, call.from + 1, IF last < Len(rows) THEN last ELSE Len(rows))

Hits ==
  LET rows == stored[F.table]
  IN Page(Kept(rows, {i \in DOMAIN rows : call.mask = NULL \/ Meets(F, rows[i], call.mask, call.cond, call.list[1])}))

\* What a function that selects returns; the callback's -1 only ends the search.
Result(found) ==
  IF found = <<>> THEN IF F.table = "sn" THEN 0 ELSE -2
  ELSE IF F.into = "array" THEN Len(found) ELSE IF call.answer = -1 THEN 0 ELSE call.answer

Prepared == F.text = "sound" /\ (call.mask = NULL => F.null # "no table")

Select ==
  /\ call.step = "select"
  /\ \/ call.mask = NULL /\ F.null = "refused" /\ Return(RefusedRet) /\ UNCHANGED lock
     \/ /\ ~(call.mask = NULL /\ F.null = "refused") /\ Prepared /\ ~CanRead(lock, Me)
        /\ call' = [call EXCEPT !.step = "returned", !.ret = Result(<<>>), !.refused = TRUE] /\ UNCHANGED lock
     \/ /\ ~(call.mask = NULL /\ F.null = "refused") /\ ~Prepared
        /\ Return(Result(<<>>)) /\ UNCHANGED lock
     \/ /\ ~(call.mask = NULL /\ F.null = "refused") /\ Prepared /\ CanRead(lock, Me)
        /\ lock' = With(lock, Me, "shared")
        /\ call' = [call EXCEPT !.step = "found", !.found = Hits]
  /\ UNCHANGED <<focus, stored>>

\* The rows have been copied or the callbacks are through.
Finalize ==
  /\ call.step = "found"
  /\ lock' = With(lock, Me, "none") /\ Return(Result(call.found)) /\ UNCHANGED <<focus, stored>>

-----------------------------------------------------------------------------
(* The other thread. *)

\* Its locks on the file, whatever table it reads or writes.
OtherReads == lock[Other] = "none" /\ CanRead(lock, Other) /\ lock' = With(lock, Other, "shared")
OtherReserves == lock[Other] = "none" /\ CanReserve(lock, Other) /\ lock' = With(lock, Other, "reserved")
OtherCommits ==
  /\ lock[Other] = "reserved"
  /\ lock' = With(lock, Other, IF CanCommit(lock, Other) THEN "none" ELSE "pending")
OtherCloses == lock[Other] # "none" /\ lock' = With(lock, Other, "none")

OtherLocks == OtherReads \/ OtherReserves \/ OtherCommits \/ OtherCloses

\* The table with a list of structures stored behind its rows.
WithAll(rows, list) ==
  rows \o [i \in DOMAIN list |-> [id |-> NextId(rows) + i - 1, of |-> list[i]]]

\* What it makes of the table: rows go, or new ones are stored.
OtherRows(rows) ==
  {Kept(rows, left) : left \in SUBSET DOMAIN rows} \cup
  {WithAll(rows, list) : list \in {list \in UNION {[1 .. n -> Patterns] : n \in 1 .. MaxRows} :
     Len(rows) + Len(list) <= MaxRows /\ NextId(rows) + Len(list) - 1 <= MaxId}}

\* A call that has begun, or returned, finds the table changed.
Disturb(c) == [c EXCEPT !.disturbed = @ \/ c.next > 1 \/ c.step = "returned"]

\* A statement of its own, or the end of a transaction.
OtherWrites ==
  /\ lock[Other] \in {"none", "reserved"} /\ CanWrite(lock, Other)
  /\ lock' = With(lock, Other, "none")
  /\ \E rows \in OtherRows(stored[focus]) \ {stored[focus]} : stored' = [stored EXCEPT ![focus] = rows]
  /\ call' = Disturb(call)

\* Bound: of the other tables only the locks are followed.
OtherStep ==
  /\ OtherWrites \/ (OtherLocks /\ UNCHANGED <<stored, call>>)
  /\ UNCHANGED focus

\* Every other table holds one row.
Init ==
  /\ focus \in Tables
  /\ stored = [t \in DOMAIN tmsdb_CheckDb |-> IF t = focus THEN <<>> ELSE <<[id |-> 1, of |-> <<0, 0>>]>>]
  /\ lock = [t \in {Me, Other} |-> "none"]
  /\ call = Idle

Next == CallInsert \/ Insert \/ CallDelete \/ Delete \/ CallSelect \/ Select \/ Finalize \/ Close
        \/ Done \/ OtherStep

Spec == Init /\ [][Next]_vars

-----------------------------------------------------------------------------
(* Properties. *)

Numbered(rows) == \A i \in 1 .. Len(rows) - 1 : rows[i].id < rows[i + 1].id

Returned(kind) == call.step = "returned" /\ F.kind = kind

\* Tables whose writers report nothing, and those whose writers use a transaction.
Silent == {"common", "dev_map", "otdr_rollcall", "otdr_ref", "otdr_his_data", "otdr_alarm_data"}
AllOrNothing == {"route", "a_trigger_b"}

\* Members whose column is not written, or not read.
NotReadBack == [t \in DOMAIN tmsdb_CheckDb |->
  CASE t = "otdr_rollcall" -> {"reserve1", "reserve2"} [] t = "otdr_alarm_data" -> {"alarm_time"}
    [] OTHER -> {}]

\* Members that a function that selects does not compare: those the text leaves out, and
\* those whose conditions others take the place of.
LeftOut(t) == IF t = "any_unit_osw" THEN {"id", "osw_frame"} ELSE {}
Replaced(t, mask) == IF t = "otdr_alarm_data" THEN {h[1] : h \in {h \in Instead : h[2] \in mask}} ELSE {}
NotCompared(t, mask) == LeftOut(t) \cup Replaced(t, mask)

\* A member is found in the column that it was stored in.
InItsColumn(t, column, m) ==
  IF m = "id" THEN column = "id" ELSE column \notin {"id", "none"} /\ Source[t][column] = From(t, m)

\* What the properties below take from the statements' texts: which functions use a
\* transaction and which go on after an error, what they do without a condition, which
\* members they compare, and that they compare and read a member in its column.
ASSUME SchemaAssumption ==
  \A n \in DOMAIN Functions : LET f == Functions[n] IN
    /\ f.kind \in {"insert", "delete", "select"}
    /\ f.kind = "insert" => /\ f.failed = "rollback" <=> f.table \in AllOrNothing
                            /\ f.failed = "ignore" <=> f.table \in Silent
    /\ f.kind = "delete" =>
         /\ f.hidden = {} /\ Members[f.table] \subseteq DOMAIN f.where
         /\ f.table = "route" => f.failed = "rollback"
         /\ f.null = "all" \/ f.table \in {"route"} \cup Silent
         /\ f.null \in {"refused", "nothing", "all"} \/ (f.table = "dev_map" /\ f.null = "composition")
    /\ f.kind = "select" =>
         /\ Members[f.table] \subseteq DOMAIN f.where \cup LeftOut(f.table)
         /\ LeftOut(f.table) \cap DOMAIN f.where = {}
         /\ f.table # "otdr_his_data" => f.hidden = IF f.table = "otdr_alarm_data" THEN Instead ELSE {}
         /\ \A h \in f.hidden : {h[1], h[2]} \subseteq DOMAIN f.where
         /\ f.null = "shifted" => f.table = "a_trigger_b"
         /\ \A m \in DOMAIN f.reads \ NotReadBack[f.table] : InItsColumn(f.table, f.reads[m], m)
    /\ f.kind \in {"delete", "select"} =>
         /\ {"NULL", "id>"} \cap DOMAIN f.where = {}
         /\ \A m \in DOMAIN f.where : InItsColumn(f.table, f.where[m], m)

(* tmsdb_Insert_...: with no lock refused, every structure is stored, in   *)
(* order.  Otherwise the lists of lines and of triggers are stored whole   *)
(* or not at all, of other lists a beginning is, and -1 says that          *)
(* something is missing, except for the tables of Silent, of which rows    *)
(* may be missing anywhere, and for a COMMIT that was refused.  The rows   *)
(* keep numbers of their own, and the function leaves no lock on the file  *)
(* behind.  Exceptions: what the other thread stores or takes away between *)
(* two statements, never within a transaction, or when they are through.   *)
StoredAsAsked ==
  Returned("insert") =>
    LET old == Len(call.before)
        now == stored[focus]
        added == [i \in 1 .. Len(now) - old |-> now[old + i].of]
    IN /\ Numbered(now) /\ lock[Me] = "none"
       /\ ~call.disturbed =>
            /\ SubSeq(now, 1, old) = call.before
            /\ ~call.refused => added = call.list /\ call.ret = 0
            /\ focus \in AllOrNothing => added \in {<<>>, call.list} /\ (call.ret = -1 => added = <<>>)
            /\ focus \notin AllOrNothing \cup Silent =>
                 IsPrefix(added, call.list) /\ (call.ret = 0 <=> added = call.list)
            /\ focus \in Silent => \E place \in [DOMAIN added -> DOMAIN call.list] :
                 /\ \A i, j \in DOMAIN added : i < j => place[i] < place[j]
                 /\ \A i \in DOMAIN added : added[i] = call.list[place[i]]

-----------------------------------------------------------------------------
(* What is asked for, and the cases in which a function does not do it.    *)

Asked(mask, row, id) ==
  /\ \A m \in mask \ {"id>", "NULL"} :
       IF m = "id" THEN row.id = id ELSE Value(focus, row.of, m) = Value(focus, call.cond, m)
  /\ "id>" \in mask => row.id > id

(* tmsdb_Delete_...: the rows that meet every condition go, all of them    *)
(* without a condition, and no others, here or elsewhere; a list of        *)
(* conditions on lines is met whole or not at all.  Exceptions: without a  *)
(* condition the table of names is left and the composition emptied, the   *)
(* lines are left, and some tables refuse; names are matched by place; and *)
(* what the other thread stores or takes away when the rows are gone.      *)
DeletedAsAsked ==
  Returned("delete") =>
    LET gone(row) == call.mask = NULL \/ \E i \in DOMAIN call.list : Asked(call.mask, row, call.list[i])
        left == Kept(call.before, {i \in DOMAIN call.before : ~gone(call.before[i])})
        others == DOMAIN stored \ ({focus} \cup IF focus = "dev_map" THEN {"composition"} ELSE {})
    IN /\ ~call.disturbed =>
            /\ stored[focus] \in {call.before, left}
            /\ ~call.refused /\ ~(call.mask = NULL /\ focus \in {"route"} \cup Silent)
                 => stored[focus] = left
       /\ \A t \in others : Len(stored[t]) = 1

\* Calls that find nothing, or nothing as it is.
NeverFinds ==
  \/ focus = "otdr_his_data"
  \/ call.mask = NULL /\ focus \in Silent \cup {"osw_cyc", "osw_cyc_bak", "a_trigger_b"}

(* tmsdb_Select_...: what a function finds is what was stored and meets    *)
(* every condition, all of it up to the page's length or the callback's    *)
(* end, in order, with every member where it was.  Exceptions: the members *)
(* of NotReadBack and NotCompared and the calls of NeverFinds.             *)
FoundAsStored ==
  call.step = "found" /\ ~NeverFinds =>
    LET rows == stored[focus]
        asked == Kept(rows, {i \in DOMAIN rows :
                               Asked(call.mask \ NotCompared(focus, call.mask), rows[i], call.list[1])})
    IN /\ call.found = SubSeq(asked, call.from + 1, call.from + Len(call.found))
       /\ Len(call.found) = Len(asked) \/ call.answer # 0 \/ F.into = "page"
       /\ Len(asked) > call.from => call.found # <<>>
       /\ \A i \in DOMAIN call.found : LET out == Filled(call.found[i]) IN
            \A m \in DOMAIN out \ NotReadBack[focus] :
              out[m] = IF m = "id" THEN <<"id", call.found[i].id>> ELSE Value(focus, call.found[i].of, m)
=============================================================================
