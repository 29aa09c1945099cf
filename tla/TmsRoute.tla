------------------------------ MODULE TmsRoute ------------------------------
(***************************************************************************)
(* The command "route" (src/shell/cmd/cmd_tmsxx.c) on the table of lines.  *)
(* A line leads from the outside (0) through modules back to the outside;  *)
(* it is stored link by link, a link being a pair <<a, b>>.  A line is put *)
(* together in sg_route, checked and stored, or one that is looked up link *)
(* by link is taken away.  Two threads do so on the same sg_route and the  *)
(* same table, with no lock between a check, or a look, and what follows:  *)
(* the shell, and the worker, which runs the lines of the shell that it    *)
(* receives.  The actions are those of the thread whose turn it is; the    *)
(* turns change before any step.  The older command "insert tb_route"      *)
(* works on the same sg_route.  Lines, and the triggers of the command     *)
(* "atb", are listed page by page.                                         *)
(***************************************************************************)
EXTENDS TmsDb

CONSTANTS
    Modules,        \* frame, slot, type and port of the modules
    MAX_ROUTE_NODE, \* room in sg_route and in a line that is looked up
    PageLength,     \* rows on a page of a list
    MaxLinks,       \* bound: links in the table
    MaxLinkId       \* bound: their numbers

ASSUME RouteAssumption ==
    /\ Modules \subseteq Nat \ {0}
    /\ MAX_ROUTE_NODE \in Nat \ {0, 1} /\ PageLength \in Nat \ {0} /\ MaxLinks \in Nat /\ MaxLinkId \in Nat

\* The functions of the table that the command uses.
ASSUME RouteFunctions ==
    /\ {"tmsdb_Insert_route", "tmsdb_Delete_route", "tmsdb_Select_Page_route"} \subseteq DOMAIN Functions
    /\ Functions["tmsdb_Insert_route"].kind = "insert" /\ Functions["tmsdb_Insert_route"].table = "route"
    /\ Functions["tmsdb_Delete_route"].kind = "delete" /\ Functions["tmsdb_Delete_route"].table = "route"
    /\ "id" \in DOMAIN Functions["tmsdb_Delete_route"].where
    /\ Functions["tmsdb_Select_Page_route"].kind = "select" /\ Functions["tmsdb_Select_Page_route"].table = "route"

VARIABLES
    sg_route,       \* the line that is put together, the entry at sg_route_index last
    user,           \* the command that runs
    away,           \* the other thread's command and the function it has called
    excused,        \* a command met a case in which lines are torn
    raced,          \* a thread changed what the other had checked or looked up
    paged           \* the numbers listed since the first page, where it began, where the list
                    \* has got to, and the rows stored behind it and while a page is read

routeVars == <<sg_route, user, away, excused, raced, paged>>

Ready == [cmd |-> "none", nodes |-> <<>>]
Outside == 0
Nowhere == -1       \* a place that no link leads to

Links == stored["route"]
\* Bound: of a torn table nothing is asked.
Asking == user = Ready /\ call.step = "idle" /\ ~excused /\ ~raced
Quiet == UNCHANGED <<focus, stored, lock, call>>
Apart == UNCHANGED <<away, raced>>

-----------------------------------------------------------------------------
(* Putting a line together. *)

\* A call that stores reads the array row by row, each when its turn comes.
Reread(c) ==
  IF c.step = "insert"
  THEN [c EXCEPT !.list = [i \in DOMAIN @ |-> IF c.next <= i /\ i \in DOMAIN sg_route' THEN sg_route'[i] ELSE @[i]]]
  ELSE c

\* The other thread may have checked the line, or be storing it.
Edits ==
  /\ user = Ready /\ UNCHANGED <<user, excused, paged>> /\ Quiet
  /\ away' = [away EXCEPT !.call = Reread(@)]
  /\ raced' = (raced \/ away' # away \/ (away.user.cmd = "save" /\ sg_route' # sg_route))

\* The index goes back to the first entry.
RouteNew == sg_route' = << sg_route[1] >> /\ Edits

\* The end of the entry before the one the index is at.
Reached == sg_route[Len(sg_route) - 1][2]

\* The next module; the line is closed behind it.  A full list is not refused
\* by the code but overrun, and left alone here.
RouteAdd ==
  /\ Len(sg_route) < MAX_ROUTE_NODE
  /\ \E n \in Modules :
       sg_route' = IF Len(sg_route) = 1 THEN << <<sg_route[1][1], n>>, <<n, Outside>> >>
                   ELSE Front(sg_route) \o << <<Reached, n>>, <<n, Outside>> >>
  /\ Edits

\* What an entry that is not set yet may hold from before (bound: one module, or none).
Stale == {<<n, n>> : n \in Modules \cup {Outside}}

\* "insert tb_route hdr"
InsertHdr == \E n \in Modules, e \in Stale : sg_route' = << <<sg_route[1][1], n>>, e>>

\* "insert tb_route add"; the first module goes where hdr puts it.  The line is not closed.
InsertAdd ==
  /\ Len(sg_route) < MAX_ROUTE_NODE
  /\ IF Len(sg_route) = 1 THEN InsertHdr
     ELSE \E n \in Modules, e \in Stale : sg_route' = Front(sg_route) \o << <<Reached, n>>, e>>

\* "insert tb_route tail": where the last entry begins; the index stays.
InsertTail ==
  \E n \in Modules \cup {Outside} : sg_route' = Front(sg_route) \o << <<n, Last(sg_route)[2]>> >>

\* "insert tb_route go" and "list", and "route list", only show the line.
cmd_insertRoute ==
  /\ InsertHdr \/ InsertAdd \/ InsertTail
  /\ Edits

-----------------------------------------------------------------------------
(* Checking and storing it. *)

\* What does not need the table.
tmsdb_Check_route_oneline(pval) ==
  CASE Len(pval) < 2 -> -1
    [] pval[1][1] # Outside \/ Last(pval)[2] # Outside -> -2
    [] \E i \in 1 .. Len(pval) - 1 : pval[i][2] # pval[i + 1][1] -> -3
    [] \E i, j \in DOMAIN pval : i < j /\ pval[i][2] = pval[j][2] -> -4
    [] OTHER -> 0

\* The first module, and only that, is looked up among the ends of all links.
RouteGo ==
  /\ Asking
  /\ tmsdb_Check_route_oneline(sg_route) = 0
  /\ \E cmd \in {"go", "save"} :
       /\ cmd = "save" => /\ Len(Links) + Len(sg_route) <= MaxLinks
                          /\ NextId(Links) + Len(sg_route) - 1 <= MaxLinkId
       /\ user' = [Ready EXCEPT !.cmd = cmd]
  /\ StartSelect("tmsdb_Select_Page_route", ToSet(PortB), sg_route[1], 1, 0)
  /\ UNCHANGED <<sg_route, excused, paged, focus, stored, lock>> /\ Apart

\* "route go" sends the line to the device, "route go save" stores it.
RouteChecked ==
  /\ user.cmd \in {"go", "save"} /\ call.step = "returned"
  /\ IF user.cmd = "save" /\ call.found = <<>>
     THEN StartInsert("tmsdb_Insert_route", sg_route) /\ user' = [user EXCEPT !.cmd = "write"]
     ELSE call' = Idle /\ user' = Ready
  /\ UNCHANGED <<sg_route, excused, paged, focus, stored, lock>> /\ Apart

-----------------------------------------------------------------------------
(* Looking a line up: link by link, each the first in the table that       *)
(* begins where the last one ends, while the first statement is still open *)

\* Of the rows at these places the first in the table.
First(places) == Links[CHOOSE i \in places : \A j \in places : i <= j]

\* The first link: one that begins at the module in front, when one is named there,
\* and else one that leads to n, or any.
LookUp(cmd, front, n) ==
  LET met == {i \in DOMAIN Links : IF front # Outside THEN Links[i].of[1] = front
                                   ELSE n = Outside \/ Links[i].of[2] = n}
  IN IF CanRead(lock, Me) /\ met # {}
     THEN /\ user' = [cmd |-> cmd, nodes |-> <<First(met)>>]
          /\ lock' = With(lock, Me, "shared")
     ELSE UNCHANGED <<user, lock>>

\* "route del" never assigns the module in front; "route list detail" only shows the line.
DispOneRoute(n) == LookUp("detail", Outside, n)
cmd_routeDel(junk, n) == LookUp("del", junk, n)

RouteLookUp ==
  /\ Asking
  /\ \E n \in Modules \cup {Outside, Nowhere} :
       DispOneRoute(n) \/ \E junk \in {Outside} \cup Modules : cmd_routeDel(junk, n)
  /\ UNCHANGED <<sg_route, excused, paged, focus, stored, call>> /\ Apart

Ended == Last(user.nodes).of[2] = Outside \/ Len(user.nodes) = MAX_ROUTE_NODE

Following == {i \in DOMAIN Links : Links[i].of[1] = Last(user.nodes).of[2]}

RouteFollow ==
  /\ user.cmd \in {"del", "detail"} /\ ~Ended
  /\ CanRead(lock, Me) /\ Following # {}
  /\ user' = [user EXCEPT !.nodes = Append(@, First(Following))]
  /\ UNCHANGED <<sg_route, excused, paged, focus, stored, lock, call>> /\ Apart

\* No further link, because there is none or because the table is locked.
RouteFound ==
  /\ user.cmd \in {"del", "detail"}
  /\ Ended \/ ~CanRead(lock, Me) \/ Following = {}
  /\ lock' = With(lock, Me, "none")
  /\ excused' = (excused \/ (user.cmd = "del" /\ {Head(user.nodes).of[1], Last(user.nodes).of[2]} # {Outside}))
  /\ IF user.cmd = "del"
     THEN /\ StartDelete("tmsdb_Delete_route", {"id"}, [i \in DOMAIN user.nodes |-> user.nodes[i].id])
          /\ user' = [Ready EXCEPT !.cmd = "write"]
     ELSE user' = Ready /\ UNCHANGED call
  /\ UNCHANGED <<sg_route, paged, focus, stored>> /\ Apart

\* "route del all": no condition; the device is told to do the same.
RouteDelAll ==
  /\ user = Ready /\ call.step = "idle"
  /\ StartDelete("tmsdb_Delete_route", {}, <<1>>) /\ user' = [Ready EXCEPT !.cmd = "write"]
  /\ UNCHANGED <<sg_route, excused, paged, focus, stored, lock>> /\ Apart

RouteWritten ==
  /\ user.cmd = "write" /\ call.step = "returned"
  /\ call' = Idle /\ user' = Ready /\ excused' = (excused /\ Links # <<>>)
  /\ UNCHANGED <<sg_route, paged, focus, stored, lock>> /\ Apart

-----------------------------------------------------------------------------
(* The functions of the table, and the other thread. *)

\* The numbers of the rows that are new.
New == {r.id : r \in ToSet(stored'[focus]) \ ToSet(stored[focus])}

Listing == {user.cmd, away.user.cmd} \cap {"page", "next"} # {}

\* Rows stored behind what is listed, or while a page is read.
Noted == [paged EXCEPT !.fresh = @ \cup {id \in New : id <= paged.last},
                       !.late = IF Listing THEN @ \cup New ELSE @]

ById(rows, ids) == {r \in ToSet(rows) : r.id \in ToSet(ids)}

\* Rows that have been looked up to be deleted.
LookedUp(c) == c.step = "delete" /\ c.next = 1 /\ "id" \in c.mask

\* What a statement makes of the table, the other thread's functions find.
CallStep ==
  /\ Insert \/ Delete \/ Select \/ Finalize \/ Close
  /\ paged' = Noted
  /\ away' = IF stored' = stored THEN away ELSE [away EXCEPT !.call = Disturb(@)]
  /\ raced' = (raced \/ (LookedUp(away.call)
                          /\ ById(stored'[focus], away.call.list) # ById(stored[focus], away.call.list)))
  /\ UNCHANGED <<sg_route, user, excused>>

\* The other thread's turn comes; what it does elsewhere in the file is over.
Switch ==
  /\ away.user = Ready => lock[Other] = "none"
  /\ call' = away.call /\ user' = away.user /\ away' = [call |-> call, user |-> user]
  /\ lock' = [t \in DOMAIN lock |-> lock[IF t = Me THEN Other ELSE Me]]
  /\ UNCHANGED <<sg_route, excused, raced, paged, focus, stored>>

\* The other thread on other tables.
Elsewhere ==
  /\ away.user = Ready /\ OtherLocks
  /\ UNCHANGED <<focus, stored, call, routeVars>>

-----------------------------------------------------------------------------
(* Lists: "route list page" shows the first links of lines, "atb list page"*)
(* triggers.                                                               *)

cmd_routePage == [fn |-> "tmsdb_Select_Page_route", mask |-> {"frame_a", "slot_a", "type_a"}]
cmd_atbPage == [fn |-> "tmsdb_Select_Page_a_trigger_b", mask |-> {}]

\* The functions that these lists use.
ASSUME ListFunctions ==
  \A page \in {cmd_routePage, cmd_atbPage} :
    /\ page.fn \in DOMAIN Functions
    /\ LET f == Functions[page.fn]
       IN /\ f.kind = "select" /\ f.into = "page" /\ page.mask \subseteq DOMAIN f.where
          /\ f.table = IF page = cmd_routePage THEN "route" ELSE "a_trigger_b"

PageOf(cmd, id, from) ==
  LET page == IF focus = "route" THEN cmd_routePage ELSE cmd_atbPage
      mask == IF cmd = "next" THEN page.mask \cup {"id>"} ELSE page.mask
  IN /\ user' = [Ready EXCEPT !.cmd = cmd]
     /\ StartPage(page.fn, mask, <<Outside, Outside>>, id, from, PageLength)

\* Bug: the next page begins after as many rows as have been listed.
ListPageByCount ==
  /\ Asking
  /\ (\E from \in 0 .. 1 : PageOf("page", 0, from)) \/ PageOf("next", 0, Len(paged.seen))
  /\ UNCHANGED <<sg_route, excused, paged, focus, stored, lock>> /\ Apart

\* From a row on, or "n": after the number listed last (bound: one thread lists at a time).
ListPage ==
  /\ Asking /\ away.user.cmd \notin {"page", "next"}
  /\ (\E from \in 0 .. 1 : PageOf("page", 0, from)) \/ PageOf("next", paged.last, 0)
  /\ UNCHANGED <<sg_route, excused, paged, focus, stored, lock>> /\ Apart

Unlisted == [last |-> 0, from |-> 1, seen |-> <<>>, fresh |-> {}, late |-> {}]

\* The callback keeps the number of each row that is shown.
_cb_Select_route_page_brief(list, rows) ==
  [list EXCEPT !.last = Last(rows).id, !.seen = @ \o [i \in DOMAIN rows |-> rows[i].id]]

ListShown ==
  /\ user.cmd \in {"page", "next"} /\ call.step = "returned"
  /\ LET begun == IF user.cmd = "next" THEN [paged EXCEPT !.fresh = @ \cup paged.late]
                  ELSE [Unlisted EXCEPT !.from = Head(call.found).id, !.fresh = paged.late]
         shown == IF call.found = <<>> THEN paged ELSE _cb_Select_route_page_brief(begun, call.found)
     IN paged' = [shown EXCEPT !.late = {}]
  /\ call' = Idle /\ user' = Ready
  /\ UNCHANGED <<sg_route, excused, focus, stored, lock>> /\ Apart

-----------------------------------------------------------------------------
RouteInit(torn) ==
  /\ sg_route = << <<Outside, Outside>> >> /\ user = Ready /\ away = [call |-> Idle, user |-> Ready]
  /\ excused = torn /\ raced = FALSE /\ paged = Unlisted

\* A thread's commands, and the functions of the table that they call.
RouteNext ==
  \/ RouteNew \/ RouteAdd \/ RouteGo \/ RouteChecked
  \/ RouteLookUp \/ RouteFollow \/ RouteFound \/ RouteDelAll \/ RouteWritten
  \/ CallStep

\* On the table of lines, with the lists and the older command.
RouteSpec ==
  /\ Init /\ focus = "route" /\ RouteInit(FALSE)
  /\ [][RouteNext \/ cmd_insertRoute \/ ListPage \/ ListShown \/ Switch \/ Elsewhere]_<<vars, routeVars>>

\* Triggers are stored and deleted between two pages of their list, by the other thread
\* also while a page is read.
TriggerNext ==
  \/ user = Ready /\ (CallInsert \/ CallDelete) /\ UNCHANGED routeVars
  \/ CallStep
  \/ user = Ready /\ Done /\ UNCHANGED routeVars
  \/ OtherStep /\ paged' = Noted /\ UNCHANGED <<sg_route, user, away, excused, raced>>

\* On the table of triggers, with their list.
TriggerSpec ==
  /\ Init /\ focus = "a_trigger_b" /\ RouteInit(FALSE)
  /\ [][TriggerNext \/ ListPage \/ ListShown]_<<vars, routeVars>>

-----------------------------------------------------------------------------
(* At any time as many links end at a module as begin there: no line is    *)
(* stored or taken away in part, even when lines share modules and two     *)
(* threads store and take away lines, so that a line that is looked up at  *)
(* its first module always leads back to the outside (cmd_route,           *)
(* tmsdb_Check_route_oneline, tmsdb_Select_oneline, tmsdb_Insert_route,    *)
(* tmsdb_Delete_route).  Exceptions: a line taken away from a link in its  *)
(* middle on, and one of which a link could not be read; a line that the   *)
(* other thread edits between its check and the end of its storing, and    *)
(* one whose links it takes away, or stores anew, between the look and the *)
(* deletion.                                                               *)
LinesWhole ==
  ~excused /\ ~raced =>
    \A n \in Modules : Cardinality({r \in ToSet(Links) : r.of[2] = n})
                         = Cardinality({r \in ToSet(Links) : r.of[1] = n})

(* "Check that it is valid", says the code before it stores a line: that   *)
(* what it stores is the line it checked, and what it takes away the one   *)
(* it looked up, whatever the other thread does meanwhile.                 *)
CheckedHolds ==
  ~excused =>
    \A n \in Modules : Cardinality({r \in ToSet(Links) : r.of[2] = n})
                         = Cardinality({r \in ToSet(Links) : r.of[1] = n})

(* Page by page, from the one on that was asked for by number, a list      *)
(* shows every line, or trigger, whose number lies between the first and   *)
(* the last that were shown, and shows it once, though others are taken    *)
(* away meanwhile (cmd_route, cmd_atb, tmsdb_Select_Page_route).           *)
(* Exception: rows stored meanwhile, which may get a number anew.          *)
ListedWhole ==
  user = Ready /\ call.step = "idle" =>
    /\ \A r \in ToSet(stored[focus]) :
         \/ r.id \notin paged.from .. paged.last \/ r.id \in ToSet(paged.seen) \cup paged.fresh
         \/ focus = "route" /\ r.of[1] # Outside
    /\ IsInjective(paged.seen)
=============================================================================
