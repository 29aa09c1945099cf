----------------------------- MODULE MCTmsShell -----------------------------
EXTENDS TmsRoute, TmsShell, TmsApp, GlinkSend, ListFile

CONSTANT Subjects

VARIABLE subject    \* bound: what the user works on

mcVars == <<vars, routeVars, shellVars, appVars, sendVars, fileVars, subject>>

MCTables == DOMAIN tmsdb_CheckDb
MCPlaces == {<<0, 1>>, <<0, 2>>}
\* Fewer entries than the code has: 8, 8 and 3, and 6, 3 and 6.
MCRefs == [opm |-> [all |-> 3, named |-> 3, first |-> 1], olp |-> [all |-> 4, named |-> 2, first |-> 4]]

MCAnswers == [t1 |-> <<2, 1>>, t2 |-> <<0, 2>>]

MCFiles == UNION {[1 .. n -> {"char", "line feed"}] : n \in 0 .. 7}

MCInit ==
  /\ subject \in Subjects
  /\ Init /\ AppInit /\ SendInit /\ FileInit /\ RouteInit(subject = "tables")
  /\ \E kind \in IF subject = "levels" THEN DOMAIN Refs ELSE {"opm"} : cmd_InitTmsxxEnv(kind)
  /\ subject # "tables" => focus \in {"route"} \cup (IF subject = "lists" THEN {"a_trigger_b"} ELSE {})

\* Bound: what the other thread writes before a call has begun the thread could have written
\* before it, and what it writes twice within a call it could have written at once.
OtherWrote == stored' # stored /\ call'.step = call.step /\ call'.next = call.next

\* Bound: a line begins to be stored with 3 links, and numbers up to 3, at most.
FewLinks ==
  user'.cmd = "save" /\ user # user' /\ away = away' =>
    Len(Links) + Len(sg_route) <= 3 /\ NextId(Links) + Len(sg_route) <= 4

\* Bound: lines of this module only.
OneModule == Len(sg_route') <= 2 /\ \A n \in ToSet(sg_route') : ToSet(n) \subseteq {Outside, 1}

\* Bound: while lines are listed, one thread at a time stores others or takes them away, none is
\* only looked at, and the line that has been put together stays.
OneStores ==
  /\ user'.cmd \notin {"go", "detail"} /\ Len(sg_route') >= Len(sg_route)
  /\ Ready \in {user', away'.user} \/ {"page", "next"} \cap {user'.cmd, away'.user.cmd} # {}

\* Bound: of two modules this one comes first.
OneFirst == Len(sg_route') = 3 => sg_route'[1][2] = 1

\* Lines by two threads: what is done with them, their drafts, with the older command besides and
\* while another table of the file is locked, and their list.
MCRouteNext ==
  /\ focus = "route"
  /\ \/ RouteNext \/ Switch
     \/ subject = "drafts" /\ (cmd_insertRoute \/ Elsewhere)
     \/ subject = "lists" /\ (ListPage \/ ListShown)
  /\ IF subject = "lines" THEN OneFirst ELSE OneModule
  /\ IF subject = "lists" THEN OneStores ELSE FewLinks

\* The list of triggers.  Bound: the other thread writes while a page is read.
MCTriggerNext ==
  /\ focus = "a_trigger_b" /\ (TriggerNext \/ ListPage \/ ListShown)
  /\ OtherWrote => Listing

MCNext ==
  /\ \/ /\ subject = "tables" /\ Next /\ UNCHANGED <<routeVars, shellVars, appVars, sendVars, fileVars>>
        /\ OtherWrote => ~call.disturbed /\ call'.disturbed
     \/ /\ subject \in {"lines", "drafts", "lists"} /\ (MCRouteNext \/ MCTriggerNext)
        /\ UNCHANGED <<shellVars, appVars, sendVars, fileVars>>
     \/ subject = "devices" /\ ShellNext /\ UNCHANGED <<vars, routeVars, appVars, sendVars, fileVars>>
     \/ subject = "levels" /\ LevelsNext /\ UNCHANGED <<vars, routeVars, appVars, sendVars, fileVars>>
     \/ subject = "traces" /\ TraceNext /\ UNCHANGED <<vars, routeVars, shellVars, comVars, sendVars, fileVars>>
     \/ subject = "modules" /\ ModuleNext /\ UNCHANGED <<vars, routeVars, shellVars, traceVars, sendVars, fileVars>>
     \/ subject = "wire" /\ SendNext /\ UNCHANGED <<vars, routeVars, shellVars, appVars, fileVars>>
     \/ subject = "files" /\ FileNext /\ UNCHANGED <<vars, routeVars, shellVars, appVars, sendVars>>
  /\ UNCHANGED subject

MCSpec == MCInit /\ [][MCNext]_mcVars
=============================================================================
