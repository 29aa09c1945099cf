------------------------------- MODULE TmsApp -------------------------------
(***************************************************************************)
(* What the callbacks of src/src/tms_app.c keep for the shell.  A trace    *)
(* that the user asked for is saved by the worker thread in a file, from   *)
(* which the shell thread takes it again as a reference or to show it.     *)
(* And the table of the modules that a peer reported.                      *)
(***************************************************************************)
EXTENDS Integers, Sequences, FiniteSetsExt

CONSTANTS
    Paths,          \* names of files
    Answers,        \* traces |-> numbers of samples and events
    FrameCount,     \* 16, the frames whose modules are kept
    RowLength,      \* 12, the second bound of sg_appdevcom
    MAX_SLOT,       \* 16
    MaxListed,      \* bound: modules in a report
    MaxReports      \* bound: reports

Noone == "none"
ASSUME AppAssumption ==
    /\ Noone \notin Paths /\ Answers \in [DOMAIN Answers -> Nat \X Nat]
    /\ FrameCount \in Nat \ {0} /\ RowLength \in Nat \ {0} /\ MAX_SLOT \in Nat \ {0}
    /\ MAX_SLOT <= 2 * RowLength        \* the last slot lies in the row behind the frames
    /\ MaxListed \in Nat /\ MaxReports \in Nat

VARIABLES
    wish,           \* sg_en_save and sg_file_path
    typing,         \* the name that the shell is about to write there
    file,           \* name |-> what lies in the file
    saving,         \* the trace that the worker writes
    loading,        \* the file that the shell reads, and what it took from it
    asked,          \* the name the next answer is to be saved under, as the user knows it
    saved,          \* name |-> the trace saved last
    com,            \* sg_appdevcom
    report,         \* the last report
    reports         \* how many there were

traceVars == <<wish, typing, file, saving, loading, asked, saved>>
comVars == <<com, report, reports>>
appVars == <<traceVars, comVars>>

NotTyping == [path |-> Noone, quiet |-> TRUE]
NotSaving == [path |-> Noone, trace |-> Noone]
NotLoading == [step |-> "none", path |-> Noone]

-----------------------------------------------------------------------------
(* A file: the parts of a trace, the heads with the number of what follows.*)

Repeated(trace, part, n) == [i \in 1 .. n |-> <<trace, part, i>>]

\* Bug: the events in front of their head.
tms_SaveOTDRBinSwapped(trace) ==
  LET samples == Answers[trace][1]
      events == Answers[trace][2]
  IN << <<trace, "test_hdr", 0>>, <<trace, "test_param", 0>>, <<trace, "data_hdr", samples>> >>
       \o Repeated(trace, "data_val", samples) \o Repeated(trace, "event_val", events)
       \o << <<trace, "event_hdr", events>>, <<trace, "chain", 0>> >>
tms_SaveOTDRBin(trace) ==
  LET samples == Answers[trace][1]
      events == Answers[trace][2]
  IN << <<trace, "test_hdr", 0>>, <<trace, "test_param", 0>>, <<trace, "data_hdr", samples>> >>
       \o Repeated(trace, "data_val", samples) \o << <<trace, "event_hdr", events>> >>
       \o Repeated(trace, "event_val", events) \o << <<trace, "chain", 0>> >>

\* What lies behind the end of what was read is never assigned.
Unread == <<Noone, "junk", 0>>
PartOf(buf, i) == IF i \in DOMAIN buf THEN buf[i] ELSE Unread

\* The pointers that the shell computes into what it read, by the numbers in it.
Pointed(buf) ==
  LET samples == PartOf(buf, 3)[3]
      events == PartOf(buf, 4 + samples)[3]
  IN [i \in 1 .. 5 + samples + events |-> PartOf(buf, i)]

-----------------------------------------------------------------------------
(* The shell asks for a trace: "otdr ref test <file>".                     *)

ShellReady == typing = NotTyping /\ loading.step \in {"none", "read"}

tms_ReadySaveFile ==
  /\ ShellReady
  /\ \E path \in Paths : typing' = [path |-> path, quiet |-> saving = NotSaving]
  /\ wish' = [wish EXCEPT !.on = TRUE] /\ loading' = NotLoading
  /\ UNCHANGED <<file, saving, asked, saved>>

\* The name comes after the switch.
ReadySaveName ==
  /\ typing # NotTyping
  /\ wish' = [wish EXCEPT !.path = typing.path]
  /\ asked' = IF typing.quiet THEN typing.path ELSE asked
  /\ typing' = NotTyping
  /\ UNCHANGED <<file, saving, loading, saved>>

-----------------------------------------------------------------------------
(* The worker: an answer arrives, whoever sends it.  Without a name yet the*)
(* file is not opened and the program ends; that is left out.              *)

Disturbed == IF typing = NotTyping THEN typing ELSE [typing EXCEPT !.quiet = FALSE]
tms_OnRetOTDRTest ==
  /\ saving = NotSaving /\ wish.on /\ wish.path # Noone
  /\ \E trace \in DOMAIN Answers : saving' = [path |-> wish.path, trace |-> trace]
  /\ file' = [file EXCEPT ![wish.path] = <<>>]
  /\ typing' = Disturbed
  /\ asked' = Noone
  /\ loading' = IF loading.step = "opened" /\ loading.path = wish.path
                THEN [loading EXCEPT !.alone = FALSE] ELSE loading
  /\ UNCHANGED <<wish, saved>>

\* The library writes when its buffer is full, or at the end.
SavePart ==
  /\ saving # NotSaving
  /\ LET whole == tms_SaveOTDRBin(saving.trace) IN
     \E n \in Len(file[saving.path]) + 1 .. Len(whole) :
       file' = [file EXCEPT ![saving.path] = SubSeq(whole, 1, n)]
  /\ UNCHANGED <<wish, typing, saving, loading, asked, saved>>

\* The switch is set back when all is written.
SaveDone ==
  /\ saving # NotSaving /\ Len(file[saving.path]) = Len(tms_SaveOTDRBin(saving.trace))
  /\ wish' = [wish EXCEPT !.on = FALSE]
  /\ saved' = [saved EXCEPT ![saving.path] = saving.trace]
  /\ typing' = Disturbed
  /\ saving' = NotSaving
  /\ UNCHANGED <<file, loading, asked>>

-----------------------------------------------------------------------------
(* The shell reads: "otdr ref go <file>", "otdr ref list <file>".  The     *)
(* length first; a file that is not there ends the program, and is left out*)

tms_OpenOTDRBin ==
  /\ ShellReady
  /\ \E path \in Paths :
       /\ saved[path] # Noone \/ saving.path = path
       /\ loading' = [step |-> "opened", path |-> path, len |-> Len(file[path]),
                      of |-> saved[path], alone |-> saving.path # path]
  /\ UNCHANGED <<wish, typing, file, saving, asked, saved>>

cmd_otdrRead ==
  /\ loading.step = "opened"
  /\ LET len == IF loading.len < Len(file[loading.path]) THEN loading.len
                ELSE Len(file[loading.path])
     IN loading' = [step |-> "read", path |-> loading.path, of |-> loading.of,
                    alone |-> loading.alone, parts |-> Pointed(SubSeq(file[loading.path], 1, len))]
  /\ UNCHANGED <<wish, typing, file, saving, asked, saved>>

TraceNext ==
  \/ tms_ReadySaveFile \/ ReadySaveName \/ tms_OnRetOTDRTest \/ SavePart \/ SaveDone
  \/ tms_OpenOTDRBin \/ cmd_otdrRead

-----------------------------------------------------------------------------
(* The modules of a report are entered one by one, each where its frame    *)
(* and slot lead to; no entry is taken out.                                *)

CellOf(at) == at[1] * RowLength + at[2]
NoModule == [at |-> <<0, 0>>, type |-> 0]
Module == [at : (0 .. FrameCount) \X (0 .. MAX_SLOT), type : {1, 2}]

\* Of the entries for one place the last one stays.
EntersAt(list, cell) ==
  {i \in DOMAIN list : list[i].at[1] < FrameCount /\ list[i].at[2] < MAX_SLOT
                       /\ CellOf(list[i].at) = cell}
Entered(table, list) ==
  [cell \in DOMAIN table |-> IF EntersAt(list, cell) = {} THEN table[cell]
                             ELSE list[Max(EntersAt(list, cell))]]

\* Bug: one slot further.
tmsapp_GetFrameBehind(frame) ==
  [slot \in 0 .. MAX_SLOT - 1 |-> com[CellOf(<<frame, (slot + 1) % MAX_SLOT>>)]]
tmsapp_GetFrame(frame) == [slot \in 0 .. MAX_SLOT - 1 |-> com[CellOf(<<frame, slot>>)]]

tms_OnRetDeviceComposition ==
  /\ reports < MaxReports /\ reports' = reports + 1
  /\ \E n \in 1 .. MaxListed : \E list \in [1 .. n -> Module] :
       com' = Entered(com, list) /\ report' = list

NoModules == [i \in 0 .. (FrameCount + 1) * RowLength - 1 |-> NoModule]

\* The program ends and starts again, with an empty table.
AppRestart == reports = MaxReports /\ com' = NoModules /\ report' = <<>> /\ reports' = 0

ModuleNext == tms_OnRetDeviceComposition \/ AppRestart

-----------------------------------------------------------------------------
AppInit ==
  /\ wish = [on |-> FALSE, path |-> Noone] /\ typing = NotTyping
  /\ file = [path \in Paths |-> <<>>] /\ saving = NotSaving /\ loading = NotLoading
  /\ asked = Noone /\ saved = [path \in Paths |-> Noone]
  /\ com = NoModules
  /\ report = <<>> /\ reports = 0

TraceSpec == AppInit /\ [][TraceNext]_traceVars
ModuleSpec == AppInit /\ [][ModuleNext]_comVars

-----------------------------------------------------------------------------
(* Properties. *)

(* A reference that is sent, or a trace that is shown, is one trace from   *)
(* its first part to its last, namely the one last saved under the name    *)
(* typed, unless the worker saves another under that name while the file   *)
(* is read.  And from the line "otdr ref test" on the next answer goes     *)
(* into the file it names, unless the line was typed while an answer was   *)
(* being saved (tms_SaveOTDRBin, tms_OpenOTDRBin, tms_ReadySaveFile).      *)
TracesAsSaved ==
  /\ loading.step = "read" /\ loading.alone =>
       loading.parts = tms_SaveOTDRBin(loading.of)
  /\ asked # Noone => wish = [on |-> TRUE, path |-> asked]

\* The slots of a row that lie in the row of the next frame, too.
Twofold(at) == at[2] >= RowLength \/ (at[1] > 0 /\ at[2] + RowLength < MAX_SLOT)

(* A module of the last report is shown in its frame and slot as it was    *)
(* reported last, and whatever is shown there says so itself.  Slots from  *)
(* RowLength on are the first slots of the next frame, too.                *)
ModulesShown ==
  \A frame \in 0 .. FrameCount - 1 : \A slot \in 0 .. MAX_SLOT - 1 :
    LET at == <<frame, slot>>
        told == {i \in DOMAIN report : report[i].at = at}
        shown == tmsapp_GetFrame(frame)[slot]
    IN ~Twofold(at) => /\ told # {} => shown = report[Max(told)]
                       /\ shown # NoModule => shown.at = at
=============================================================================
