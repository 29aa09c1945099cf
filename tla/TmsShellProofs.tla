--------------------------- MODULE TmsShellProofs ---------------------------
(***************************************************************************)
(* Proofs about what the shell reads and writes.  The callbacks (TmsApp):  *)
(* for traces of any size, any names of files and any interleaving of the  *)
(* thread that saves with the thread that reads, and for reports of any    *)
(* length in tables of any size.  The database (TmsDb): for lists and      *)
(* tables of any length, whichever statements the other thread's lock      *)
(* refuses and whatever it makes of the table.  The command "route"        *)
(* (TmsRoute): for any modules, and lines of any length that share them,   *)
(* stored and taken away by two threads; its list, and that of the         *)
(* triggers, for tables and pages of any length.  The command "lf"         *)
(* (ListFile): for files and rows of any length, and buffers of any sizes. *)
(* The lines that are typed (TmsShell): for any devices that come and go,  *)
(* and any number of levels.                                               *)
(***************************************************************************)
EXTENDS TmsApp, TmsRoute, TmsShell, ListFile, CommonLemmas

-----------------------------------------------------------------------------
(* What lies in the file of a trace. *)

\* Numbers of samples and of events.
LEMMA CountsNat ==
    ASSUME NEW trace \in DOMAIN Answers
    PROVE  Answers[trace][1] \in Nat /\ Answers[trace][2] \in Nat
<1>1. Answers[trace] \in Nat \X Nat
    BY AppAssumption
<1> QED BY <1>1

\* The heads are where the shell looks for them, with the numbers of what follows.
Layout(whole, samples, events) ==
  /\ DOMAIN whole = 1 .. 5 + samples + events /\ Len(whole) = 5 + samples + events
  /\ whole[3][3] = samples /\ whole[4 + samples][3] = events
  /\ \E S : whole \in Seq(S)

\* In both, s comes first and t behind it.
Joined(P, s, t, both) ==
  /\ both \in Seq(P) /\ Len(both) = Len(s) + Len(t)
  /\ \A i \in 1 .. Len(s) : both[i] = s[i]
  /\ \A i \in 1 .. Len(t) : both[Len(s) + i] = t[i]

\* Putting one behind the other joins them.
LEMMA Behind ==
    ASSUME NEW P, NEW s \in Seq(P), NEW t \in Seq(P)
    PROVE  Joined(P, s, t, s \o t)
<1>1. Len(s) \in Nat /\ Len(t) \in Nat
    OBVIOUS
<1>2. s \o t \in Seq(P) /\ Len(s \o t) = Len(s) + Len(t)
    OBVIOUS
<1>3. \A i \in 1 .. Len(s) : (s \o t)[i] = s[i]
    BY <1>1
<1>4. \A i \in 1 .. Len(t) : (s \o t)[Len(s) + i] = t[i]
    BY <1>1
<1> QED BY <1>1, <1>2, <1>3, <1>4 DEF Joined

\* So it is in what the worker writes.
LEMMA LayoutIs ==
    ASSUME NEW trace \in DOMAIN Answers
    PROVE  Layout(tms_SaveOTDRBin(trace), Answers[trace][1], Answers[trace][2])
<1> DEFINE s == Answers[trace][1]
           e == Answers[trace][2]
           A == << <<trace, "test_hdr", 0>>, <<trace, "test_param", 0>>, <<trace, "data_hdr", s>> >>
           B == Repeated(trace, "data_val", s)
           C == << <<trace, "event_hdr", e>> >>
           D == Repeated(trace, "event_val", e)
           E == << <<trace, "chain", 0>> >>
           N == {"test_hdr", "test_param", "data_hdr", "data_val", "event_hdr", "event_val", "chain"}
           P == {trace} \X N \X Nat
<1>1. s \in Nat /\ e \in Nat
    BY CountsNat
<1>2. /\ A \in Seq(P) /\ C \in Seq(P) /\ E \in Seq(P)
      /\ Len(A) = 3 /\ Len(C) = 1 /\ Len(E) = 1
      /\ A[3][3] = s /\ C[1][3] = e
  <2>1. /\ <<trace, "test_hdr", 0>> \in P /\ <<trace, "test_param", 0>> \in P
        /\ <<trace, "data_hdr", s>> \in P /\ <<trace, "event_hdr", e>> \in P
        /\ <<trace, "chain", 0>> \in P
      BY <1>1
  <2>2. /\ Len(A) = 3 /\ Len(C) = 1 /\ Len(E) = 1 /\ A[3][3] = s /\ C[1][3] = e
      OBVIOUS
  <2> HIDE DEF P
  <2> QED BY <2>1, <2>2
<1>3. B \in Seq(P) /\ Len(B) = s /\ D \in Seq(P) /\ Len(D) = e
    BY <1>1 DEF Repeated
<1>4. tms_SaveOTDRBin(trace) = A \o B \o C \o D \o E
    BY DEF tms_SaveOTDRBin
<1> HIDE DEF s, e, A, B, C, D, E, N, P
<1> DEFINE AB == A \o B
           AC == AB \o C
           AD == AC \o D
           AE == AD \o E
<1>5. AB \in Seq(P) /\ Len(AB) = 3 + s /\ AB[3] = A[3]
  <2>1. Joined(P, A, B, AB)
      BY <1>2, <1>3, Behind
  <2> QED BY <1>1, <1>2, <1>3, <2>1 DEF Joined
<1> HIDE DEF AB
<1>6. AC \in Seq(P) /\ Len(AC) = 4 + s /\ AC[3] = A[3] /\ AC[4 + s] = C[1]
  <2>1. Joined(P, AB, C, AC)
      BY <1>2, <1>5, Behind
  <2> QED BY <1>1, <1>2, <1>5, <2>1 DEF Joined
<1> HIDE DEF AC
<1>7. AD \in Seq(P) /\ Len(AD) = 4 + s + e /\ AD[3] = A[3] /\ AD[4 + s] = C[1]
  <2>1. Joined(P, AC, D, AD)
      BY <1>3, <1>6, Behind
  <2> QED BY <1>1, <1>3, <1>6, <2>1 DEF Joined
<1> HIDE DEF AD
<1>8. AE \in Seq(P) /\ Len(AE) = 5 + s + e /\ AE[3] = A[3] /\ AE[4 + s] = C[1]
  <2>1. Joined(P, AD, E, AE)
      BY <1>2, <1>7, Behind
  <2> QED BY <1>1, <1>2, <1>7, <2>1 DEF Joined
<1>9. tms_SaveOTDRBin(trace) = AE
    BY <1>4 DEF AB, AC, AD
<1> HIDE DEF AE
<1>10. DOMAIN AE = 1 .. Len(AE)
    BY <1>8
<1> QED BY <1>1, <1>2, <1>8, <1>9, <1>10 DEF Layout, s, e

\* From the whole file the shell's pointers lead to the whole trace.
LEMMA PointedWhole ==
    ASSUME NEW trace \in DOMAIN Answers
    PROVE  Pointed(tms_SaveOTDRBin(trace)) = tms_SaveOTDRBin(trace)
<1> DEFINE s == Answers[trace][1]
           e == Answers[trace][2]
<1>1. s \in Nat /\ e \in Nat
    BY CountsNat
<1>2. PICK whole : whole = tms_SaveOTDRBin(trace)
    OBVIOUS
<1>3. Layout(whole, s, e)
    BY <1>2, LayoutIs
<1> HIDE DEF s, e
<1>4. PartOf(whole, 3)[3] = s /\ PartOf(whole, 4 + s)[3] = e
    BY <1>1, <1>3 DEF PartOf, Layout
<1>5. Pointed(whole) = [i \in 1 .. 5 + s + e |-> PartOf(whole, i)]
    BY <1>4 DEF Pointed
<1>6. \A i \in 1 .. 5 + s + e : PartOf(whole, i) = whole[i]
    BY <1>3 DEF PartOf, Layout
<1>7. whole = [i \in 1 .. 5 + s + e |-> whole[i]]
    BY <1>1, <1>3 DEF Layout
<1> QED BY <1>2, <1>5, <1>6, <1>7

-----------------------------------------------------------------------------
(* Traces: what holds between the steps of the two threads.                *)

OpenFile == [step : {"opened"}, path : Paths, len : Nat, of : DOMAIN Answers \cup {Noone},
           alone : BOOLEAN]

TypeOK ==
  /\ wish \in [on : BOOLEAN, path : Paths \cup {Noone}]
  /\ typing = NotTyping \/ typing \in [path : Paths, quiet : BOOLEAN]
  /\ saving = NotSaving \/ saving \in [path : Paths, trace : DOMAIN Answers]
  /\ DOMAIN file = Paths
  /\ saved \in [Paths -> DOMAIN Answers \cup {Noone}]
  /\ asked \in Paths \cup {Noone}
  /\ loading.step = "opened" => loading \in OpenFile

\* A file that nobody writes is the trace that was saved under its name.
KeptOK ==
  \A path \in Paths : saved[path] # Noone /\ saving.path # path =>
    file[path] = tms_SaveOTDRBin(saved[path])

\* The one that the worker writes is the beginning of its trace.
SavingOK ==
  saving # NotSaving =>
    LET whole == tms_SaveOTDRBin(saving.trace)
    IN \E n \in 0 .. Len(whole) : file[saving.path] = SubSeq(whole, 1, n)

\* What the shell opened, or read, and nobody has begun to save anew.
LoadingOK ==
  /\ loading.step = "opened" /\ loading.alone =>
       /\ saving.path # loading.path /\ saved[loading.path] # Noone
       /\ loading.of = saved[loading.path] /\ loading.len = Len(file[loading.path])
  /\ loading.step = "read" /\ loading.alone => loading.parts = tms_SaveOTDRBin(loading.of)

\* A name that was asked for stays wished for: from the switch to the name
\* nothing is saved if the line is quiet, and nothing is asked for if not.
AskedOK ==
  /\ asked # Noone => saving = NotSaving /\ wish.on /\ wish.path = asked
  /\ typing # NotTyping /\ typing.quiet => saving = NotSaving /\ wish.on
  /\ typing # NotTyping /\ ~typing.quiet => asked = Noone

TraceIInv == TypeOK /\ KeptOK /\ SavingOK /\ LoadingOK /\ AskedOK

-----------------------------------------------------------------------------
(* One lemma per action. *)

\* The trace a name stands for, while its file, the worker's and the shell's
\* place in it stay as they are.
LEMMA FilesSame ==
    ASSUME KeptOK, SavingOK, UNCHANGED <<file, saving, saved>>
    PROVE  KeptOK' /\ SavingOK'
<1>1. KeptOK'
    BY DEF KeptOK
<1>2. SavingOK'
    BY DEF SavingOK
<1> QED BY <1>1, <1>2

\* The switch is set, and the name is on its way.
LEMMA ReadySound == ASSUME TraceIInv, tms_ReadySaveFile PROVE TraceIInv'
<1>1. PICK path \in Paths : typing' = [path |-> path, quiet |-> saving = NotSaving]
    BY DEF tms_ReadySaveFile
<1>2. /\ typing = NotTyping /\ wish' = [wish EXCEPT !.on = TRUE] /\ loading' = NotLoading
      /\ UNCHANGED <<file, saving, asked, saved>>
    BY DEF tms_ReadySaveFile, ShellReady
<1>3. wish'.on /\ wish'.path = wish.path /\ wish' \in [on : BOOLEAN, path : Paths \cup {Noone}]
    BY <1>2 DEF TraceIInv, TypeOK
<1>4. typing' \in [path : Paths, quiet : BOOLEAN] /\ (typing'.quiet <=> saving = NotSaving)
    BY <1>1, Zenon
<1>5. TypeOK'
    BY <1>2, <1>3, <1>4 DEF TraceIInv, TypeOK, NotLoading
<1>6. KeptOK' /\ SavingOK'
    BY <1>2, FilesSame DEF TraceIInv
<1>7. LoadingOK'
    BY <1>2 DEF LoadingOK, NotLoading
<1>8. AskedOK'
    BY <1>2, <1>3, <1>4 DEF TraceIInv, AskedOK
<1> QED BY <1>5, <1>6, <1>7, <1>8 DEF TraceIInv

\* The name is there.
LEMMA NameSound == ASSUME TraceIInv, ReadySaveName PROVE TraceIInv'
<1>1. /\ typing # NotTyping /\ typing' = NotTyping /\ wish' = [wish EXCEPT !.path = typing.path]
      /\ asked' = IF typing.quiet THEN typing.path ELSE asked
      /\ UNCHANGED <<file, saving, loading, saved>>
    BY DEF ReadySaveName
<1>2. typing \in [path : Paths, quiet : BOOLEAN] /\ typing.path \in Paths
    BY <1>1 DEF TraceIInv, TypeOK
<1>3. /\ wish'.on = wish.on /\ wish'.path = typing.path
      /\ wish' \in [on : BOOLEAN, path : Paths \cup {Noone}]
    BY <1>1, <1>2 DEF TraceIInv, TypeOK
<1>4. asked' \in Paths \cup {Noone}
    BY <1>1, <1>2 DEF TraceIInv, TypeOK
<1>5. TypeOK'
    BY <1>1, <1>3, <1>4 DEF TraceIInv, TypeOK
<1>6. KeptOK' /\ SavingOK'
    BY <1>1, FilesSame DEF TraceIInv
<1>7. LoadingOK'
    BY <1>1 DEF TraceIInv, LoadingOK
<1>8. AskedOK'
  <2>1. CASE typing.quiet
      BY <1>1, <1>2, <1>3, <2>1 DEF TraceIInv, AskedOK
  <2>2. CASE ~typing.quiet
      BY <1>1, <1>2, <1>3, <2>2 DEF TraceIInv, AskedOK
  <2> QED BY <2>1, <2>2
<1> QED BY <1>5, <1>6, <1>7, <1>8 DEF TraceIInv

\* Whoever is typing is disturbed.
LEMMA DisturbedIs ==
    ASSUME TypeOK
    PROVE  Disturbed = NotTyping \/ (Disturbed \in [path : Paths, quiet : BOOLEAN] /\ ~Disturbed.quiet)
<1>1. CASE typing = NotTyping
    BY <1>1 DEF Disturbed
<1>2. CASE typing # NotTyping
  <2>1. typing \in [path : Paths, quiet : BOOLEAN] /\ Disturbed = [typing EXCEPT !.quiet = FALSE]
      BY <1>2 DEF TypeOK, Disturbed
  <2> QED BY <2>1
<1> QED BY <1>1, <1>2

\* The worker begins to save an answer under the name that is there: who opened
\* that file before is not alone any more.
LEMMA AnswerSound == ASSUME TraceIInv, tms_OnRetOTDRTest PROVE TraceIInv'
<1>1. PICK trace \in DOMAIN Answers : saving' = [path |-> wish.path, trace |-> trace]
    BY DEF tms_OnRetOTDRTest
<1>2. PICK path : path = wish.path
    OBVIOUS
<1>3. /\ saving = NotSaving /\ path \in Paths /\ file' = [file EXCEPT ![path] = <<>>]
      /\ typing' = Disturbed /\ asked' = Noone /\ wish' = wish /\ saved' = saved
      /\ loading' = IF loading.step = "opened" /\ loading.path = path
                    THEN [loading EXCEPT !.alone = FALSE] ELSE loading
    BY <1>2 DEF tms_OnRetOTDRTest, TraceIInv, TypeOK
<1>4. saving' \in [path : Paths, trace : DOMAIN Answers] /\ saving'.path = path /\ saving'.trace = trace
    BY <1>1, <1>2, <1>3
<1>6. LoadingOK' /\ (loading'.step = "opened" => loading' \in OpenFile)
  <2>1. CASE loading.step = "opened" /\ loading.path = path
    <3>1. loading' \in OpenFile /\ loading'.step = "opened" /\ ~loading'.alone
        BY <1>3, <2>1 DEF TraceIInv, TypeOK, OpenFile
    <3> QED BY <3>1 DEF LoadingOK
  <2>2. CASE ~(loading.step = "opened" /\ loading.path = path)
    <3>1. loading' = loading
        BY <1>3, <2>2
    <3>2. ASSUME loading.step = "opened", loading.alone
          PROVE  loading.path \in Paths /\ file'[loading.path] = file[loading.path]
      <4>1. loading.path \in Paths /\ loading.path # path
          BY <2>2, <3>2 DEF TraceIInv, TypeOK, OpenFile
      <4> QED BY <1>3, <4>1 DEF TraceIInv, TypeOK
    <3> QED BY <1>3, <1>4, <2>2, <3>1, <3>2 DEF TraceIInv, TypeOK, LoadingOK
  <2> QED BY <2>1, <2>2
<1>7. TypeOK'
  <2>1. typing' = NotTyping \/ typing' \in [path : Paths, quiet : BOOLEAN]
      BY <1>3, DisturbedIs DEF TraceIInv
  <2> QED BY <1>3, <1>4, <1>6, <2>1 DEF TraceIInv, TypeOK
<1>8. KeptOK'
    BY <1>3, <1>4, AppAssumption DEF TraceIInv, TypeOK, KeptOK, NotSaving
<1>9. SavingOK'
  <2>1. PICK whole : whole = tms_SaveOTDRBin(trace)
      OBVIOUS
  <2>2. file'[path] = SubSeq(whole, 1, 0) /\ 0 \in 0 .. Len(whole)
    <3>1. Layout(whole, Answers[trace][1], Answers[trace][2])
        BY <2>1, LayoutIs
    <3>2. PICK S : whole \in Seq(S)
        BY <3>1 DEF Layout
    <3>3. Len(whole) \in Nat /\ SubSeq(whole, 1, 0) = <<>>
        BY <3>2
    <3> QED BY <1>3, <3>3 DEF TraceIInv, TypeOK
  <2> QED BY <1>4, <2>1, <2>2 DEF SavingOK
<1>10. AskedOK'
  <2>1. typing' # NotTyping => ~typing'.quiet
      BY <1>3, DisturbedIs DEF TraceIInv
  <2> QED BY <1>3, <2>1 DEF AskedOK
<1> QED BY <1>6, <1>7, <1>8, <1>9, <1>10 DEF TraceIInv

\* Some more of the trace is in its file.
LEMMA PartSound == ASSUME TraceIInv, SavePart PROVE TraceIInv'
<1>1. PICK path, trace : path = saving.path /\ trace = saving.trace
    OBVIOUS
<1>2. PICK whole : whole = tms_SaveOTDRBin(trace)
    OBVIOUS
<1>3. /\ path \in Paths /\ trace \in DOMAIN Answers /\ saving # NotSaving
      /\ UNCHANGED <<wish, typing, saving, loading, asked, saved>>
    BY <1>1 DEF SavePart, TraceIInv, TypeOK
<1>4. PICK n \in Len(file[path]) + 1 .. Len(whole) :
         file' = [file EXCEPT ![path] = SubSeq(whole, 1, n)]
    BY <1>1, <1>2 DEF SavePart
<1>5. DOMAIN file' = Paths /\ file'[path] = SubSeq(whole, 1, n)
      /\ \A p \in Paths \ {path} : file'[p] = file[p]
    BY <1>3, <1>4 DEF TraceIInv, TypeOK
<1>6. TypeOK'
    BY <1>3, <1>5 DEF TraceIInv, TypeOK
<1>7. KeptOK'
    BY <1>1, <1>3, <1>5 DEF TraceIInv, KeptOK
<1>8. SavingOK'
  <2>1. Len(file[path]) \in Nat /\ Len(whole) \in Nat
    <3>1. PICK k \in 0 .. Len(whole) : file[path] = SubSeq(whole, 1, k)
        BY <1>1, <1>2, <1>3 DEF TraceIInv, SavingOK
    <3>2. Layout(whole, Answers[trace][1], Answers[trace][2])
        BY <1>2, <1>3, LayoutIs
    <3> QED BY <3>1, <3>2 DEF Layout
  <2>2. n \in 0 .. Len(whole)
      BY <2>1
  <2> QED BY <1>1, <1>2, <1>3, <1>5, <2>2 DEF SavingOK
<1>9. LoadingOK'
  <2>1. loading.step = "opened" /\ loading.alone => loading.path \in Paths \ {path}
      BY <1>1 DEF TraceIInv, TypeOK, LoadingOK, OpenFile
  <2> QED BY <1>3, <1>5, <2>1 DEF TraceIInv, LoadingOK
<1>10. AskedOK'
    BY <1>3 DEF TraceIInv, AskedOK
<1> QED BY <1>6, <1>7, <1>8, <1>9, <1>10 DEF TraceIInv

\* A beginning of a trace that is as long as the trace is the trace.
LEMMA WholeIs ==
    ASSUME NEW trace \in DOMAIN Answers, NEW part, NEW n \in 0 .. Len(tms_SaveOTDRBin(trace)),
           part = SubSeq(tms_SaveOTDRBin(trace), 1, n), Len(part) = Len(tms_SaveOTDRBin(trace))
    PROVE  part = tms_SaveOTDRBin(trace)
<1>1. PICK whole : whole = tms_SaveOTDRBin(trace)
    OBVIOUS
<1>2. Layout(whole, Answers[trace][1], Answers[trace][2])
    BY <1>1, LayoutIs
<1>3. PICK S : whole \in Seq(S)
    BY <1>2 DEF Layout
<1>4. n = Len(whole)
    BY <1>1, <1>3
<1> QED BY <1>1, <1>3, <1>4

\* All of it is.
LEMMA DoneSound == ASSUME TraceIInv, SaveDone PROVE TraceIInv'
<1>1. PICK path, trace : path = saving.path /\ trace = saving.trace
    OBVIOUS
<1>2. /\ path \in Paths /\ trace \in DOMAIN Answers /\ saving # NotSaving
      /\ Len(file[path]) = Len(tms_SaveOTDRBin(trace))
      /\ wish' = [wish EXCEPT !.on = FALSE] /\ saved' = [saved EXCEPT ![path] = trace]
      /\ typing' = Disturbed /\ saving' = NotSaving /\ UNCHANGED <<file, loading, asked>>
    BY <1>1 DEF SaveDone, TraceIInv, TypeOK
<1>3. file[path] = tms_SaveOTDRBin(trace)
    BY <1>1, <1>2, WholeIs DEF TraceIInv, SavingOK
<1>4. saved'[path] = trace /\ \A p \in Paths \ {path} : saved'[p] = saved[p]
    BY <1>2 DEF TraceIInv, TypeOK
<1>5. TypeOK'
  <2>1. typing' = NotTyping \/ typing' \in [path : Paths, quiet : BOOLEAN]
      BY <1>2, DisturbedIs DEF TraceIInv
  <2> QED BY <1>2, <2>1 DEF TraceIInv, TypeOK
<1>6. KeptOK'
    BY <1>1, <1>2, <1>3, <1>4 DEF TraceIInv, KeptOK
<1>7. SavingOK'
    BY <1>2 DEF SavingOK
<1>8. LoadingOK'
  <2>1. loading.step = "opened" /\ loading.alone => loading.path \in Paths \ {path}
      BY <1>1 DEF TraceIInv, TypeOK, LoadingOK, OpenFile
  <2>2. \A p \in Paths : saving'.path # p
      BY <1>2, AppAssumption DEF NotSaving
  <2> QED BY <1>2, <1>4, <2>1, <2>2 DEF TraceIInv, LoadingOK
<1>9. AskedOK'
  <2>1. typing' # NotTyping => ~typing'.quiet
      BY <1>2, DisturbedIs DEF TraceIInv
  <2>2. asked' = Noone
      BY <1>2 DEF TraceIInv, AskedOK
  <2> QED BY <2>1, <2>2 DEF AskedOK
<1> QED BY <1>5, <1>6, <1>7, <1>8, <1>9 DEF TraceIInv

\* A file is opened.
LEMMA OpenSound == ASSUME TraceIInv, tms_OpenOTDRBin PROVE TraceIInv'
<1>1. PICK path \in Paths :
        /\ saved[path] # Noone \/ saving.path = path
        /\ loading' = [step |-> "opened", path |-> path, len |-> Len(file[path]),
                       of |-> saved[path], alone |-> saving.path # path]
    BY DEF tms_OpenOTDRBin
<1>2. UNCHANGED <<wish, typing, file, saving, asked, saved>>
    BY DEF tms_OpenOTDRBin
<1>3. /\ loading'.step = "opened" /\ loading'.path = path /\ loading'.len = Len(file[path])
      /\ loading'.of = saved[path] /\ (loading'.alone <=> saving.path # path)
    BY <1>1, Zenon
<1>4. Len(file[path]) \in Nat
  <2>1. CASE saving.path = path
    <3>1. saving # NotSaving
        BY <2>1, AppAssumption DEF NotSaving
    <3>2. PICK trace, n : /\ trace \in DOMAIN Answers /\ n \in 0 .. Len(tms_SaveOTDRBin(trace))
                          /\ file[path] = SubSeq(tms_SaveOTDRBin(trace), 1, n)
        BY <2>1, <3>1 DEF TraceIInv, TypeOK, SavingOK
    <3>3. Layout(tms_SaveOTDRBin(trace), Answers[trace][1], Answers[trace][2])
        BY <3>2, LayoutIs
    <3> QED BY <3>2, <3>3 DEF Layout
  <2>2. CASE saving.path # path
    <3>1. saved[path] \in DOMAIN Answers /\ file[path] = tms_SaveOTDRBin(saved[path])
        BY <1>1, <2>2 DEF TraceIInv, TypeOK, KeptOK
    <3> QED BY <3>1, LayoutIs DEF Layout
  <2> QED BY <2>1, <2>2
<1>5. loading' \in OpenFile
  <2>1. (saving.path # path) \in BOOLEAN
      OBVIOUS
  <2> QED BY <1>1, <1>4, <2>1, Zenon DEF TraceIInv, TypeOK, OpenFile
<1>6. TypeOK'
    BY <1>2, <1>5 DEF TraceIInv, TypeOK
<1>7. KeptOK' /\ SavingOK'
    BY <1>2, FilesSame DEF TraceIInv
<1>8. LoadingOK'
    BY <1>1, <1>2, <1>3 DEF LoadingOK
<1>9. AskedOK'
    BY <1>2 DEF TraceIInv, AskedOK
<1> QED BY <1>6, <1>7, <1>8, <1>9 DEF TraceIInv

\* A file that was opened is read.
LEMMA ReadSound == ASSUME TraceIInv, cmd_otdrRead PROVE TraceIInv'
<1> DEFINE path == loading.path
           len == IF loading.len < Len(file[path]) THEN loading.len ELSE Len(file[path])
<1>1. /\ loading.step = "opened"
      /\ loading' = [step |-> "read", path |-> path, of |-> loading.of, alone |-> loading.alone,
                     parts |-> Pointed(SubSeq(file[path], 1, len))]
      /\ UNCHANGED <<wish, typing, file, saving, asked, saved>>
    BY DEF cmd_otdrRead
<1>2. loading'.step = "read" /\ loading'.of = loading.of /\ loading'.alone = loading.alone
      /\ loading'.parts = Pointed(SubSeq(file[path], 1, len))
    BY <1>1
<1>3. TypeOK'
    BY <1>1, <1>2 DEF TraceIInv, TypeOK
<1>4. KeptOK' /\ SavingOK'
    BY <1>1, FilesSame DEF TraceIInv
<1>5. LoadingOK'
  <2> SUFFICES ASSUME loading.alone
               PROVE  loading'.parts = tms_SaveOTDRBin(loading.of)
      BY <1>2 DEF LoadingOK
  <2>1. PICK whole : whole = tms_SaveOTDRBin(loading.of)
      OBVIOUS
  <2>2. loading.of \in DOMAIN Answers /\ file[path] = whole /\ loading.len = Len(whole)
      BY <1>1, <2>1 DEF TraceIInv, TypeOK, OpenFile, KeptOK, LoadingOK
  <2>3. Layout(whole, Answers[loading.of][1], Answers[loading.of][2])
      BY <2>1, <2>2, LayoutIs
  <2>4. len = Len(whole) /\ SubSeq(whole, 1, Len(whole)) = whole
    <3>1. PICK S : whole \in Seq(S)
        BY <2>3 DEF Layout
    <3> QED BY <2>2, <3>1
  <2>5. loading'.parts = Pointed(whole)
      BY <1>2, <2>2, <2>4
  <2> QED BY <2>1, <2>2, <2>5, PointedWhole
<1>6. AskedOK'
    BY <1>1 DEF TraceIInv, AskedOK
<1> QED BY <1>3, <1>4, <1>5, <1>6 DEF TraceIInv

-----------------------------------------------------------------------------
(* Traces: the theorem.                                                    *)

\* The invariant holds at the start, when there is no file.
LEMMA TraceInitSound == AppInit => TraceIInv
BY DEF AppInit, TraceIInv, TypeOK, KeptOK, SavingOK, LoadingOK, AskedOK, NotTyping, NotLoading

\* Every step keeps it.
LEMMA TraceNextSound == TraceIInv /\ [TraceNext]_traceVars => TraceIInv'
<1> SUFFICES ASSUME TraceIInv, [TraceNext]_traceVars
             PROVE  TraceIInv'
    OBVIOUS
<1>1. CASE UNCHANGED traceVars
    BY <1>1 DEF traceVars, TraceIInv, TypeOK, KeptOK, SavingOK, LoadingOK, AskedOK
<1>2. CASE TraceNext
    BY <1>2, ReadySound, NameSound, AnswerSound, PartSound, DoneSound, OpenSound, ReadSound
       DEF TraceNext
<1> QED BY <1>1, <1>2

\* A trace that the shell takes out of a file is one trace, from the first part
\* to the last, and the one saved last under that name, unless another is saved
\* meanwhile; the next answer goes into the file last asked for.
THEOREM TracesSaved == TraceSpec => []TracesAsSaved
<1>1. TraceIInv => TracesAsSaved
  <2> SUFFICES ASSUME TraceIInv
               PROVE  TracesAsSaved
      OBVIOUS
  <2>1. loading.step = "read" /\ loading.alone => loading.parts = tms_SaveOTDRBin(loading.of)
      BY DEF TraceIInv, LoadingOK
  <2>2. asked # Noone => wish = [on |-> TRUE, path |-> asked]
      BY DEF TraceIInv, TypeOK, AskedOK
  <2> QED BY <2>1, <2>2 DEF TracesAsSaved
<1> QED BY <1>1, TraceInitSound, TraceNextSound, PTL DEF TraceSpec

-----------------------------------------------------------------------------
(* Modules: what a table says of the last report, and of itself.           *)

Frames == 0 .. FrameCount - 1
SlotsOf == 0 .. MAX_SLOT - 1

\* A cell to which the last report has an entry holds the last of them, and
\* what a cell holds belongs there.
TableOK(table, list) ==
  /\ DOMAIN table = 0 .. (FrameCount + 1) * RowLength - 1
  /\ list \in Seq(Module)
  /\ \A cell \in DOMAIN table : EntersAt(list, cell) # {} =>
       table[cell] = list[Max(EntersAt(list, cell))]
  /\ \A cell \in DOMAIN table : table[cell] # NoModule =>
       table[cell].at \in Frames \X SlotsOf /\ CellOf(table[cell].at) = cell
ModuleIInv == TableOK(com, report)

\* The largest of some positions in a list is one of them.
LEMMA LargestIn ==
    ASSUME NEW n \in Nat, NEW S, S \subseteq 1 .. n, S # {}
    PROVE  Max(S) \in S
<1> DEFINE T == {n - i : i \in S}
<1>1. T \subseteq Nat /\ T # {}
  <2>1. \A i \in S : n - i \in Nat
      OBVIOUS
  <2>2. PICK i \in S : TRUE
      OBVIOUS
  <2>3. n - i \in T
      OBVIOUS
  <2> QED BY <2>1, <2>3
<1>2. PICK x \in T : \A y \in T : x <= y
    BY <1>1, LeastNat
<1>3. PICK i \in S : x = n - i
    BY <1>2
<1>4. \A j \in S : i >= j
  <2> SUFFICES ASSUME NEW j \in S
               PROVE  i >= j
      OBVIOUS
  <2>1. n - j \in T
      OBVIOUS
  <2>2. n - i <= n - j
      BY <1>2, <1>3, <2>1
  <2> QED BY <2>2, i \in 1 .. n, j \in 1 .. n
<1>5. \E k \in S : \A j \in S : k >= j
    BY <1>4
<1> QED BY <1>5 DEF Max

\* A slot that is not in two rows is reached by its own frame and slot alone.
LEMMA OnePlace ==
    ASSUME NEW f \in Frames, NEW s \in SlotsOf, NEW g \in Frames, NEW t \in SlotsOf,
           CellOf(<<f, s>>) = CellOf(<<g, t>>), ~Twofold(<<f, s>>)
    PROVE  g = f /\ t = s
<1> DEFINE R == RowLength
<1>1. /\ R \in Nat \ {0} /\ MAX_SLOT \in Nat \ {0} /\ MAX_SLOT <= 2 * R /\ FrameCount \in Nat \ {0}
    BY AppAssumption
<1>2. f \in Nat /\ s \in Nat /\ g \in Nat /\ t \in Nat /\ t < MAX_SLOT
    BY <1>1 DEF Frames, SlotsOf
<1>3. f * R + s = g * R + t
    BY DEF CellOf
<1>4. s < R /\ (f > 0 => s + R >= MAX_SLOT)
    BY <1>1, <1>2 DEF Twofold
<1> HIDE DEF R
<1>5. CASE g = f
    BY <1>1, <1>2, <1>3, <1>5
<1>6. ASSUME g > f PROVE FALSE
  <2>1. PICK k \in Nat : g = f + 1 + k
    <3>1. g - f - 1 \in Nat /\ g = f + 1 + (g - f - 1)
        BY <1>2, <1>6
    <3> QED BY <3>1
  <2>2. g * R = f * R + R + k * R
      BY <1>1, <1>2, <2>1
  <2>3. k * R \in Nat /\ f * R \in Nat /\ g * R \in Nat
      BY <1>1, <1>2
  <2> QED BY <1>1, <1>2, <1>3, <1>4, <2>2, <2>3
<1>7. ASSUME g < f PROVE FALSE
  <2>1. PICK k \in Nat : f = g + 1 + k
    <3>1. f - g - 1 \in Nat /\ f = g + 1 + (f - g - 1)
        BY <1>2, <1>7
    <3> QED BY <3>1
  <2>2. f * R = g * R + R + k * R
      BY <1>1, <1>2, <2>1
  <2>3. k * R \in Nat /\ f * R \in Nat /\ g * R \in Nat
      BY <1>1, <1>2
  <2>4. f > 0
      BY <1>2, <1>7
  <2> QED BY <1>1, <1>2, <1>3, <1>4, <2>2, <2>3, <2>4
<1> QED BY <1>2, <1>5, <1>6, <1>7

\* Every slot of a frame lies in the table.
LEMMA InTable ==
    ASSUME NEW f \in Frames, NEW s \in SlotsOf
    PROVE  CellOf(<<f, s>>) \in 0 .. (FrameCount + 1) * RowLength - 1
<1> DEFINE R == RowLength
           C == FrameCount
<1>1. R \in Nat \ {0} /\ C \in Nat \ {0} /\ MAX_SLOT \in Nat \ {0} /\ MAX_SLOT <= 2 * R
    BY AppAssumption
<1>2. f \in Nat /\ s \in Nat /\ s < 2 * R
    BY <1>1 DEF Frames, SlotsOf
<1>3. PICK k \in Nat : C = f + 1 + k
  <2>1. C - f - 1 \in Nat /\ C = f + 1 + (C - f - 1)
      BY <1>1 DEF Frames
  <2> QED BY <2>1
<1>4. CellOf(<<f, s>>) = f * R + s
    BY DEF CellOf
<1> HIDE DEF R, C
<1>5. (C + 1) * R = f * R + 2 * R + k * R
    BY <1>1, <1>2, <1>3
<1>6. k * R \in Nat /\ f * R \in Nat
    BY <1>1, <1>2
<1>7. f * R + s \in 0 .. (C + 1) * R - 1
    BY <1>1, <1>2, <1>5, <1>6
<1> QED BY <1>4, <1>7 DEF R, C

\* A report is entered, in a table as it was left.
LEMMA ReportSound == ASSUME ModuleIInv, tms_OnRetDeviceComposition PROVE ModuleIInv'
<1>0. PICK n \in Nat : \E list \in [1 .. n -> Module] : com' = Entered(com, list) /\ report' = list
  <2>1. MaxListed \in Nat
      BY AppAssumption
  <2> QED BY <2>1 DEF tms_OnRetDeviceComposition
<1>1. PICK list \in [1 .. n -> Module] : com' = Entered(com, list) /\ report' = list
    BY <1>0
<1>2. report' \in Seq(Module) /\ DOMAIN list = 1 .. n
    BY <1>1
<1>3. DOMAIN com' = DOMAIN com
    BY <1>1 DEF Entered
<1>4. \A cell \in DOMAIN com :
        com'[cell] = IF EntersAt(list, cell) = {} THEN com[cell] ELSE list[Max(EntersAt(list, cell))]
    BY <1>1 DEF Entered
<1>5. ASSUME NEW cell \in DOMAIN com, com'[cell] # NoModule
      PROVE  com'[cell].at \in Frames \X SlotsOf /\ CellOf(com'[cell].at) = cell
  <2>1. CASE EntersAt(list, cell) = {}
      BY <1>4, <1>5, <2>1 DEF ModuleIInv, TableOK
  <2>2. CASE EntersAt(list, cell) # {}
    <3>1. PICK i : i = Max(EntersAt(list, cell))
        OBVIOUS
    <3>2. i \in EntersAt(list, cell)
      <4>1. EntersAt(list, cell) \subseteq 1 .. n
          BY <1>2 DEF EntersAt
      <4> QED BY <2>2, <3>1, <4>1, LargestIn
    <3>3. /\ list[i] \in Module /\ list[i].at[1] < FrameCount /\ list[i].at[2] < MAX_SLOT
          /\ CellOf(list[i].at) = cell
        BY <1>1, <1>2, <3>2 DEF EntersAt
    <3>4. list[i].at \in Frames \X SlotsOf
        BY <3>3, AppAssumption DEF Module, Frames, SlotsOf
    <3> QED BY <1>4, <2>2, <3>1, <3>3, <3>4
  <2> QED BY <2>1, <2>2
<1>6. \A cell \in DOMAIN com : EntersAt(report', cell) # {} =>
        com'[cell] = report'[Max(EntersAt(report', cell))]
    BY <1>1, <1>4
<1> QED BY <1>2, <1>3, <1>5, <1>6 DEF ModuleIInv, TableOK

\* The table is empty at the start, and whenever the program starts again.
LEMMA EmptySound == TableOK(NoModules, <<>>)
<1>1. PICK table, list : table = NoModules /\ list = <<>>
    OBVIOUS
<1>2. DOMAIN table = 0 .. (FrameCount + 1) * RowLength - 1
      /\ \A cell \in DOMAIN table : table[cell] = NoModule
    BY <1>1 DEF NoModules
<1>3. \A cell \in DOMAIN table : EntersAt(list, cell) = {}
    BY <1>1 DEF EntersAt
<1>4. list \in Seq(Module)
    BY <1>1
<1> QED BY <1>1, <1>2, <1>3, <1>4 DEF TableOK

-----------------------------------------------------------------------------
(* Modules: the theorem.                                                   *)

\* The invariant holds at the start.
LEMMA ModuleInitSound == AppInit => ModuleIInv
BY EmptySound DEF AppInit, ModuleIInv

\* Every step keeps it.
LEMMA ModuleNextSound == ModuleIInv /\ [ModuleNext]_comVars => ModuleIInv'
<1> SUFFICES ASSUME ModuleIInv, [ModuleNext]_comVars
             PROVE  ModuleIInv'
    OBVIOUS
<1>1. CASE UNCHANGED comVars
    BY <1>1 DEF comVars, ModuleIInv
<1>2. CASE tms_OnRetDeviceComposition
    BY <1>2, ReportSound
<1>3. CASE AppRestart
  <2>1. com' = NoModules /\ report' = <<>>
      BY <1>3 DEF AppRestart
  <2> QED BY <2>1, EmptySound DEF ModuleIInv
<1> QED BY <1>1, <1>2, <1>3 DEF ModuleNext

\* What is shown in a slot of a frame is what was reported for it last, for
\* every slot that does not lie in the row of another frame, too.
THEOREM ModulesAreShown == ModuleSpec => []ModulesShown
<1>1. ModuleIInv => ModulesShown
  <2> SUFFICES ASSUME ModuleIInv, NEW frame \in Frames, NEW slot \in SlotsOf,
                      ~Twofold(<<frame, slot>>)
               PROVE  LET at == <<frame, slot>>
                          told == {i \in DOMAIN report : report[i].at = at}
                          shown == tmsapp_GetFrame(frame)[slot]
                      IN /\ told # {} => shown = report[Max(told)]
                         /\ shown # NoModule => shown.at = at
      BY DEF ModulesShown, Frames, SlotsOf
  <2> DEFINE at == <<frame, slot>>
             told == {i \in DOMAIN report : report[i].at = at}
             cell == CellOf(at)
  <2>1. tmsapp_GetFrame(frame)[slot] = com[cell] /\ cell \in DOMAIN com
    <3>1. cell \in DOMAIN com
        BY InTable DEF ModuleIInv, TableOK
    <3> QED BY <3>1 DEF tmsapp_GetFrame, SlotsOf
  <2>2. EntersAt(report, cell) = told
    <3>1. ASSUME NEW i \in DOMAIN report, i \in EntersAt(report, cell)
          PROVE  report[i].at = at
      <4>1. /\ report[i] \in Module /\ report[i].at[1] < FrameCount /\ report[i].at[2] < MAX_SLOT
            /\ CellOf(report[i].at) = cell
          BY <3>1 DEF ModuleIInv, TableOK, EntersAt
      <4>2. PICK g \in Frames, t \in SlotsOf : report[i].at = <<g, t>>
          BY <4>1, AppAssumption DEF Module, Frames, SlotsOf
      <4>3. g = frame /\ t = slot
          BY <4>1, <4>2, OnePlace
      <4> QED BY <4>2, <4>3
    <3>2. ASSUME NEW i \in DOMAIN report, report[i].at = at
          PROVE  i \in EntersAt(report, cell)
      <4>1. frame < FrameCount /\ slot < MAX_SLOT
          BY AppAssumption DEF Frames, SlotsOf
      <4> QED BY <3>2, <4>1 DEF EntersAt
    <3> QED BY <3>1, <3>2 DEF EntersAt
  <2>3. com[cell] # NoModule => com[cell].at = at
    <3> SUFFICES ASSUME com[cell] # NoModule
                 PROVE  com[cell].at = at
        OBVIOUS
    <3>1. com[cell].at \in Frames \X SlotsOf /\ CellOf(com[cell].at) = cell
        BY <2>1 DEF ModuleIInv, TableOK
    <3>2. PICK g \in Frames, t \in SlotsOf : com[cell].at = <<g, t>>
        BY <3>1
    <3>3. g = frame /\ t = slot
        BY <3>1, <3>2, OnePlace
    <3> QED BY <3>2, <3>3
  <2>4. told # {} => com[cell] = report[Max(told)]
      BY <2>1, <2>2 DEF ModuleIInv, TableOK
  <2> HIDE DEF cell, told
  <2> QED BY <2>1, <2>3, <2>4 DEF told
<1> QED BY <1>1, ModuleInitSound, ModuleNextSound, PTL DEF ModuleSpec

-----------------------------------------------------------------------------
(* Rows of a table. *)

Rising(rows) == \A i, j \in DOMAIN rows : i < j => rows[i].id < rows[j].id

\* Rows of values P, in the order of their numbers.
RowsOK(P, rows) == rows \in Seq([id : Nat, of : P]) /\ Rising(rows)

Entries(rows) == {rows[i] : i \in DOMAIN rows}

\* The rows in front are those of before.
Keeps(before, now) ==
  /\ Len(before) <= Len(now)
  /\ \A i \in 1 .. Len(before) : now[i] = before[i]

\* Behind them come the first n entries of the list.
Grown(before, now, list, n) ==
  /\ Keeps(before, now) /\ Len(now) = Len(before) + n
  /\ \A i \in 1 .. n : now[Len(before) + i].of = list[i]

\* Behind them come k rows, from rising places among the first n entries of the list.
GrownFrom(before, now, list, n, k, pos) ==
  /\ Len(now) = Len(before) + k
  /\ pos \in [1 .. k -> 1 .. n]
  /\ \A i, j \in 1 .. k : i < j => pos[i] < pos[j]
  /\ \A i \in 1 .. k : now[Len(before) + i].of = list[pos[i]]
GrownBySome(before, now, list, n) ==
  /\ Keeps(before, now)
  /\ \E pos \in [1 .. Len(now) - Len(before) -> 1 .. n] :
       GrownFrom(before, now, list, n, Len(now) - Len(before), pos)

\* A row has a number and a value.
LEMMA EntryOK ==
    ASSUME NEW P, NEW rows \in Seq([id : Nat, of : P]), NEW i \in DOMAIN rows
    PROVE  rows[i].id \in Nat /\ rows[i].of \in P
<1>1. rows[i] \in [id : Nat, of : P]
  <2> DEFINE R == [id : Nat, of : P]
  <2>1. rows \in Seq(R)
      OBVIOUS
  <2> HIDE DEF R
  <2>2. rows[i] \in R
      BY <2>1
  <2> QED BY <2>2 DEF R
<1> QED BY <1>1

\* A new row's number is larger than all others.
LEMMA NextIdAbove ==
    ASSUME NEW P, NEW rows, RowsOK(P, rows)
    PROVE  NextId(rows) \in Nat /\ \A i \in 1 .. Len(rows) : rows[i].id < NextId(rows) /\ rows[i].id \in Nat
<1> DEFINE R == [id : Nat, of : P]
<1>1. rows \in Seq(R) /\ Len(rows) \in Nat /\ Rising(rows)
    BY DEF RowsOK
<1>2. \A i \in 1 .. Len(rows) : rows[i].id \in Nat
    BY <1>1, EntryOK
<1> HIDE DEF R
<1>3. NextId(rows) \in Nat /\ \A i \in 1 .. Len(rows) : rows[i].id < NextId(rows)
  <2>1. CASE rows = <<>>
      BY <2>1 DEF NextId
  <2>2. CASE rows # <<>>
    <3>1. Len(rows) \in 1 .. Len(rows) /\ Last(rows) = rows[Len(rows)]
        BY <1>1, <2>2 DEF Last
    <3>2. NextId(rows) = rows[Len(rows)].id + 1
        BY <2>2, <3>1 DEF NextId
    <3>3. ASSUME NEW i \in 1 .. Len(rows)
          PROVE  rows[i].id <= rows[Len(rows)].id
      <4>1. i = Len(rows) \/ i < Len(rows)
          BY <1>1
      <4>2. i < Len(rows) => rows[i].id < rows[Len(rows)].id
          BY <1>1, <3>1 DEF Rising
      <4>3. rows[i].id \in Nat /\ rows[Len(rows)].id \in Nat
          BY <1>2, <3>1
      <4> QED BY <4>1, <4>2, <4>3
    <3> QED BY <1>2, <3>1, <3>2, <3>3
  <2> QED BY <2>1, <2>2
<1> QED BY <1>2, <1>3

\* The table with one more row.
LEMMA AppendedOK ==
    ASSUME NEW P, NEW rows, RowsOK(P, rows), NEW x \in P
    PROVE  /\ NextId(rows) \in Nat
           /\ RowsOK(P, Append(rows, [id |-> NextId(rows), of |-> x]))
           /\ Len(Append(rows, [id |-> NextId(rows), of |-> x])) = Len(rows) + 1
<1> DEFINE R == [id : Nat, of : P]
           row == [id |-> NextId(rows), of |-> x]
           more == Append(rows, row)
<1>1. rows \in Seq(R) /\ Len(rows) \in Nat /\ Rising(rows)
    BY DEF RowsOK
<1>2. \A i \in 1 .. Len(rows) : rows[i].id \in Nat
    BY <1>1, EntryOK
<1>3. NextId(rows) \in Nat /\ \A i \in 1 .. Len(rows) : rows[i].id < NextId(rows)
    BY NextIdAbove
<1>4. row \in R /\ row.id = NextId(rows)
    BY <1>3
<1> HIDE DEF row, R
<1>5. more \in Seq(R) /\ Len(more) = Len(rows) + 1
    BY <1>1, <1>4
<1>6. \A i \in 1 .. Len(rows) : more[i] = rows[i]
    BY <1>1
<1>7. more[Len(rows) + 1] = row
    BY <1>1
<1>8. Rising(more)
  <2>1. SUFFICES ASSUME NEW i \in 1 .. Len(rows) + 1, NEW j \in 1 .. Len(rows) + 1, i < j
                 PROVE  more[i].id < more[j].id
      BY <1>5 DEF Rising
  <2>2. i \in 1 .. Len(rows)
      BY <1>1, <2>1
  <2>3. CASE j \in 1 .. Len(rows)
      BY <1>1, <1>6, <2>1, <2>2, <2>3 DEF Rising
  <2>4. CASE j = Len(rows) + 1
      BY <1>3, <1>4, <1>6, <1>7, <2>2, <2>4
  <2> QED BY <1>1, <2>3, <2>4
<1> QED BY <1>3, <1>5, <1>8 DEF RowsOK, R, row

\* The next entry of the list is appended.
LEMMA GrownByNext ==
    ASSUME NEW P, NEW before \in Seq(P), NEW now \in Seq(P), NEW list, NEW n \in Nat,
           Grown(before, now, list, n), NEW row \in P, row.of = list[n + 1]
    PROVE  Grown(before, Append(now, row), list, n + 1)
<1> DEFINE more == Append(now, row)
<1>1. Len(before) \in Nat /\ Len(now) \in Nat /\ Len(now) = Len(before) + n
    BY DEF Grown
<1>2. Len(more) = Len(now) + 1 /\ more[Len(now) + 1] = row
    OBVIOUS
<1>3. \A i \in 1 .. Len(now) : more[i] = now[i]
    OBVIOUS
<1> HIDE DEF more
<1>4. Keeps(before, more)
    BY <1>1, <1>2, <1>3 DEF Grown, Keeps
<1>5. ASSUME NEW i \in 1 .. n + 1
      PROVE  more[Len(before) + i].of = list[i]
  <2>1. CASE i = n + 1
      BY <1>1, <1>2, <2>1
  <2>2. CASE i \in 1 .. n
    <3>1. Len(before) + i \in 1 .. Len(now)
        BY <1>1, <2>2
    <3> QED BY <1>3, <2>2, <3>1 DEF Grown
  <2> QED BY <2>1, <2>2
<1>6. Grown(before, more, list, n + 1)
    BY <1>1, <1>2, <1>4, <1>5 DEF Grown
<1> QED BY <1>6 DEF more

\* The next entry is appended, or is not.
LEMMA GrownByMore ==
    ASSUME NEW P, NEW before \in Seq(P), NEW now \in Seq(P), NEW list, NEW n \in Nat,
           GrownBySome(before, now, list, n), NEW row \in P, row.of = list[n + 1]
    PROVE  /\ GrownBySome(before, Append(now, row), list, n + 1)
           /\ GrownBySome(before, now, list, n + 1)
<1> DEFINE more == Append(now, row)
<1>1. PICK k \in Nat : k = Len(now) - Len(before)
  <2>1. Len(before) \in Nat /\ Len(now) \in Nat /\ Len(before) <= Len(now)
      BY DEF GrownBySome, Keeps
  <2>2. Len(now) - Len(before) \in Nat
      BY <2>1
  <2> QED BY <2>2
<1>2. PICK pos : GrownFrom(before, now, list, n, k, pos)
    BY <1>1 DEF GrownBySome
<1>3. /\ Len(before) \in Nat /\ Len(now) \in Nat /\ Len(now) = Len(before) + k
      /\ pos \in [1 .. k -> 1 .. n]
      /\ \A i, j \in 1 .. k : i < j => pos[i] < pos[j]
      /\ \A i \in 1 .. k : now[Len(before) + i].of = list[pos[i]]
    BY <1>2 DEF GrownFrom
<1>4. GrownBySome(before, now, list, n + 1)
  <2>1. pos \in [1 .. k -> 1 .. n + 1]
      BY <1>3
  <2>2. GrownFrom(before, now, list, n + 1, k, pos)
      BY <1>3, <2>1 DEF GrownFrom
  <2> QED BY <1>1, <2>1, <2>2 DEF GrownBySome
<1>5. GrownBySome(before, more, list, n + 1)
  <2> DEFINE next == [i \in 1 .. k + 1 |-> IF i = k + 1 THEN n + 1 ELSE pos[i]]
  <2>1. Len(more) = Len(now) + 1 /\ more[Len(now) + 1] = row
      OBVIOUS
  <2>2. \A i \in 1 .. Len(now) : more[i] = now[i]
      OBVIOUS
  <2> HIDE DEF more
  <2>3. Keeps(before, more)
    <3>1. Keeps(before, now)
        BY DEF GrownBySome
    <3> QED BY <1>3, <2>1, <2>2, <3>1 DEF Keeps
  <2>4. \A i \in 1 .. k : next[i] = pos[i] /\ pos[i] \in 1 .. n
      BY <1>3
  <2>5. next[k + 1] = n + 1
      OBVIOUS
  <2>6. next \in [1 .. k + 1 -> 1 .. n + 1]
    <3>1. \A i \in 1 .. k + 1 : i = k + 1 \/ i \in 1 .. k
        OBVIOUS
    <3>2. \A i \in 1 .. k + 1 : next[i] \in 1 .. n + 1
      <4> HIDE DEF next
      <4> QED BY <2>4, <2>5, <3>1
    <3> QED BY <3>2
  <2> HIDE DEF next
  <2>7. ASSUME NEW i \in 1 .. k + 1, NEW j \in 1 .. k + 1, i < j
        PROVE  next[i] < next[j]
    <3>1. i \in 1 .. k
        BY <2>7
    <3>2. CASE j \in 1 .. k
        BY <1>3, <2>4, <2>7, <3>1, <3>2
    <3>3. CASE j = k + 1
        BY <2>4, <2>5, <3>1, <3>3
    <3> QED BY <3>2, <3>3
  <2>8. ASSUME NEW i \in 1 .. k + 1
        PROVE  more[Len(before) + i].of = list[next[i]]
    <3>1. CASE i = k + 1
        BY <1>3, <2>1, <2>5, <3>1
    <3>2. CASE i \in 1 .. k
      <4>1. Len(before) + i \in 1 .. Len(now)
          BY <1>3, <3>2
      <4> QED BY <1>3, <2>2, <2>4, <3>2, <4>1
    <3> QED BY <3>1, <3>2
  <2>9. GrownFrom(before, more, list, n + 1, k + 1, next)
      BY <1>3, <2>1, <2>6, <2>7, <2>8 DEF GrownFrom
  <2>10. Len(more) - Len(before) = k + 1
      BY <1>3, <2>1
  <2> QED BY <2>3, <2>6, <2>9, <2>10 DEF GrownBySome
<1> QED BY <1>4, <1>5

\* Nothing has been appended yet.
LEMMA GrownByNothing ==
    ASSUME NEW P, NEW rows \in Seq(P), NEW list
    PROVE  Grown(rows, rows, list, 0) /\ GrownBySome(rows, rows, list, 0)
<1>1. Len(rows) \in Nat
    OBVIOUS
<1>2. Keeps(rows, rows)
    BY <1>1 DEF Keeps
<1>3. Grown(rows, rows, list, 0)
    BY <1>1, <1>2 DEF Grown
<1>4. [i \in 1 .. 0 |-> 0] \in [1 .. 0 -> 1 .. 0]
    OBVIOUS
<1>5. GrownFrom(rows, rows, list, 0, 0, [i \in 1 .. 0 |-> 0])
    BY <1>1, <1>4 DEF GrownFrom
<1>6. Len(rows) - Len(rows) = 0
    BY <1>1
<1> QED BY <1>2, <1>3, <1>4, <1>5, <1>6 DEF GrownBySome

\* Rows that are kept stay in order.
LEMMA KeptRows ==
    ASSUME NEW P, NEW rows, RowsOK(P, rows), NEW R, R \subseteq DOMAIN rows
    PROVE  /\ RowsOK(P, Kept(rows, R))
           /\ Entries(Kept(rows, R)) = {rows[i] : i \in R}
<1> DEFINE k == Kept(rows, R)
<1>1. rows \in Seq([id : Nat, of : P]) /\ Rising(rows)
    BY DEF RowsOK
<1>2. k \in Seq([id : Nat, of : P])
    BY <1>1, KeptAre
<1>3. PICK pos : TakenFrom(rows, R, k, pos)
    BY <1>1, KeptAre
<1> HIDE DEF k
<1>4. Rising(k)
  <2>1. SUFFICES ASSUME NEW i \in DOMAIN k, NEW j \in DOMAIN k, i < j
                 PROVE  k[i].id < k[j].id
      BY DEF Rising
  <2>2. /\ pos[i] \in DOMAIN rows /\ pos[j] \in DOMAIN rows /\ pos[i] < pos[j]
        /\ k[i] = rows[pos[i]] /\ k[j] = rows[pos[j]]
      BY <1>3, <2>1 DEF TakenFrom
  <2> QED BY <1>1, <2>2 DEF Rising
<1>5. Entries(k) = {rows[i] : i \in R}
  <2>1. \A i \in DOMAIN k : pos[i] \in R /\ k[i] = rows[pos[i]]
      BY <1>3 DEF TakenFrom
  <2>2. \A p \in R : \E i \in DOMAIN k : pos[i] = p
      BY <1>3 DEF TakenFrom
  <2> QED BY <2>1, <2>2 DEF Entries
<1> QED BY <1>2, <1>4, <1>5 DEF RowsOK, k

\* Two tables with the same rows are the same.
LEMMA SameRows ==
    ASSUME NEW P, NEW s, RowsOK(P, s), NEW t, RowsOK(P, t), Entries(s) = Entries(t)
    PROVE  s = t
<1>1. /\ s \in Seq([id : Nat, of : P]) /\ t \in Seq([id : Nat, of : P])
      /\ Len(s) \in Nat /\ Len(t) \in Nat /\ DOMAIN s = 1 .. Len(s) /\ DOMAIN t = 1 .. Len(t)
    BY DEF RowsOK
<1>2. /\ \A i \in DOMAIN s : s[i].id \in Nat
      /\ \A i \in DOMAIN t : t[i].id \in Nat
    BY <1>1, EntryOK
<1>3. /\ \A i, j \in DOMAIN s : i < j => s[i].id < s[j].id
      /\ \A i, j \in DOMAIN t : i < j => t[i].id < t[j].id
    BY DEF RowsOK, Rising
<1>4. /\ \A i \in DOMAIN s : \E j \in DOMAIN t : t[j] = s[i]
      /\ \A i \in DOMAIN t : \E j \in DOMAIN s : s[j] = t[i]
    BY DEF Entries
<1> DEFINE T == {i \in Nat : i \in DOMAIN s /\ i \in DOMAIN t /\ s[i] # t[i]}
<1>5. T = {}
  <2>1. SUFFICES ASSUME T # {}
                 PROVE  FALSE
      OBVIOUS
  <2>2. PICK i \in T : \A j \in T : i <= j
    <3>1. T \subseteq Nat
        OBVIOUS
    <3> HIDE DEF T
    <3> QED BY <2>1, <3>1, LeastNat
  <2>3. i \in DOMAIN s /\ i \in DOMAIN t /\ s[i] # t[i] /\ i \in Nat
      OBVIOUS
  <2>4. ASSUME NEW j \in Nat, j < i, 1 <= j
        PROVE  j \in DOMAIN s /\ j \in DOMAIN t /\ s[j] = t[j]
    <3>1. j \in DOMAIN s /\ j \in DOMAIN t
        BY <1>1, <2>3, <2>4
    <3>2. j \notin T
        BY <2>2, <2>4
    <3> QED BY <3>1, <3>2
  <2>5. PICK j \in DOMAIN t : t[j] = s[i]
      BY <1>4, <2>3
  <2>6. PICK m \in DOMAIN s : s[m] = t[i]
      BY <1>4, <2>3
  <2> HIDE DEF T
  <2>7. t[i].id < s[i].id
    <3>1. j \in Nat /\ 1 <= j /\ j # i
        BY <1>1, <2>3, <2>5
    <3>2. ~(j < i)
      <4>1. SUFFICES ASSUME j < i
                     PROVE  FALSE
          OBVIOUS
      <4>2. s[j].id < s[i].id /\ s[j] = s[i]
          BY <1>3, <2>3, <2>4, <2>5, <3>1, <4>1
      <4> QED BY <1>2, <2>3, <4>2
    <3>3. i < j
        BY <2>3, <3>1, <3>2
    <3> QED BY <1>3, <2>3, <2>5, <3>3
  <2>8. s[i].id < t[i].id
    <3>1. m \in Nat /\ 1 <= m /\ m # i
        BY <1>1, <2>3, <2>6
    <3>2. ~(m < i)
      <4>1. SUFFICES ASSUME m < i
                     PROVE  FALSE
          OBVIOUS
      <4>2. t[m].id < t[i].id /\ t[m] = t[i]
          BY <1>3, <2>3, <2>4, <2>6, <3>1, <4>1
      <4> QED BY <1>2, <2>3, <4>2
    <3>3. i < m
        BY <2>3, <3>1, <3>2
    <3> QED BY <1>3, <2>3, <2>6, <3>3
  <2> QED BY <1>2, <2>3, <2>7, <2>8
<1>6. \A i \in Nat : i \in DOMAIN s /\ i \in DOMAIN t => s[i] = t[i]
    BY <1>5
<1> HIDE DEF T
<1>7. ~(Len(s) < Len(t))
  <2>1. SUFFICES ASSUME Len(s) < Len(t)
                 PROVE  FALSE
      OBVIOUS
  <2>2. Len(s) + 1 \in DOMAIN t
      BY <1>1, <2>1
  <2>3. PICK j \in DOMAIN s : s[j] = t[Len(s) + 1]
      BY <1>4, <2>2
  <2>4. j \in Nat /\ j \in DOMAIN t /\ j < Len(s) + 1
      BY <1>1, <2>1
  <2>5. t[j] = t[Len(s) + 1]
      BY <1>6, <2>3, <2>4
  <2>6. t[j].id < t[Len(s) + 1].id
      BY <1>3, <2>2, <2>4
  <2> QED BY <1>2, <2>2, <2>5, <2>6
<1>8. ~(Len(t) < Len(s))
  <2>1. SUFFICES ASSUME Len(t) < Len(s)
                 PROVE  FALSE
      OBVIOUS
  <2>2. Len(t) + 1 \in DOMAIN s
      BY <1>1, <2>1
  <2>3. PICK j \in DOMAIN t : t[j] = s[Len(t) + 1]
      BY <1>4, <2>2
  <2>4. j \in Nat /\ j \in DOMAIN s /\ j < Len(t) + 1
      BY <1>1, <2>1
  <2>5. s[j] = s[Len(t) + 1]
      BY <1>6, <2>3, <2>4
  <2>6. s[j].id < s[Len(t) + 1].id
      BY <1>3, <2>2, <2>4
  <2> QED BY <1>2, <2>2, <2>5, <2>6
<1>9. Len(s) = Len(t)
  <2>1. Len(s) \in Nat /\ Len(t) \in Nat
      BY <1>1
  <2> QED BY <1>7, <1>8, <2>1
<1>10. \A i \in 1 .. Len(s) : s[i] = t[i]
    BY <1>1, <1>6, <1>9
<1> QED BY <1>1, <1>9, <1>10

-----------------------------------------------------------------------------
(* The conditions of a function that deletes or selects. *)

AskedOf(t, cond, mask, row, id) ==
  /\ \A m \in mask \ {"id>", "NULL"} :
       IF m = "id" THEN row.id = id ELSE Value(t, row.of, m) = Value(t, cond, m)
  /\ "id>" \in mask => row.id > id

\* What a row holds in a member's column.
LEMMA ColumnHolds ==
    ASSUME NEW t, NEW column, NEW m, InItsColumn(t, column, m), NEW row
    PROVE  Cell(t, row, column) = IF m = "id" THEN <<"id", row.id>> ELSE Value(t, row.of, m)
<1>1. CASE m = "id"
    BY <1>1 DEF InItsColumn, Cell
<1>2. CASE m # "id"
  <2>1. column # "id" /\ column # "none" /\ Source[t][column] = From(t, m)
      BY <1>2 DEF InItsColumn
  <2>2. Cell(t, row, column) = <<From(t, m)[1], row.of[From(t, m)[2]]>>
      BY <2>1 DEF Cell
  <2> QED BY <1>2, <2>2 DEF From, Value
<1> QED BY <1>1, <1>2

\* A comparison of columns is one of members.
LEMMA ColumnCompares ==
    ASSUME NEW t, NEW column, NEW m, InItsColumn(t, column, m), NEW row, NEW cond, NEW id
    PROVE  (Cell(t, row, column) = IF m = "id" THEN <<"id", id>> ELSE Value(t, cond, m))
             <=> (IF m = "id" THEN row.id = id ELSE Value(t, row.of, m) = Value(t, cond, m))
<1>1. Cell(t, row, column) = IF m = "id" THEN <<"id", row.id>> ELSE Value(t, row.of, m)
    BY ColumnHolds
<1>2. <<"id", row.id>> = <<"id", id>> <=> row.id = id
    OBVIOUS
<1>3. CASE m = "id"
    BY <1>1, <1>2, <1>3
<1>4. CASE m # "id"
    BY <1>1, <1>4
<1> QED BY <1>3, <1>4

\* A row meets the text's conditions when it is one that was asked for.
LEMMA MeetsIsAsked ==
    ASSUME NEW n \in DOMAIN Functions, Functions[n].kind = "delete",
           NEW mask, mask \subseteq DOMAIN Functions[n].where, NEW cond, NEW row, NEW id
    PROVE  Meets(Functions[n], row, mask, cond, id) <=> AskedOf(Functions[n].table, cond, mask, row, id)
<1> DEFINE f == Functions[n]
<1>1. /\ f.hidden = {} /\ "NULL" \notin mask /\ "id>" \notin mask
      /\ \A m \in mask : InItsColumn(f.table, f.where[m], m)
    BY SchemaAssumption
<1>2. ASSUME NEW m \in mask
      PROVE  (Cell(f.table, row, f.where[m]) = IF m = "id" THEN <<"id", id>> ELSE Value(f.table, cond, m))
                <=> (IF m = "id" THEN row.id = id ELSE Value(f.table, row.of, m) = Value(f.table, cond, m))
  <2>1. InItsColumn(f.table, f.where[m], m)
      BY <1>1
  <2> HIDE DEF f
  <2> QED BY <2>1, ColumnCompares
<1>3. Meets(f, row, mask, cond, id) <=>
        \A m \in mask : Cell(f.table, row, f.where[m])
                          = IF m = "id" THEN <<"id", id>> ELSE Value(f.table, cond, m)
    BY <1>1 DEF Meets
<1>4. AskedOf(f.table, cond, mask, row, id) <=>
        \A m \in mask : IF m = "id" THEN row.id = id ELSE Value(f.table, row.of, m) = Value(f.table, cond, m)
    BY <1>1 DEF AskedOf
<1> HIDE DEF f
<1>5. Meets(f, row, mask, cond, id) <=> AskedOf(f.table, cond, mask, row, id)
    BY <1>2, <1>3, <1>4
<1> QED BY <1>5 DEF f

-----------------------------------------------------------------------------
(* What holds while a function runs: c is the call, now the table's rows,  *)
(* held what the thread holds of the file, P the values that are stored.   *)

Steps == {"idle", "insert", "delete", "select", "found", "close", "returned"}
IsCall(c) ==
  /\ c = [step |-> c.step, fn |-> c.fn, mask |-> c.mask, cond |-> c.cond, list |-> c.list,
          next |-> c.next, before |-> c.before, rows |-> c.rows, found |-> c.found, from |-> c.from,
          limit |-> c.limit, answer |-> c.answer, refused |-> c.refused, disturbed |-> c.disturbed, ret |-> c.ret]
  /\ c.step \in Steps /\ c.refused \in BOOLEAN /\ c.disturbed \in BOOLEAN

\* The table as the first statement found it, and the rows that the next one works on.
BeforeOf(c, now) == IF c.next = 1 THEN now ELSE c.before
RowsOf(c, now) == IF c.next = 1 THEN now ELSE c.rows
Working(c) == IF c.next = 1 THEN "none" ELSE "reserved"

\* In a transaction nothing is stored yet, and the other thread waits; otherwise what came
\* before is, or some of it, unless the other thread has changed the table.
Inserting(P, f, c, now, held) ==
  /\ f.kind = "insert" /\ c.list \in Seq(P) /\ c.list # <<>> /\ c.next \in 1 .. Len(c.list) + 1
  /\ RowsOK(P, BeforeOf(c, now))
  /\ f.failed = "rollback" =>
       /\ ~c.refused /\ ~c.disturbed
       /\ held = Working(c) /\ now = BeforeOf(c, now) /\ RowsOK(P, RowsOf(c, now))
       /\ Grown(now, RowsOf(c, now), c.list, c.next - 1)
  /\ f.failed # "rollback" =>
       /\ held = "none"
       /\ c.refused => f.failed = "ignore"
       /\ ~c.refused /\ ~c.disturbed => Grown(BeforeOf(c, now), now, c.list, c.next - 1)
       /\ f.failed = "ignore" /\ ~c.disturbed => GrownBySome(BeforeOf(c, now), now, c.list, c.next - 1)

\* The first n conditions of a list ask for a row.
AskedBy(t, c, n, row) == \E k \in 1 .. n : AskedOf(t, c.cond, c.mask, row, c.list[k])
Without(t, c, before, rows, n) == Entries(rows) = {row \in Entries(before) : ~AskedBy(t, c, n, row)}

\* One statement, or a transaction in which nothing is gone yet.
Deleting(P, f, c, now, held) ==
  /\ f.kind = "delete" /\ (Len(c.list) = 1 \/ f.table = "route")
  /\ Len(c.list) \in Nat \ {0} /\ DOMAIN c.list = 1 .. Len(c.list)
  /\ c.next \in 1 .. Len(c.list) + 1 /\ ~c.refused /\ ~c.disturbed
  /\ c.mask = NULL \/ c.mask \subseteq DOMAIN f.where
  /\ c.mask = NULL \/ f.failed # "rollback" => c.next = 1
  /\ held = Working(c) /\ now = BeforeOf(c, now)
  /\ RowsOK(P, RowsOf(c, now)) /\ Without(f.table, c, now, RowsOf(c, now), c.next - 1)

\* The COMMIT was refused.
Closing(P, f, c, now) ==
  /\ f.kind \in {"insert", "delete"} /\ f.failed = "rollback" /\ c.refused /\ ~c.disturbed
  /\ now = c.before /\ RowsOK(P, now)
  /\ f.kind = "insert" => c.list \in Seq(P)
  /\ f.kind = "delete" => Len(c.list) \in Nat \ {0} /\ DOMAIN c.list = 1 .. Len(c.list)

StoredBy(f, c, now) ==
  /\ Keeps(c.before, now)
  /\ ~c.refused => Grown(c.before, now, c.list, Len(c.list)) /\ c.ret = 0
  /\ f.failed = "rollback" =>
       \/ now = c.before
       \/ Grown(c.before, now, c.list, Len(c.list)) /\ c.ret = 0
  /\ f.failed \notin {"rollback", "ignore"} =>
       \E n \in 0 .. Len(c.list) : Grown(c.before, now, c.list, n) /\ (c.ret = 0 <=> n = Len(c.list))
  /\ f.failed = "ignore" => GrownBySome(c.before, now, c.list, Len(c.list))

Gone(t, c, now) ==
  Entries(now) = {row \in Entries(c.before) : c.mask # NULL /\ ~AskedBy(t, c, Len(c.list), row)}

DeletedBy(f, c, now) ==
  /\ now = c.before \/ Gone(f.table, c, now)
  /\ ~c.refused /\ ~(c.mask = NULL /\ f.table \in {"route"} \cup Silent) => Gone(f.table, c, now)

\* A function has returned; the other thread may have changed the table.
Over(P, f, c, now) ==
  /\ f.kind = "insert" => /\ c.list \in Seq(P) /\ RowsOK(P, c.before)
                          /\ ~c.disturbed => StoredBy(f, c, now)
  /\ f.kind = "delete" => /\ RowsOK(P, c.before) /\ (~c.disturbed => DeletedBy(f, c, now))
                          /\ Len(c.list) \in Nat \ {0} /\ DOMAIN c.list = 1 .. Len(c.list)

CallOK(P, t, c, now, held) ==
  /\ IsCall(c)
  /\ c.step \in {"idle", "select", "returned"} => held = "none"
  /\ c.step = "found" => held = "shared"
  /\ c.step = "close" => held = "pending"
  /\ c.step # "idle" => c.fn \in DOMAIN Functions /\ Functions[c.fn].table = t
  /\ c.step = "insert" => Inserting(P, Functions[c.fn], c, now, held)
  /\ c.step = "delete" => Deleting(P, Functions[c.fn], c, now, held)
  /\ c.step \in {"select", "found"} => Functions[c.fn].kind = "select"
  /\ c.step = "close" => Closing(P, Functions[c.fn], c, now)
  /\ c.step = "returned" => Over(P, Functions[c.fn], c, now)

Untouched == DOMAIN tmsdb_CheckDb \ ({focus} \cup IF focus = "dev_map" THEN {"composition"} ELSE {})

TablesOK(P) ==
  /\ focus \in DOMAIN tmsdb_CheckDb
  /\ stored = [t \in DOMAIN tmsdb_CheckDb |-> stored[t]]
  /\ \A t \in DOMAIN tmsdb_CheckDb : RowsOK(P, stored[t])
  /\ \A t \in Untouched : Len(stored[t]) = 1

DbIInv(P) ==
  /\ TablesOK(P)
  /\ lock = [t \in {Me, Other} |-> lock[t]]
  /\ CallOK(P, focus, call, stored[focus], lock[Me])

-----------------------------------------------------------------------------
(* The steps of a call, from c to d. *)

\* d is c with these fields.
Becomes(c, d, step, before, rows, next, refused, ret) ==
  /\ IsCall(d) /\ d.fn = c.fn /\ d.mask = c.mask /\ d.cond = c.cond /\ d.list = c.list
  /\ d.step = step /\ d.before = before /\ d.rows = rows /\ d.next = next
  /\ (d.refused <=> refused) /\ (d.disturbed <=> c.disturbed) /\ d.ret = ret

\* The row that a statement inserts.
Row(c, rows) == [id |-> NextId(rows), of |-> c.list[c.next]]

\* A row is inserted within a transaction.
LEMMA InsertedWithin ==
    ASSUME NEW P, NEW f, NEW c, NEW d, NEW now, NEW held,
           Inserting(P, f, c, now, held), f.failed = "rollback", c.next <= Len(c.list),
           Becomes(c, d, "insert", BeforeOf(c, now), Append(RowsOf(c, now), Row(c, RowsOf(c, now))),
                   c.next + 1, c.refused, c.ret)
    PROVE  Inserting(P, f, d, now, "reserved")
<1> DEFINE rows == RowsOf(c, now)
           more == Append(rows, Row(c, rows))
           E == [id : Nat, of : P]
<1>1. /\ f.kind = "insert" /\ c.list \in Seq(P) /\ c.list # <<>> /\ c.next \in 1 .. Len(c.list) + 1
      /\ RowsOK(P, now) /\ RowsOK(P, rows) /\ now = BeforeOf(c, now) /\ ~c.refused /\ ~c.disturbed
      /\ Grown(now, rows, c.list, c.next - 1)
    BY DEF Inserting
<1>2. Len(c.list) \in Nat /\ c.next \in 1 .. Len(c.list) /\ c.next \in Nat /\ c.list[c.next] \in P
    BY <1>1
<1>3. RowsOK(P, more)
    BY <1>1, <1>2, AppendedOK DEF Row
<1>4. Row(c, rows) \in E /\ Row(c, rows).of = c.list[c.next]
    BY <1>1, <1>2, AppendedOK DEF Row
<1>5. Grown(now, more, c.list, c.next)
  <2>1. now \in Seq(E) /\ rows \in Seq(E)
      BY <1>1 DEF RowsOK
  <2>2. c.next - 1 \in Nat /\ c.next - 1 + 1 = c.next
      BY <1>2
  <2> HIDE DEF E, rows
  <2>3. Grown(now, more, c.list, c.next - 1 + 1)
      BY <1>1, <1>4, <2>1, <2>2, GrownByNext
  <2> QED BY <2>2, <2>3
<1>6. /\ d.list = c.list /\ d.next = c.next + 1 /\ d.before = now /\ d.rows = more /\ ~d.refused /\ ~d.disturbed
    BY <1>1 DEF Becomes
<1>7. d.next # 1 /\ d.next - 1 = c.next /\ d.next \in 1 .. Len(c.list) + 1
    BY <1>2, <1>6
<1>8. BeforeOf(d, now) = now /\ RowsOf(d, now) = more /\ Working(d) = "reserved"
    BY <1>6, <1>7 DEF BeforeOf, RowsOf, Working
<1> HIDE DEF rows, more
<1> QED BY <1>1, <1>3, <1>5, <1>6, <1>7, <1>8 DEF Inserting

\* A row is inserted by a statement of its own.
LEMMA InsertedAlone ==
    ASSUME NEW P, NEW f, NEW c, NEW d, NEW now, NEW held, RowsOK(P, now),
           Inserting(P, f, c, now, held), f.failed # "rollback", c.next <= Len(c.list),
           Becomes(c, d, "insert", BeforeOf(c, now), c.rows, c.next + 1, c.refused, c.ret)
    PROVE  /\ RowsOK(P, Append(now, Row(c, now)))
           /\ Inserting(P, f, d, Append(now, Row(c, now)), "none")
<1> DEFINE more == Append(now, Row(c, now))
           before == BeforeOf(c, now)
           E == [id : Nat, of : P]
<1>1. /\ f.kind = "insert" /\ c.list \in Seq(P) /\ c.list # <<>> /\ c.next \in 1 .. Len(c.list) + 1
      /\ RowsOK(P, before) /\ (c.refused => f.failed = "ignore")
      /\ (~c.refused /\ ~c.disturbed => Grown(before, now, c.list, c.next - 1))
      /\ (f.failed = "ignore" /\ ~c.disturbed => GrownBySome(before, now, c.list, c.next - 1))
    BY DEF Inserting
<1>2. Len(c.list) \in Nat /\ c.next \in 1 .. Len(c.list) /\ c.next \in Nat /\ c.list[c.next] \in P
    BY <1>1
<1>3. RowsOK(P, more) /\ Row(c, now) \in E /\ Row(c, now).of = c.list[c.next]
    BY <1>2, AppendedOK DEF Row
<1>4. before \in Seq(E) /\ now \in Seq(E)
    BY <1>1 DEF RowsOK
<1>5. PICK n \in Nat : n = c.next - 1 /\ c.next = n + 1
    BY <1>2
<1>6. /\ d.list = c.list /\ d.next = c.next + 1 /\ d.before = before /\ (d.refused <=> c.refused)
      /\ (d.disturbed <=> c.disturbed) /\ d.next # 1 /\ d.next - 1 = n + 1 /\ d.next \in 1 .. Len(c.list) + 1
    BY <1>2, <1>5 DEF Becomes
<1>7. BeforeOf(d, more) = before
    BY <1>6 DEF BeforeOf
<1> HIDE DEF before, E
<1>8. ~c.refused /\ ~c.disturbed => Grown(before, more, c.list, n + 1)
    BY <1>1, <1>3, <1>4, <1>5, GrownByNext
<1>9. f.failed = "ignore" /\ ~c.disturbed => GrownBySome(before, more, c.list, n + 1)
    BY <1>1, <1>3, <1>4, <1>5, GrownByMore
<1> HIDE DEF more
<1>10. Inserting(P, f, d, more, "none")
    BY <1>1, <1>6, <1>7, <1>8, <1>9 DEF Inserting
<1> QED BY <1>3, <1>10 DEF more

\* A statement is refused and passed over.
LEMMA PassedOver ==
    ASSUME NEW P, NEW f, NEW c, NEW d, NEW now, NEW held, RowsOK(P, now),
           Inserting(P, f, c, now, held), f.failed = "ignore", c.next <= Len(c.list),
           Becomes(c, d, "insert", BeforeOf(c, now), c.rows, c.next + 1, TRUE, c.ret)
    PROVE  Inserting(P, f, d, now, "none")
<1> DEFINE before == BeforeOf(c, now)
           E == [id : Nat, of : P]
<1>1. /\ f.kind = "insert" /\ c.list \in Seq(P) /\ c.list # <<>> /\ c.next \in 1 .. Len(c.list) + 1
      /\ RowsOK(P, before) /\ (~c.disturbed => GrownBySome(before, now, c.list, c.next - 1))
    BY DEF Inserting
<1>2. Len(c.list) \in Nat /\ c.next \in 1 .. Len(c.list) /\ c.next \in Nat /\ c.list[c.next] \in P
    BY <1>1
<1>3. [id |-> 0, of |-> c.list[c.next]] \in E
    BY <1>2
<1>4. before \in Seq(E) /\ now \in Seq(E)
    BY <1>1 DEF RowsOK
<1>5. PICK n \in Nat : n = c.next - 1 /\ c.next = n + 1
    BY <1>2
<1>6. /\ d.list = c.list /\ d.next = c.next + 1 /\ d.before = before /\ d.refused
      /\ (d.disturbed <=> c.disturbed) /\ d.next # 1 /\ d.next - 1 = n + 1 /\ d.next \in 1 .. Len(c.list) + 1
    BY <1>2, <1>5 DEF Becomes
<1>7. BeforeOf(d, now) = before
    BY <1>6 DEF BeforeOf
<1>8. ~c.disturbed => GrownBySome(before, now, c.list, n + 1)
  <2>1. PICK row \in E : row.of = c.list[n + 1]
      BY <1>3, <1>5
  <2> HIDE DEF before, E
  <2> QED BY <1>1, <1>4, <1>5, <2>1, GrownByMore
<1> HIDE DEF before, E
<1> QED BY <1>1, <1>6, <1>7, <1>8 DEF Inserting

\* A statement is refused, and the function gives up.
LEMMA GivenUp ==
    ASSUME NEW P, NEW f, NEW c, NEW d, NEW now, NEW held, RowsOK(P, now),
           Inserting(P, f, c, now, held), f.failed # "ignore", c.next <= Len(c.list),
           Becomes(c, d, "returned", BeforeOf(c, now), c.rows, c.next, TRUE, -1)
    PROVE  Over(P, f, d, now)
<1> DEFINE before == BeforeOf(c, now)
<1>1. /\ f.kind = "insert" /\ c.list \in Seq(P) /\ c.next \in 1 .. Len(c.list) + 1
      /\ RowsOK(P, before)
      /\ f.failed = "rollback" => now = before
      /\ f.failed # "rollback" /\ ~c.disturbed => Grown(before, now, c.list, c.next - 1)
    BY DEF Inserting
<1>2. Len(c.list) \in Nat /\ c.next - 1 \in 0 .. Len(c.list) /\ c.next - 1 # Len(c.list)
    BY <1>1
<1>3. d.list = c.list /\ d.before = before /\ d.refused /\ d.ret = -1 /\ d.ret # 0
      /\ (d.disturbed <=> c.disturbed)
    BY DEF Becomes
<1>4. before \in Seq([id : Nat, of : P])
    BY <1>1 DEF RowsOK
<1>5. ~c.disturbed => Keeps(before, now)
  <2>1. CASE f.failed = "rollback"
    <3>1. Grown(before, before, c.list, 0)
        BY <1>4, GrownByNothing
    <3> QED BY <1>1, <2>1, <3>1 DEF Grown
  <2>2. CASE f.failed # "rollback"
      BY <1>1, <2>2 DEF Grown
  <2> QED BY <2>1, <2>2
<1> HIDE DEF before
<1>6. f.failed \notin {"rollback", "ignore"} /\ ~c.disturbed =>
        \E n \in 0 .. Len(d.list) : Grown(before, now, d.list, n) /\ (d.ret = 0 <=> n = Len(d.list))
    BY <1>1, <1>2, <1>3
<1>7. ~d.disturbed => StoredBy(f, d, now)
    BY <1>1, <1>3, <1>5, <1>6 DEF StoredBy
<1> QED BY <1>1, <1>3, <1>7 DEF Over

\* All rows are inserted, and what was to be done with a transaction has been done.
LEMMA AllInserted ==
    ASSUME NEW P, NEW f, NEW c, NEW d, NEW now, NEW held, NEW later,
           Inserting(P, f, c, now, held), c.next > Len(c.list),
           later = IF f.failed = "rollback" THEN c.rows ELSE now,
           Becomes(c, d, "returned", c.before, c.rows, c.next, c.refused, 0)
    PROVE  Over(P, f, d, later) /\ (f.failed = "rollback" => RowsOK(P, later))
<1>1. /\ f.kind = "insert" /\ c.list \in Seq(P) /\ c.list # <<>> /\ c.next \in 1 .. Len(c.list) + 1
    BY DEF Inserting
<1>2. Len(c.list) \in Nat /\ c.next = Len(c.list) + 1 /\ c.next # 1 /\ c.next - 1 = Len(c.list)
      /\ Len(c.list) \in 0 .. Len(c.list)
    BY <1>1
<1>3. BeforeOf(c, now) = c.before /\ RowsOf(c, now) = c.rows
    BY <1>2 DEF BeforeOf, RowsOf
<1>4. d.list = c.list /\ d.before = c.before /\ (d.refused <=> c.refused) /\ d.ret = 0
      /\ (d.disturbed <=> c.disturbed)
    BY DEF Becomes
<1>5. /\ RowsOK(P, c.before)
      /\ f.failed = "rollback" => RowsOK(P, later)
      /\ ~c.refused /\ ~c.disturbed => Grown(c.before, later, c.list, Len(c.list))
      /\ c.refused => f.failed = "ignore"
      /\ f.failed = "ignore" /\ ~c.disturbed => GrownBySome(c.before, later, c.list, Len(c.list))
  <2>1. CASE f.failed = "rollback"
      BY <1>2, <1>3, <2>1 DEF Inserting
  <2>2. CASE f.failed # "rollback"
      BY <1>2, <1>3, <2>2 DEF Inserting
  <2> QED BY <2>1, <2>2
<1>6. ~c.disturbed => Keeps(c.before, later)
    BY <1>5 DEF Grown, GrownBySome
<1>7. ~d.disturbed => StoredBy(f, d, later)
    BY <1>2, <1>4, <1>5, <1>6 DEF StoredBy
<1> QED BY <1>1, <1>4, <1>5, <1>7 DEF Over

\* What is asked for does not change.
LEMMA StillAsked ==
    ASSUME NEW t, NEW c, NEW d, d.cond = c.cond, d.mask = c.mask, d.list = c.list, NEW n, NEW row
    PROVE  AskedBy(t, d, n, row) <=> AskedBy(t, c, n, row)
BY DEF AskedBy

\* What stays when a function deletes the rows that meet the condition with a number.
Staying(f, c, rows, id) == Kept(rows, {i \in DOMAIN rows : ~Meets(f, rows[i], c.mask, c.cond, id)})

\* A statement deletes the rows that its conditions ask for, whatever was deleted before.
LEMMA DeletedMore ==
    ASSUME NEW P, NEW n \in DOMAIN Functions, NEW c, NEW before, NEW rows, RowsOK(P, rows),
           Functions[n].kind = "delete", c.mask \subseteq DOMAIN Functions[n].where, NEW k \in Nat,
           Without(Functions[n].table, c, before, rows, k),
           NEW more, more = Staying(Functions[n], c, rows, c.list[k + 1])
    PROVE  RowsOK(P, more) /\ Without(Functions[n].table, c, before, more, k + 1)
<1> DEFINE t == Functions[n].table
           R == {i \in DOMAIN rows : ~Meets(Functions[n], rows[i], c.mask, c.cond, c.list[k + 1])}
           Also(row) == AskedOf(t, c.cond, c.mask, row, c.list[k + 1])
<1>1. RowsOK(P, more) /\ Entries(more) = {rows[i] : i \in R}
  <2>1. R \subseteq DOMAIN rows /\ more = Kept(rows, R)
      BY DEF Staying
  <2> HIDE DEF R
  <2> QED BY <2>1, KeptRows
<1>2. \A i \in DOMAIN rows : i \in R <=> ~Also(rows[i])
    BY MeetsIsAsked
<1> HIDE DEF R, Also
<1>3. Entries(more) = {row \in Entries(rows) : ~Also(row)}
  <2>1. {rows[i] : i \in R} = {row \in {rows[i] : i \in DOMAIN rows} : ~Also(row)}
    <3>1. R \subseteq DOMAIN rows
        BY DEF R
    <3> QED BY <1>2, <3>1
  <2> QED BY <1>1, <2>1 DEF Entries
<1>4. ASSUME NEW row
      PROVE  AskedBy(t, c, k + 1, row) <=> AskedBy(t, c, k, row) \/ Also(row)
  <2>1. 1 .. k + 1 = (1 .. k) \cup {k + 1}
      OBVIOUS
  <2> QED BY <2>1 DEF AskedBy, Also
<1>5. Without(t, c, before, more, k + 1)
    BY <1>3, <1>4 DEF Without
<1> QED BY <1>1, <1>5

\* A row's condition is met within a transaction.
LEMMA DeletedWithin ==
    ASSUME NEW P, NEW n \in DOMAIN Functions, NEW c, NEW d, NEW now, NEW held, NEW more,
           Deleting(P, Functions[n], c, now, held), Functions[n].failed = "rollback", c.mask # NULL,
           c.next <= Len(c.list),
           more = Staying(Functions[n], c, RowsOf(c, now), c.list[c.next]),
           Becomes(c, d, "delete", BeforeOf(c, now), more, c.next + 1, c.refused, c.ret)
    PROVE  Deleting(P, Functions[n], d, now, "reserved")
<1> DEFINE f == Functions[n]
           rows == RowsOf(c, now)
<1>1. /\ f.kind = "delete" /\ (Len(c.list) = 1 \/ f.table = "route")
      /\ Len(c.list) \in Nat \ {0} /\ DOMAIN c.list = 1 .. Len(c.list)
      /\ c.next \in 1 .. Len(c.list) + 1 /\ ~c.refused /\ ~c.disturbed /\ c.mask \subseteq DOMAIN f.where
      /\ now = BeforeOf(c, now) /\ RowsOK(P, rows) /\ Without(f.table, c, now, rows, c.next - 1)
    BY DEF Deleting
<1>2. PICK k \in Nat : k = c.next - 1 /\ c.next = k + 1
    BY <1>1
<1>3. /\ d.list = c.list /\ d.mask = c.mask /\ d.cond = c.cond /\ d.before = now /\ d.rows = more
      /\ d.next = k + 2 /\ ~d.refused /\ ~d.disturbed
  <2>1. d.next = c.next + 1 /\ d.list = c.list /\ d.mask = c.mask /\ d.cond = c.cond /\ d.rows = more
      BY DEF Becomes
  <2>2. d.before = now /\ ~d.refused /\ ~d.disturbed
      BY <1>1 DEF Becomes
  <2>3. d.next = k + 2
      BY <1>2, <2>1
  <2> QED BY <2>1, <2>2, <2>3
<1>4. d.next # 1 /\ d.next - 1 = k + 1 /\ d.next \in 1 .. Len(c.list) + 1
  <2>1. Len(c.list) \in Nat /\ k + 1 <= Len(c.list) /\ d.next = k + 2
      BY <1>1, <1>2, <1>3
  <2> QED BY <2>1
<1>5. BeforeOf(d, now) = now /\ RowsOf(d, now) = more /\ Working(d) = "reserved"
    BY <1>3, <1>4 DEF BeforeOf, RowsOf, Working
<1>6. RowsOK(P, more) /\ Without(f.table, c, now, more, k + 1)
  <2> HIDE DEF rows
  <2>1. more = Staying(Functions[n], c, rows, c.list[k + 1])
      BY <1>2 DEF rows
  <2> QED BY <1>1, <1>2, <2>1, DeletedMore
<1>7. Without(f.table, d, now, more, k + 1)
    BY <1>3, <1>6, StillAsked DEF Without
<1> HIDE DEF f, rows
<1>8. f.failed = "rollback"
    BY DEF f
<1>9. Deleting(P, f, d, now, "reserved")
    BY <1>1, <1>3, <1>4, <1>5, <1>6, <1>7, <1>8 DEF Deleting
<1> QED BY <1>9 DEF f

\* One statement deletes what is asked for.
LEMMA DeletedAlone ==
    ASSUME NEW P, NEW n \in DOMAIN Functions, NEW c, NEW d, NEW now, NEW held, NEW more,
           Deleting(P, Functions[n], c, now, held), Functions[n].failed # "rollback", c.mask # NULL,
           more = Staying(Functions[n], c, now, c.list[1]),
           Becomes(c, d, "returned", BeforeOf(c, now), c.rows, c.next, c.refused, c.ret)
    PROVE  RowsOK(P, more) /\ Over(P, Functions[n], d, more)
<1> DEFINE f == Functions[n]
<1>1. /\ f.kind = "delete" /\ c.next = 1 /\ RowsOf(c, now) = now /\ BeforeOf(c, now) = now
      /\ (Len(c.list) = 1 \/ f.table = "route")
      /\ Len(c.list) \in Nat \ {0} /\ DOMAIN c.list = 1 .. Len(c.list)
      /\ c.mask \subseteq DOMAIN f.where
      /\ RowsOK(P, now) /\ Without(f.table, c, now, now, 0)
    BY DEF Deleting, RowsOf, BeforeOf
<1>2. Len(c.list) = 1
    BY <1>1, SchemaAssumption
<1>3. RowsOK(P, more) /\ Without(f.table, c, now, more, 1)
  <2>1. 0 \in Nat /\ 0 + 1 = 1
      OBVIOUS
  <2> QED BY <1>1, <2>1, DeletedMore
<1>4. d.list = c.list /\ d.mask = c.mask /\ d.cond = c.cond /\ d.before = now
    BY <1>1 DEF Becomes
<1> HIDE DEF f
<1>5. Gone(f.table, d, more)
  <2>1. \A row : AskedBy(f.table, d, Len(d.list), row) <=> AskedBy(f.table, c, 1, row)
      BY <1>2, <1>4, StillAsked
  <2> QED BY <1>3, <1>4, <2>1 DEF Without, Gone
<1>6. DeletedBy(f, d, more)
    BY <1>5 DEF DeletedBy
<1>7. f.kind # "insert"
    BY <1>1
<1>8. Over(P, f, d, more)
    BY <1>1, <1>4, <1>6, <1>7 DEF Over
<1> QED BY <1>3, <1>8 DEF f

\* Without a condition all rows go.
LEMMA DeletedAll ==
    ASSUME NEW P, NEW f, NEW c, NEW d, NEW now, NEW held, Deleting(P, f, c, now, held), c.mask = NULL,
           Becomes(c, d, "returned", BeforeOf(c, now), c.rows, c.next, c.refused, c.ret)
    PROVE  RowsOK(P, <<>>) /\ Over(P, f, d, <<>>)
<1>1. /\ f.kind = "delete" /\ c.next = 1 /\ RowsOf(c, now) = now /\ BeforeOf(c, now) = now
      /\ Len(c.list) \in Nat \ {0} /\ DOMAIN c.list = 1 .. Len(c.list) /\ RowsOK(P, now)
    BY DEF Deleting, RowsOf, BeforeOf
<1>2. d.list = c.list /\ d.mask = NULL /\ d.before = now
    BY <1>1 DEF Becomes
<1>3. RowsOK(P, <<>>)
    BY DEF RowsOK, Rising
<1>4. Gone(f.table, d, <<>>)
  <2>1. Entries(<<>>) = {}
      BY DEF Entries
  <2> QED BY <1>2, <2>1 DEF Gone
<1>5. DeletedBy(f, d, <<>>)
    BY <1>4 DEF DeletedBy
<1> QED BY <1>1, <1>2, <1>3, <1>5 DEF Over

\* A function that does not delete, because a statement was refused or because it never does.
LEMMA DeletedNothing ==
    ASSUME NEW P, NEW f, NEW c, NEW d, NEW now, RowsOK(P, now), NEW held, NEW refused, NEW ret,
           Deleting(P, f, c, now, held), refused \/ (c.mask = NULL /\ f.table \in {"route"} \cup Silent),
           Becomes(c, d, "returned", BeforeOf(c, now), c.rows, c.next, refused, ret)
    PROVE  Over(P, f, d, now)
<1>1. /\ f.kind = "delete" /\ now = BeforeOf(c, now)
      /\ Len(c.list) \in Nat \ {0} /\ DOMAIN c.list = 1 .. Len(c.list)
    BY DEF Deleting
<1>2. d.list = c.list /\ d.mask = c.mask /\ d.before = now /\ (d.refused <=> refused)
    BY <1>1 DEF Becomes
<1>3. DeletedBy(f, d, now)
    BY <1>2 DEF DeletedBy
<1> QED BY <1>1, <1>2, <1>3 DEF Over

\* The transaction is committed.
LEMMA AllDeleted ==
    ASSUME NEW P, NEW f, NEW c, NEW d, NEW now, RowsOK(P, now), NEW held, Deleting(P, f, c, now, held),
           c.mask # NULL, c.next > Len(c.list),
           Becomes(c, d, "returned", c.before, c.rows, c.next, c.refused, 0)
    PROVE  RowsOK(P, c.rows) /\ Over(P, f, d, c.rows)
<1>1. /\ f.kind = "delete" /\ now = BeforeOf(c, now)
      /\ Len(c.list) \in Nat \ {0} /\ DOMAIN c.list = 1 .. Len(c.list) /\ c.next \in 1 .. Len(c.list) + 1
      /\ RowsOK(P, RowsOf(c, now)) /\ Without(f.table, c, now, RowsOf(c, now), c.next - 1)
    BY DEF Deleting
<1>2. c.next # 1 /\ c.next - 1 = Len(c.list)
    BY <1>1
<1>3. RowsOf(c, now) = c.rows /\ now = c.before
    BY <1>1, <1>2 DEF RowsOf, BeforeOf
<1>4. d.list = c.list /\ d.mask = c.mask /\ d.cond = c.cond /\ d.before = c.before
    BY DEF Becomes
<1>5. Gone(f.table, d, c.rows)
  <2>1. \A row : AskedBy(f.table, d, Len(d.list), row) <=> AskedBy(f.table, c, Len(c.list), row)
      BY <1>4, StillAsked
  <2> QED BY <1>1, <1>2, <1>3, <1>4, <2>1 DEF Without, Gone
<1>6. DeletedBy(f, d, c.rows)
    BY <1>5 DEF DeletedBy
<1> QED BY <1>1, <1>3, <1>4, <1>6 DEF Over

-----------------------------------------------------------------------------
(* The tables and the lock. *)

\* Nothing is stored.
LEMMA TablesStay ==
    ASSUME NEW P, TablesOK(P), focus' = focus, stored' = stored
    PROVE  TablesOK(P)' /\ stored'[focus] = stored[focus]
BY DEF TablesOK, Untouched

\* The thread's own table changes.
LEMMA TableChanges ==
    ASSUME NEW P, TablesOK(P), focus' = focus, NEW rows, RowsOK(P, rows),
           stored' = [stored EXCEPT ![focus] = rows]
    PROVE  TablesOK(P)' /\ stored'[focus] = rows
<1>1. /\ focus \in DOMAIN tmsdb_CheckDb
      /\ stored = [t \in DOMAIN tmsdb_CheckDb |-> stored[t]]
      /\ \A t \in DOMAIN tmsdb_CheckDb : RowsOK(P, stored[t])
      /\ \A t \in Untouched : Len(stored[t]) = 1
    BY DEF TablesOK
<1>2. /\ stored' = [t \in DOMAIN tmsdb_CheckDb |-> stored'[t]]
      /\ stored'[focus] = rows
      /\ \A t \in DOMAIN tmsdb_CheckDb : t # focus => stored'[t] = stored[t]
    BY <1>1
<1>3. Untouched' = Untouched /\ focus \notin Untouched /\ Untouched \subseteq DOMAIN tmsdb_CheckDb
    BY DEF Untouched
<1>4. \A t \in DOMAIN tmsdb_CheckDb : RowsOK(P, stored'[t])
    BY <1>1, <1>2
<1>5. \A t \in Untouched' : Len(stored'[t]) = 1
    BY <1>1, <1>2, <1>3
<1>6. TablesOK(P)'
    BY <1>1, <1>2, <1>4, <1>5 DEF TablesOK
<1> QED BY <1>2, <1>6

\* Without a condition the table of names leaves its own rows and empties the composition.
LEMMA CompositionEmptied ==
    ASSUME NEW P, TablesOK(P), focus' = focus, focus = "dev_map",
           stored' = [stored EXCEPT !["composition"] = <<>>]
    PROVE  TablesOK(P)' /\ stored'[focus] = stored[focus]
<1>1. /\ focus \in DOMAIN tmsdb_CheckDb
      /\ stored = [t \in DOMAIN tmsdb_CheckDb |-> stored[t]]
      /\ \A t \in DOMAIN tmsdb_CheckDb : RowsOK(P, stored[t])
      /\ \A t \in Untouched : Len(stored[t]) = 1
    BY DEF TablesOK
<1>2. /\ stored' = [t \in DOMAIN tmsdb_CheckDb |-> stored'[t]]
      /\ \A t \in DOMAIN tmsdb_CheckDb : stored'[t] = IF t = "composition" THEN <<>> ELSE stored[t]
    BY <1>1
<1>3. Untouched' = Untouched /\ "composition" \notin Untouched /\ Untouched \subseteq DOMAIN tmsdb_CheckDb
    BY DEF Untouched
<1>4. RowsOK(P, <<>>)
    BY DEF RowsOK, Rising
<1>5. \A t \in DOMAIN tmsdb_CheckDb : RowsOK(P, stored'[t])
    BY <1>1, <1>2, <1>4
<1>6. \A t \in Untouched' : Len(stored'[t]) = 1
    BY <1>1, <1>2, <1>3
<1>7. TablesOK(P)'
    BY <1>1, <1>2, <1>5, <1>6 DEF TablesOK
<1> QED BY <1>1, <1>2, <1>7

LockOK == lock = [t \in {Me, Other} |-> lock[t]]

\* The thread's own lock, and the other's.
LEMMA LockChanges ==
    ASSUME LockOK, NEW held
    PROVE  /\ lock' = With(lock, Me, held) => LockOK' /\ lock'[Me] = held
           /\ lock' = With(lock, Other, held) => LockOK' /\ lock'[Me] = lock[Me]
BY DEF LockOK, With, Me, Other

-----------------------------------------------------------------------------
(* Every step keeps the invariant. *)

\* A statement that inserts, and the end of a function that does.
LEMMA InsertStep ==
    ASSUME NEW P, DbIInv(P), Insert
    PROVE  DbIInv(P)'
<1> DEFINE now == stored[focus]
           rows == RowsOf(call, now)
<1>1. /\ TablesOK(P) /\ LockOK /\ IsCall(call) /\ call.step = "insert" /\ focus' = focus
      /\ call.fn \in DOMAIN Functions /\ F = Functions[call.fn] /\ F.table = focus
      /\ RowsOK(P, now) /\ Inserting(P, F, call, now, lock[Me])
    BY DEF DbIInv, LockOK, TablesOK, CallOK, Insert, F
<1>2. Len(call.list) \in Nat /\ call.next \in Nat
    BY <1>1 DEF Inserting
<1>3. Rows = rows
    BY DEF Rows, RowsOf
<1>4. ASSUME TablesOK(P)', LockOK', CallOK(P, focus, call', stored'[focus], lock'[Me])
      PROVE  DbIInv(P)'
    BY <1>1, <1>4 DEF DbIInv, LockOK
<1>5. CASE call.next <= Len(call.list) /\ Transaction /\ InTransaction(Appended(Rows)) /\ UNCHANGED stored
  <2>1. TablesOK(P)' /\ stored'[focus] = now
      BY <1>1, <1>5, TablesStay
  <2>2. CASE CanReserve(lock, Me)
    <3>1. lock' = With(lock, Me, "reserved")
        BY <1>5, <2>2 DEF InTransaction
    <3>2. Becomes(call, call', "insert", BeforeOf(call, now), Append(rows, Row(call, rows)),
                  call.next + 1, call.refused, call.ret)
        BY <1>1, <1>3, <1>5, <2>2
           DEF InTransaction, Begun, Becomes, IsCall, Steps, BeforeOf, Appended, Row
    <3>3. Inserting(P, F, call', now, "reserved")
        BY <1>1, <1>5, <3>2, InsertedWithin DEF Transaction
    <3>4. CallOK(P, focus, call', stored'[focus], lock'[Me])
        BY <1>1, <2>1, <3>1, <3>2, <3>3, LockChanges DEF CallOK, Becomes
    <3> QED BY <1>1, <1>4, <2>1, <3>1, <3>4, LockChanges
  <2>3. CASE ~CanReserve(lock, Me)
    <3>1. lock' = With(lock, Me, "none")
        BY <1>5, <2>3 DEF InTransaction
    <3>2. Becomes(call, call', "returned", BeforeOf(call, now), call.rows, call.next, TRUE, -1)
        BY <1>1, <1>5, <2>3, ZenonT(60) DEF InTransaction, Begun, Becomes, IsCall, Steps, BeforeOf
    <3>3. Over(P, F, call', now)
        BY <1>1, <1>5, <3>2, GivenUp DEF Transaction
    <3>4. CallOK(P, focus, call', stored'[focus], lock'[Me])
        BY <1>1, <2>1, <3>1, <3>2, <3>3, LockChanges DEF CallOK, Becomes
    <3> QED BY <1>1, <1>4, <2>1, <3>1, <3>4, LockChanges
  <2> QED BY <2>2, <2>3
<1>6. CASE call.next <= Len(call.list) /\ ~Transaction /\ InsertRow /\ UNCHANGED lock
  <2>1. LockOK' /\ lock'[Me] = "none"
      BY <1>1, <1>6 DEF Inserting, Transaction, LockOK
  <2>2. CASE CanWrite(lock, Me)
    <3>1. stored' = [stored EXCEPT ![focus] = Append(now, Row(call, now))]
        BY <1>6, <2>2 DEF InsertRow, Appended, Row
    <3>2. Becomes(call, call', "insert", BeforeOf(call, now), call.rows, call.next + 1,
                  call.refused, call.ret)
        BY <1>1, <1>6, <2>2 DEF InsertRow, Begun, Becomes, IsCall, Steps, BeforeOf
    <3>3. /\ RowsOK(P, Append(now, Row(call, now)))
          /\ Inserting(P, F, call', Append(now, Row(call, now)), "none")
        BY <1>1, <1>6, <3>2, InsertedAlone DEF Transaction
    <3>4. TablesOK(P)' /\ stored'[focus] = Append(now, Row(call, now))
        BY <1>1, <3>1, <3>3, TableChanges
    <3>5. CallOK(P, focus, call', stored'[focus], lock'[Me])
        BY <1>1, <2>1, <3>2, <3>3, <3>4 DEF CallOK, Becomes
    <3> QED BY <1>4, <2>1, <3>4, <3>5
  <2>3. CASE ~CanWrite(lock, Me)
    <3>1. TablesOK(P)' /\ stored'[focus] = now
        BY <1>1, <1>6, <2>3, TablesStay DEF InsertRow
    <3>2. CASE F.failed = "ignore"
      <4>1. Becomes(call, call', "insert", BeforeOf(call, now), call.rows, call.next + 1, TRUE, call.ret)
          BY <1>1, <1>6, <2>3, <3>2 DEF InsertRow, Begun, Becomes, IsCall, Steps, BeforeOf
      <4>2. Inserting(P, F, call', now, "none")
          BY <1>1, <1>6, <3>2, <4>1, PassedOver
      <4>3. CallOK(P, focus, call', stored'[focus], lock'[Me])
          BY <1>1, <2>1, <3>1, <4>1, <4>2 DEF CallOK, Becomes
      <4> QED BY <1>4, <2>1, <3>1, <4>3
    <3>3. CASE F.failed # "ignore"
      <4>1. Becomes(call, call', "returned", BeforeOf(call, now), call.rows, call.next, TRUE, -1)
          BY <1>1, <1>6, <2>3, <3>3, ZenonT(60) DEF InsertRow, Begun, Becomes, IsCall, Steps, BeforeOf
      <4>2. Over(P, F, call', now)
          BY <1>1, <1>6, <3>3, <4>1, GivenUp
      <4>3. CallOK(P, focus, call', stored'[focus], lock'[Me])
          BY <1>1, <2>1, <3>1, <4>1, <4>2 DEF CallOK, Becomes
      <4> QED BY <1>4, <2>1, <3>1, <4>3
    <3> QED BY <3>2, <3>3
  <2> QED BY <2>2, <2>3
<1>7. CASE call.next > Len(call.list) /\ Transaction /\ Commit
  <2>1. CASE CanCommit(lock, Me)
    <3>1. stored' = [stored EXCEPT ![focus] = call.rows] /\ lock' = With(lock, Me, "none")
        BY <1>7, <2>1 DEF Commit
    <3>2. Becomes(call, call', "returned", call.before, call.rows, call.next, call.refused, 0)
        BY <1>1, <1>7, <2>1 DEF Commit, Return, Becomes, IsCall, Steps
    <3>3. RowsOK(P, call.rows) /\ Over(P, F, call', call.rows)
        BY <1>1, <1>7, <3>2, AllInserted DEF Transaction
    <3>4. TablesOK(P)' /\ stored'[focus] = call.rows
        BY <1>1, <3>1, <3>3, TableChanges
    <3>5. CallOK(P, focus, call', stored'[focus], lock'[Me])
        BY <1>1, <3>1, <3>2, <3>3, <3>4, LockChanges DEF CallOK, Becomes
    <3> QED BY <1>1, <1>4, <3>1, <3>4, <3>5, LockChanges
  <2>2. CASE ~CanCommit(lock, Me)
    <3>1. stored' = stored /\ lock' = With(lock, Me, "pending")
        BY <1>7, <2>2 DEF Commit
    <3>2. Becomes(call, call', "close", call.before, call.rows, call.next, TRUE, call.ret)
        BY <1>1, <1>7, <2>2, ZenonT(60) DEF Commit, Becomes, IsCall, Steps
    <3>3. call.next # 1
        BY <1>1, <1>2, <1>7 DEF Inserting
    <3>4. Closing(P, F, call', now)
        BY <1>1, <1>7, <3>2, <3>3 DEF Inserting, BeforeOf, Closing, Becomes, Transaction
    <3>5. TablesOK(P)' /\ stored'[focus] = now
        BY <1>1, <3>1, TablesStay
    <3>6. CallOK(P, focus, call', stored'[focus], lock'[Me])
        BY <1>1, <3>1, <3>2, <3>4, <3>5, LockChanges DEF CallOK, Becomes
    <3> QED BY <1>1, <1>4, <3>1, <3>5, <3>6, LockChanges
  <2> QED BY <2>1, <2>2
<1>8. CASE call.next > Len(call.list) /\ ~Transaction /\ Return(0) /\ UNCHANGED <<stored, lock>>
  <2>1. TablesOK(P)' /\ stored'[focus] = now
      BY <1>1, <1>8, TablesStay
  <2>2. LockOK' /\ lock'[Me] = "none"
      BY <1>1, <1>8 DEF Inserting, Transaction, LockOK
  <2>3. Becomes(call, call', "returned", call.before, call.rows, call.next, call.refused, 0)
      BY <1>1, <1>8 DEF Return, Becomes, IsCall, Steps
  <2>4. Over(P, F, call', now)
      BY <1>1, <1>8, <2>3, AllInserted DEF Transaction
  <2>5. CallOK(P, focus, call', stored'[focus], lock'[Me])
      BY <1>1, <2>1, <2>2, <2>3, <2>4 DEF CallOK, Becomes
  <2> QED BY <1>4, <2>1, <2>2, <2>5
<1> QED BY <1>5, <1>6, <1>7, <1>8 DEF Insert

\* A statement that deletes, and the end of a function that does.
LEMMA DeleteStep ==
    ASSUME NEW P, DbIInv(P), Delete
    PROVE  DbIInv(P)'
<1> DEFINE now == stored[focus]
           rows == RowsOf(call, now)
<1>1. /\ TablesOK(P) /\ LockOK /\ IsCall(call) /\ call.step = "delete" /\ focus' = focus
      /\ call.fn \in DOMAIN Functions /\ F = Functions[call.fn] /\ F.table = focus
      /\ RowsOK(P, now) /\ Deleting(P, F, call, now, lock[Me])
    BY DEF DbIInv, LockOK, TablesOK, CallOK, Delete, F
<1>2. Len(call.list) \in Nat /\ call.next \in Nat /\ F.kind = "delete"
    BY <1>1 DEF Deleting
<1>3. Rows = rows
    BY DEF Rows, RowsOf
<1>4. ASSUME TablesOK(P)', LockOK', CallOK(P, focus, call', stored'[focus], lock'[Me])
      PROVE  DbIInv(P)'
    BY <1>1, <1>4 DEF DbIInv, LockOK
<1>5. call.mask = NULL \/ ~Transaction => lock[Me] = "none"
    BY <1>1 DEF Deleting, Working, Transaction
<1>6. ASSUME NEW r, call.mask = NULL, DeleteNone(r), F.table \in {"route"} \cup Silent
      PROVE  DbIInv(P)'
  <2>1. TablesOK(P)' /\ stored'[focus] = now
      BY <1>1, <1>6, TablesStay DEF DeleteNone
  <2>2. LockOK' /\ lock'[Me] = "none"
      BY <1>1, <1>5, <1>6 DEF DeleteNone, LockOK
  <2>3. Becomes(call, call', "returned", BeforeOf(call, now), call.rows, call.next, call.refused, r)
      BY <1>1, <1>6 DEF DeleteNone, Begun, Becomes, IsCall, Steps, BeforeOf
  <2>4. Over(P, F, call', now)
      BY <1>1, <1>6, <2>3, DeletedNothing
  <2>5. CallOK(P, focus, call', stored'[focus], lock'[Me])
      BY <1>1, <2>1, <2>2, <2>3, <2>4 DEF CallOK, Becomes
  <2> QED BY <1>4, <2>1, <2>2, <2>5
<1>7. ASSUME NEW emptied, DeleteOnce(emptied), UNCHANGED lock, call.mask # NULL => ~Transaction,
             call.mask = NULL => emptied = focus \/ (focus = "dev_map" /\ emptied = "composition")
      PROVE  DbIInv(P)'
  <2>1. LockOK' /\ lock'[Me] = "none"
      BY <1>1, <1>5, <1>7 DEF LockOK
  <2>2. CASE ~CanWrite(lock, Me)
    <3>1. TablesOK(P)' /\ stored'[focus] = now
        BY <1>1, <1>7, <2>2, TablesStay DEF DeleteOnce
    <3>2. Becomes(call, call', "returned", BeforeOf(call, now), call.rows, call.next, TRUE, call.ret)
        BY <1>1, <1>7, <2>2 DEF DeleteOnce, Begun, Becomes, IsCall, Steps, BeforeOf
    <3>3. Over(P, F, call', now)
        BY <1>1, <3>2, DeletedNothing
    <3>4. CallOK(P, focus, call', stored'[focus], lock'[Me])
        BY <1>1, <2>1, <3>1, <3>2, <3>3 DEF CallOK, Becomes
    <3> QED BY <1>4, <2>1, <3>1, <3>4
  <2>3. CASE CanWrite(lock, Me)
    <3>1. Becomes(call, call', "returned", BeforeOf(call, now), call.rows, call.next, call.refused, call.ret)
        BY <1>1, <1>7, <2>3 DEF DeleteOnce, Begun, Becomes, IsCall, Steps, BeforeOf
    <3>2. ASSUME TablesOK(P)', Over(P, F, call', stored'[focus])
          PROVE  DbIInv(P)'
      <4>1. CallOK(P, focus, call', stored'[focus], lock'[Me])
          BY <1>1, <2>1, <3>1, <3>2 DEF CallOK, Becomes
      <4> QED BY <1>4, <2>1, <3>2, <4>1
    <3>3. CASE call.mask = NULL /\ emptied = focus
      <4>1. RowsOK(P, <<>>) /\ Over(P, F, call', <<>>)
          BY <1>1, <3>1, <3>3, DeletedAll
      <4>2. TablesOK(P)' /\ stored'[focus] = <<>>
          BY <1>1, <1>7, <2>3, <3>3, <4>1, TableChanges DEF DeleteOnce
      <4> QED BY <3>2, <4>1, <4>2
    <3>4. CASE call.mask = NULL /\ emptied # focus
      <4>1. focus = "dev_map" /\ stored' = [stored EXCEPT !["composition"] = <<>>]
          BY <1>7, <2>3, <3>4 DEF DeleteOnce
      <4>2. TablesOK(P)' /\ stored'[focus] = now
          BY <1>1, <4>1, CompositionEmptied
      <4>3. F.table \in {"route"} \cup Silent
          BY <1>1, <4>1 DEF Silent
      <4>4. Over(P, F, call', now)
          BY <1>1, <3>1, <3>4, <4>3, DeletedNothing
      <4> QED BY <3>2, <4>2, <4>4
    <3>5. CASE call.mask # NULL
      <4>1. stored' = [stored EXCEPT ![focus] = Staying(F, call, now, call.list[1])]
          BY <1>7, <2>3, <3>5 DEF DeleteOnce, Remaining, Staying
      <4>2. /\ RowsOK(P, Staying(F, call, now, call.list[1]))
            /\ Over(P, F, call', Staying(F, call, now, call.list[1]))
          BY <1>1, <1>7, <3>1, <3>5, DeletedAlone DEF Transaction
      <4>3. TablesOK(P)' /\ stored'[focus] = Staying(F, call, now, call.list[1])
          BY <1>1, <4>1, <4>2, TableChanges
      <4> QED BY <3>2, <4>2, <4>3
    <3> QED BY <1>7, <3>3, <3>4, <3>5
  <2> QED BY <2>2, <2>3
<1>8. CASE call.mask = NULL /\ F.null = "refused" /\ DeleteNone(RefusedRet)
  <2>1. F.table \in {"route"} \cup Silent
      BY <1>1, <1>2, <1>8, SchemaAssumption
  <2> QED BY <1>6, <1>8, <2>1
<1>9. CASE call.mask = NULL /\ F.null = "nothing" /\ DeleteNone(0)
  <2>1. F.table \in {"route"} \cup Silent
      BY <1>1, <1>2, <1>9, SchemaAssumption
  <2> QED BY <1>6, <1>9, <2>1
<1>10. CASE /\ call.mask = NULL /\ F.null \notin {"refused", "nothing"}
            /\ DeleteOnce(IF F.null = "all" THEN focus ELSE F.null) /\ UNCHANGED lock
  <2>1. F.null = "all" \/ (focus = "dev_map" /\ F.null = "composition")
      BY <1>1, <1>2, <1>10, SchemaAssumption
  <2>2. CASE F.null = "all"
      BY <1>7, <1>10, <2>2
  <2>3. CASE focus = "dev_map" /\ F.null = "composition"
      BY <1>7, <1>10, <2>3
  <2> QED BY <2>1, <2>2, <2>3
<1>11. CASE call.mask # NULL /\ ~Transaction /\ DeleteOnce(focus) /\ UNCHANGED lock
    BY <1>7, <1>11
<1>12. CASE /\ call.mask # NULL /\ Transaction /\ call.next <= Len(call.list)
            /\ InTransaction(Remaining(Rows, call.list[call.next])) /\ UNCHANGED stored
  <2> DEFINE more == Staying(F, call, rows, call.list[call.next])
  <2>1. TablesOK(P)' /\ stored'[focus] = now
      BY <1>1, <1>12, TablesStay
  <2>2. Remaining(Rows, call.list[call.next]) = more
      BY <1>3 DEF Remaining, Staying
  <2> HIDE DEF more
  <2>3. CASE CanReserve(lock, Me)
    <3>1. lock' = With(lock, Me, "reserved")
        BY <1>12, <2>3 DEF InTransaction
    <3>2. Becomes(call, call', "delete", BeforeOf(call, now), more, call.next + 1, call.refused, call.ret)
        BY <1>1, <1>12, <2>2, <2>3 DEF InTransaction, Begun, Becomes, IsCall, Steps, BeforeOf
    <3>3. Deleting(P, F, call', now, "reserved")
        BY <1>1, <1>12, <3>2, DeletedWithin DEF Transaction, more
    <3>4. CallOK(P, focus, call', stored'[focus], lock'[Me])
        BY <1>1, <2>1, <3>1, <3>2, <3>3, LockChanges DEF CallOK, Becomes
    <3> QED BY <1>1, <1>4, <2>1, <3>1, <3>4, LockChanges
  <2>4. CASE ~CanReserve(lock, Me)
    <3>1. lock' = With(lock, Me, "none")
        BY <1>12, <2>4 DEF InTransaction
    <3>2. Becomes(call, call', "returned", BeforeOf(call, now), call.rows, call.next, TRUE, -1)
        BY <1>1, <1>12, <2>4, ZenonT(60) DEF InTransaction, Begun, Becomes, IsCall, Steps, BeforeOf
    <3>3. Over(P, F, call', now)
        BY <1>1, <3>2, DeletedNothing
    <3>4. CallOK(P, focus, call', stored'[focus], lock'[Me])
        BY <1>1, <2>1, <3>1, <3>2, <3>3, LockChanges DEF CallOK, Becomes
    <3> QED BY <1>1, <1>4, <2>1, <3>1, <3>4, LockChanges
  <2> QED BY <2>3, <2>4
<1>13. CASE call.mask # NULL /\ Transaction /\ call.next > Len(call.list) /\ Commit
  <2>1. CASE CanCommit(lock, Me)
    <3>1. stored' = [stored EXCEPT ![focus] = call.rows] /\ lock' = With(lock, Me, "none")
        BY <1>13, <2>1 DEF Commit
    <3>2. Becomes(call, call', "returned", call.before, call.rows, call.next, call.refused, 0)
        BY <1>1, <1>13, <2>1 DEF Commit, Return, Becomes, IsCall, Steps
    <3>3. RowsOK(P, call.rows) /\ Over(P, F, call', call.rows)
        BY <1>1, <1>13, <3>2, AllDeleted
    <3>4. TablesOK(P)' /\ stored'[focus] = call.rows
        BY <1>1, <3>1, <3>3, TableChanges
    <3>5. CallOK(P, focus, call', stored'[focus], lock'[Me])
        BY <1>1, <3>1, <3>2, <3>3, <3>4, LockChanges DEF CallOK, Becomes
    <3> QED BY <1>1, <1>4, <3>1, <3>4, <3>5, LockChanges
  <2>2. CASE ~CanCommit(lock, Me)
    <3>1. stored' = stored /\ lock' = With(lock, Me, "pending")
        BY <1>13, <2>2 DEF Commit
    <3>2. Becomes(call, call', "close", call.before, call.rows, call.next, TRUE, call.ret)
        BY <1>1, <1>13, <2>2 DEF Commit, Becomes, IsCall, Steps
    <3>3. call.next # 1
        BY <1>1, <1>2, <1>13 DEF Deleting
    <3>4. Closing(P, F, call', now)
        BY <1>1, <1>13, <3>2, <3>3 DEF Deleting, BeforeOf, Closing, Becomes, Transaction
    <3>5. TablesOK(P)' /\ stored'[focus] = now
        BY <1>1, <3>1, TablesStay
    <3>6. CallOK(P, focus, call', stored'[focus], lock'[Me])
        BY <1>1, <3>1, <3>2, <3>4, <3>5, LockChanges DEF CallOK, Becomes
    <3> QED BY <1>1, <1>4, <3>1, <3>5, <3>6, LockChanges
  <2> QED BY <2>1, <2>2
<1> QED BY <1>8, <1>9, <1>10, <1>11, <1>12, <1>13 DEF Delete

\* A function that inserts begins.
LEMMA InsertBegins ==
    ASSUME NEW P, NEW now, RowsOK(P, now), NEW t, NEW fn \in DOMAIN Functions,
           Functions[fn].kind = "insert", Functions[fn].table = t,
           NEW list \in Seq(P), list # <<>>, StartInsert(fn, list)
    PROVE  CallOK(P, t, call', now, "none") /\ call'.step = "insert" /\ call'.list = list
<1>1. /\ IsCall(call') /\ call'.step = "insert" /\ call'.fn = fn /\ call'.list = list
      /\ call'.next = 1 /\ ~call'.refused /\ ~call'.disturbed
    BY DEF StartInsert, Idle, IsCall, Steps
<1>2. BeforeOf(call', now) = now /\ RowsOf(call', now) = now /\ Working(call') = "none"
    BY <1>1 DEF BeforeOf, RowsOf, Working
<1>3. Grown(now, now, list, 0) /\ GrownBySome(now, now, list, 0)
    BY GrownByNothing DEF RowsOK
<1>4. 1 \in 1 .. Len(list) + 1 /\ 1 - 1 = 0
  <2>1. Len(list) \in Nat
      OBVIOUS
  <2> QED BY <2>1
<1>5. Inserting(P, Functions[fn], call', now, "none")
    BY <1>1, <1>2, <1>3, <1>4 DEF Inserting
<1> QED BY <1>1, <1>5 DEF CallOK

\* A function that deletes begins.
LEMMA DeleteBegins ==
    ASSUME NEW P, NEW now, RowsOK(P, now), NEW t, NEW fn \in DOMAIN Functions,
           Functions[fn].kind = "delete", Functions[fn].table = t,
           NEW mask, mask = NULL \/ mask \subseteq DOMAIN Functions[fn].where,
           NEW ids, Len(ids) \in Nat \ {0}, DOMAIN ids = 1 .. Len(ids), Len(ids) = 1 \/ t = "route",
           StartDelete(fn, mask, ids)
    PROVE  /\ CallOK(P, t, call', now, "none")
           /\ call'.step = "delete" /\ call'.mask = mask /\ call'.list = ids
<1>1. /\ IsCall(call') /\ call'.step = "delete" /\ call'.fn = fn /\ call'.list = ids
      /\ call'.next = 1 /\ ~call'.refused /\ ~call'.disturbed /\ call'.mask = mask
    BY DEF StartDelete, Idle, IsCall, Steps
<1>2. BeforeOf(call', now) = now /\ RowsOf(call', now) = now /\ Working(call') = "none"
    BY <1>1 DEF BeforeOf, RowsOf, Working
<1>3. Without(t, call', now, now, 0)
  <2>1. \A row : ~AskedBy(t, call', 0, row)
      BY DEF AskedBy
  <2> QED BY <2>1 DEF Without
<1>4. 1 \in 1 .. Len(ids) + 1 /\ 1 - 1 = 0
    OBVIOUS
<1>5. Deleting(P, Functions[fn], call', now, "none")
    BY <1>1, <1>2, <1>3, <1>4 DEF Deleting
<1> QED BY <1>1, <1>5 DEF CallOK

\* A call has begun, and nothing else has changed.
LEMMA CallBegins ==
    ASSUME NEW P, DbIInv(P), lock[Me] = "none", UNCHANGED <<focus, stored, lock>>,
           CallOK(P, focus, call', stored[focus], "none")
    PROVE  DbIInv(P)'
<1>1. TablesOK(P) /\ LockOK
    BY DEF DbIInv, LockOK
<1>2. TablesOK(P)' /\ stored'[focus'] = stored[focus] /\ LockOK' /\ lock'[Me] = "none"
    BY <1>1, TablesStay DEF LockOK
<1> QED BY <1>2 DEF DbIInv, LockOK

\* A function that selects begins, goes on, or ends; and a COMMIT that was refused.
LEMMA OtherCallSteps ==
    ASSUME NEW P, DbIInv(P), Select \/ Finalize \/ Close \/ Done
    PROVE  DbIInv(P)'
<1> DEFINE now == stored[focus]
<1>1. /\ TablesOK(P) /\ LockOK /\ RowsOK(P, now) /\ IsCall(call)
      /\ CallOK(P, focus, call, now, lock[Me])
    BY DEF DbIInv, LockOK, TablesOK, CallOK
<1>2. TablesOK(P)' /\ stored'[focus'] = now /\ focus' = focus
    BY <1>1, TablesStay DEF Select, Finalize, Close, Done
<1>3. ASSUME LockOK', CallOK(P, focus, call', now, lock'[Me])
      PROVE  DbIInv(P)'
    BY <1>2, <1>3 DEF DbIInv, LockOK
<1>4. CASE Select
  <2>1. /\ call.step = "select" /\ call.fn \in DOMAIN Functions /\ Functions[call.fn].table = focus
        /\ Functions[call.fn].kind = "select" /\ lock[Me] = "none"
      BY <1>1, <1>4 DEF Select, CallOK
  <2>2. CASE UNCHANGED lock /\ IsCall(call') /\ call'.step = "returned" /\ call'.fn = call.fn
    <3>1. LockOK' /\ lock'[Me] = "none"
        BY <1>1, <2>1, <2>2 DEF LockOK
    <3>2. CallOK(P, focus, call', now, lock'[Me])
        BY <2>1, <2>2, <3>1 DEF CallOK, Over
    <3> QED BY <1>3, <3>1, <3>2
  <2>3. CASE lock' = With(lock, Me, "shared") /\ IsCall(call') /\ call'.step = "found" /\ call'.fn = call.fn
    <3>1. LockOK' /\ lock'[Me] = "shared"
        BY <1>1, <2>3, LockChanges
    <3>2. CallOK(P, focus, call', now, lock'[Me])
        BY <2>1, <2>3, <3>1 DEF CallOK
    <3> QED BY <1>3, <3>1, <3>2
  <2>4. \A r : Return(r) => IsCall(call') /\ call'.step = "returned" /\ call'.fn = call.fn
      BY <1>1 DEF Return, IsCall, Steps
  <2>5. ASSUME call' = [call EXCEPT !.step = "returned", !.ret = Result(<<>>), !.refused = TRUE]
        PROVE  IsCall(call') /\ call'.step = "returned" /\ call'.fn = call.fn
      BY <1>1, <2>5 DEF IsCall, Steps
  <2>6. ASSUME call' = [call EXCEPT !.step = "found", !.found = Hits]
        PROVE  IsCall(call') /\ call'.step = "found" /\ call'.fn = call.fn
      BY <1>1, <2>6 DEF IsCall, Steps
  <2> QED BY <1>4, <2>2, <2>3, <2>4, <2>5, <2>6 DEF Select
<1>5. CASE Finalize
  <2>1. /\ call.step = "found" /\ call.fn \in DOMAIN Functions /\ Functions[call.fn].table = focus
        /\ Functions[call.fn].kind = "select"
      BY <1>1, <1>5 DEF Finalize, CallOK
  <2>2. LockOK' /\ lock'[Me] = "none"
      BY <1>1, <1>5, LockChanges DEF Finalize
  <2>3. IsCall(call') /\ call'.step = "returned" /\ call'.fn = call.fn
      BY <1>1, <1>5 DEF Finalize, Return, IsCall, Steps
  <2>4. CallOK(P, focus, call', now, lock'[Me])
      BY <2>1, <2>2, <2>3 DEF CallOK, Over
  <2> QED BY <1>3, <2>2, <2>4
<1>6. CASE Close
  <2>1. /\ call.step = "close" /\ call.fn \in DOMAIN Functions /\ Functions[call.fn].table = focus
        /\ Closing(P, Functions[call.fn], call, now)
      BY <1>1, <1>6 DEF Close, CallOK
  <2>2. LockOK' /\ lock'[Me] = "none"
      BY <1>1, <1>6, LockChanges DEF Close
  <2>3. Becomes(call, call', "returned", call.before, call.rows, call.next, call.refused, 0)
      BY <1>1, <1>6 DEF Close, Return, Becomes, IsCall, Steps
  <2>4. call'.before = now /\ call'.refused /\ ~call'.disturbed /\ call'.list = call.list /\ RowsOK(P, now)
      BY <2>1, <2>3 DEF Closing, Becomes
  <2>5. Keeps(now, now)
      BY <2>4, GrownByNothing DEF Grown, RowsOK
  <2>6. Over(P, Functions[call.fn], call', now)
      BY <2>1, <2>4, <2>5 DEF Closing, Over, StoredBy, DeletedBy
  <2>7. CallOK(P, focus, call', now, lock'[Me])
      BY <2>1, <2>2, <2>3, <2>6 DEF CallOK, Becomes
  <2> QED BY <1>3, <2>2, <2>7
<1>7. CASE Done
  <2>1. LockOK' /\ lock'[Me] = "none"
      BY <1>1, <1>7 DEF Done, CallOK, LockOK
  <2>2. IsCall(call') /\ call'.step = "idle"
      BY <1>7, Zenon DEF Done, Idle, IsCall, Steps
  <2>3. CallOK(P, focus, call', now, lock'[Me])
      BY <2>1, <2>2 DEF CallOK
  <2> QED BY <1>3, <2>1, <2>3
<1> QED BY <1>4, <1>5, <1>6, <1>7

\* What a thread holds of the file, by what it does.
LEMMA HeldIs ==
    ASSUME NEW P, NEW t, NEW c, NEW now, NEW held, CallOK(P, t, c, now, held)
    PROVE  held \in Locks
<1>1. c.step \in Steps
    BY DEF CallOK, IsCall
<1>2. c.step = "insert" => held \in {"none", "reserved"}
    BY DEF CallOK, Inserting, Working
<1>3. c.step = "delete" => held \in {"none", "reserved"}
    BY DEF CallOK, Deleting, Working
<1> QED BY <1>1, <1>2, <1>3 DEF CallOK, Steps, Locks

\* A call that the other thread has changed the table of.
SameCall(c, d) ==
  /\ IsCall(d) /\ d.step = c.step /\ d.fn = c.fn /\ d.mask = c.mask /\ d.cond = c.cond
  /\ d.list = c.list /\ d.next = c.next /\ d.before = c.before /\ d.rows = c.rows
  /\ d.found = c.found /\ d.from = c.from /\ d.limit = c.limit /\ d.answer = c.answer
  /\ (d.refused <=> c.refused) /\ d.ret = c.ret

LEMMA CallDisturbed ==
    ASSUME NEW c, IsCall(c), NEW d, d = Disturb(c)
    PROVE  /\ SameCall(c, d)
           /\ (d.disturbed <=> (c.disturbed \/ c.next > 1 \/ c.step = "returned"))
<1> DEFINE e == c.disturbed \/ c.next > 1 \/ c.step = "returned"
<1>1. d = [c EXCEPT !.disturbed = c.disturbed \/ c.next > 1 \/ c.step = "returned"]
    BY DEF Disturb
<1>2. PICK b \in BOOLEAN : b <=> e
    OBVIOUS
<1>3. d = [c EXCEPT !.disturbed = b]
    BY <1>1, <1>2, Zenon DEF IsCall
<1>4. SameCall(c, d)
    BY <1>3 DEF SameCall, IsCall
<1>5. d.disturbed <=> b
    BY <1>3 DEF IsCall
<1> QED BY <1>2, <1>4, <1>5

\* A call bears that the table changes while its thread holds nothing of the file.
LEMMA CallStable ==
    ASSUME NEW P, NEW t, NEW c, NEW now, CallOK(P, t, c, now, "none"), NEW later, RowsOK(P, later)
    PROVE  CallOK(P, t, Disturb(c), later, "none")
<1>1. PICK d : d = Disturb(c)
    OBVIOUS
<1>2. IsCall(c)
    BY DEF CallOK
<1>10. SameCall(c, d) /\ (d.disturbed <=> (c.disturbed \/ c.next > 1 \/ c.step = "returned"))
    BY <1>1, <1>2, CallDisturbed
<1>3. /\ IsCall(d) /\ d.step = c.step /\ d.fn = c.fn /\ d.mask = c.mask /\ d.cond = c.cond
      /\ d.list = c.list /\ d.next = c.next /\ d.before = c.before /\ d.rows = c.rows
      /\ (d.refused <=> c.refused)
      /\ (d.disturbed <=> (c.disturbed \/ c.next > 1 \/ c.step = "returned"))
    BY <1>10 DEF SameCall
<1>4. ASSUME c.step = "insert"
      PROVE  Inserting(P, Functions[c.fn], d, later, "none")
  <2> DEFINE f == Functions[c.fn]
  <2>1. Inserting(P, f, c, now, "none")
      BY <1>4 DEF CallOK
  <2>2. f.kind = "insert" /\ c.list \in Seq(P) /\ c.list # <<>> /\ c.next \in 1 .. Len(c.list) + 1
      BY <2>1 DEF Inserting
  <2>3. Len(c.list) \in Nat /\ c.next \in Nat /\ c.next >= 1
      BY <2>2
  <2>4. CASE c.next = 1
    <3>1. (~c.refused /\ ~c.disturbed) \/ f.failed # "rollback"
        BY <2>1 DEF Inserting
    <3>2. BeforeOf(d, later) = later /\ RowsOf(d, later) = later /\ Working(d) = "none"
        BY <1>3, <2>4 DEF BeforeOf, RowsOf, Working
    <3>3. Grown(later, later, c.list, 0) /\ GrownBySome(later, later, c.list, 0)
        BY <2>2, GrownByNothing DEF RowsOK
    <3>4. d.next - 1 = 0
        BY <1>3, <2>4
    <3>5. d.disturbed <=> c.disturbed
        BY <1>3, <1>4, <2>4
    <3>6. f.failed # "rollback" => (c.refused => f.failed = "ignore")
        BY <2>1 DEF Inserting
    <3> QED BY <1>3, <2>2, <3>1, <3>2, <3>3, <3>4, <3>5, <3>6 DEF Inserting
  <2>5. CASE c.next # 1
    <3>1. f.failed # "rollback"
        BY <2>1, <2>5 DEF Inserting, Working
    <3>2. d.disturbed
        BY <1>3, <2>3, <2>5
    <3>3. BeforeOf(d, later) = c.before /\ RowsOK(P, c.before) /\ (c.refused => f.failed = "ignore")
        BY <1>3, <2>1, <2>5, <3>1 DEF Inserting, BeforeOf
    <3> QED BY <1>3, <2>2, <3>1, <3>2, <3>3 DEF Inserting
  <2> QED BY <2>4, <2>5
<1>5. ASSUME c.step = "delete"
      PROVE  Deleting(P, Functions[c.fn], d, later, "none")
  <2> DEFINE f == Functions[c.fn]
  <2>1. Deleting(P, f, c, now, "none")
      BY <1>5 DEF CallOK
  <2>2. c.next = 1
      BY <2>1 DEF Deleting, Working
  <2>3. BeforeOf(d, later) = later /\ RowsOf(d, later) = later /\ Working(d) = "none" /\ d.next - 1 = 0
      BY <1>3, <2>2 DEF BeforeOf, RowsOf, Working
  <2>4. Without(f.table, d, later, later, 0)
    <3>1. \A row : ~AskedBy(f.table, d, 0, row)
        BY DEF AskedBy
    <3> QED BY <3>1 DEF Without
  <2>5. ~d.disturbed /\ ~d.refused
      BY <1>3, <1>5, <2>1, <2>2 DEF Deleting
  <2> QED BY <1>3, <2>1, <2>2, <2>3, <2>4, <2>5 DEF Deleting
<1>6. ASSUME c.step = "returned"
      PROVE  Over(P, Functions[c.fn], d, later)
    BY <1>3, <1>6 DEF CallOK, Over
<1>7. c.step # "close" /\ c.step # "found"
    BY DEF CallOK
<1>8. /\ c.step # "idle" => c.fn \in DOMAIN Functions /\ Functions[c.fn].table = t
      /\ c.step \in {"select", "found"} => Functions[c.fn].kind = "select"
    BY DEF CallOK
<1>9. CallOK(P, t, d, later, "none")
    BY <1>3, <1>4, <1>5, <1>6, <1>7, <1>8 DEF CallOK
<1> QED BY <1>1, <1>9

\* The table as the other thread leaves it.
LEMMA OtherRowsOK ==
    ASSUME NEW rows, RowsOK(Patterns, rows), NEW later \in OtherRows(rows)
    PROVE  RowsOK(Patterns, later)
<1>1. CASE \E left \in SUBSET DOMAIN rows : later = Kept(rows, left)
    BY <1>1, KeptRows
<1>2. ASSUME NEW n \in 1 .. MaxRows, NEW list \in [1 .. n -> Patterns], later = WithAll(rows, list)
      PROVE  RowsOK(Patterns, later)
  <2> DEFINE S == [id : Nat, of : Patterns]
             k == NextId(rows)
             more == [i \in 1 .. n |-> [id |-> k + i - 1, of |-> list[i]]]
  <2>1. rows \in Seq(S) /\ Rising(rows) /\ Len(rows) \in Nat /\ n \in Nat
      BY <1>2, DbAssumption DEF RowsOK
  <2>2. k \in Nat /\ \A i \in DOMAIN rows : rows[i].id < k /\ rows[i].id \in Nat
    <3>1. NextId(rows) \in Nat /\ \A i \in 1 .. Len(rows) : rows[i].id < NextId(rows) /\ rows[i].id \in Nat
        BY NextIdAbove, Zenon
    <3>2. DOMAIN rows = 1 .. Len(rows)
        BY <2>1
    <3> QED BY <3>1, <3>2
  <2> HIDE DEF k
  <2>3. \A i \in 1 .. n : [id |-> k + i - 1, of |-> list[i]] \in S
      BY <2>1, <2>2
  <2>4. more \in Seq(S) /\ Len(more) = n
      BY <2>1, <2>3
  <2>5. later = rows \o more
      BY <1>2 DEF WithAll, k
  <2>6. \A i \in 1 .. n : more[i].id = k + i - 1
      OBVIOUS
  <2> HIDE DEF S, more
  <2>7. later \in Seq(S) /\ Len(later) = Len(rows) + n
    <3>1. rows \o more \in Seq(S) /\ Len(rows \o more) = Len(rows) + Len(more)
        BY <2>1, <2>4
    <3> QED BY <2>4, <2>5, <3>1
  <2>8. /\ \A i \in 1 .. Len(rows) : later[i] = rows[i]
        /\ \A i \in Len(rows) + 1 .. Len(rows) + n : later[i] = more[i - Len(rows)]
      BY <2>1, <2>4, <2>5
  <2>9. \A i \in 1 .. Len(rows) : later[i].id < k /\ later[i].id \in Nat
      BY <2>1, <2>2, <2>8
  <2>10. \A i \in Len(rows) + 1 .. Len(rows) + n : later[i].id = k + (i - Len(rows)) - 1
      BY <2>1, <2>6, <2>8
  <2>11. Rising(later)
    <3>1. SUFFICES ASSUME NEW i \in DOMAIN later, NEW j \in DOMAIN later, i < j
                   PROVE  later[i].id < later[j].id
        BY DEF Rising
    <3>2. i \in 1 .. Len(rows) + n /\ j \in 1 .. Len(rows) + n
        BY <2>7
    <3>3. CASE j <= Len(rows)
      <4>1. i \in DOMAIN rows /\ j \in DOMAIN rows
          BY <2>1, <3>1, <3>2, <3>3
      <4>2. later[i] = rows[i] /\ later[j] = rows[j]
          BY <2>1, <2>8, <4>1
      <4> QED BY <2>1, <3>1, <4>1, <4>2 DEF Rising
    <3>4. CASE j > Len(rows) /\ i <= Len(rows)
        BY <2>1, <2>2, <2>9, <2>10, <3>2, <3>4
    <3>5. CASE i > Len(rows)
        BY <2>1, <2>2, <2>10, <3>1, <3>2, <3>5
    <3> QED BY <2>1, <3>2, <3>3, <3>4, <3>5
  <2> QED BY <2>7, <2>11 DEF RowsOK, S
<1> QED BY <1>1, <1>2 DEF OtherRows

\* The other thread takes and gives back its own lock.
LEMMA OtherLocksKeep ==
    ASSUME NEW P, DbIInv(P), OtherLocks, UNCHANGED <<focus, stored, call>>
    PROVE  DbIInv(P)'
<1>1. TablesOK(P) /\ LockOK /\ CallOK(P, focus, call, stored[focus], lock[Me])
    BY DEF DbIInv, LockOK
<1>2. \E held : lock' = With(lock, Other, held)
    BY DEF OtherLocks, OtherReads, OtherReserves, OtherCommits, OtherCloses
<1>3. TablesOK(P)' /\ LockOK' /\ lock'[Me] = lock[Me]
    BY <1>1, <1>2, TablesStay, LockChanges
<1> QED BY <1>1, <1>2, <1>3 DEF DbIInv, LockOK

\* The other thread changes the table while this one holds nothing of the file.
LEMMA OtherKeeps ==
    ASSUME DbIInv(Patterns), OtherStep
    PROVE  DbIInv(Patterns)'
<1>1. /\ TablesOK(Patterns) /\ LockOK /\ CallOK(Patterns, focus, call, stored[focus], lock[Me])
      /\ RowsOK(Patterns, stored[focus]) /\ focus' = focus
    BY DEF DbIInv, LockOK, TablesOK, OtherStep
<1>2. CASE OtherWrites
  <2>1. PICK rows \in OtherRows(stored[focus]) : stored' = [stored EXCEPT ![focus] = rows]
      BY <1>2 DEF OtherWrites
  <2>2. RowsOK(Patterns, rows)
      BY <1>1, <2>1, OtherRowsOK
  <2>3. TablesOK(Patterns)' /\ stored'[focus] = rows
      BY <1>1, <2>1, <2>2, TableChanges
  <2>4. lock[Me] = "none"
    <3>1. lock[Me] \notin {"reserved", "pending", "shared"}
        BY <1>1, <1>2 DEF OtherWrites, CanWrite, CanReserve, CanCommit, Others, LockOK, Me, Other
    <3> QED BY <1>1, <3>1, HeldIs DEF Locks
  <2>5. LockOK' /\ lock'[Me] = "none"
      BY <1>1, <1>2, <2>4, LockChanges DEF OtherWrites
  <2>6. call' = Disturb(call)
      BY <1>2 DEF OtherWrites
  <2>7. CallOK(Patterns, focus, call', rows, "none")
      BY <1>1, <2>2, <2>4, <2>6, CallStable
  <2> QED BY <1>1, <2>3, <2>5, <2>7 DEF DbIInv, LockOK
<1>3. CASE OtherLocks /\ UNCHANGED <<stored, call>>
    BY <1>1, <1>3, OtherLocksKeep
<1> QED BY <1>2, <1>3 DEF OtherStep

\* The call that a function that selects begins with.
LEMMA SelectingParts ==
    ASSUME NEW fn, NEW mask, NEW cond
    PROVE  LET sel == Selecting(fn, mask, cond)
           IN  /\ IsCall(sel) /\ sel.step = "select" /\ sel.fn = fn /\ sel.mask = mask /\ sel.cond = cond
               /\ sel.from = 0 /\ sel.limit = 0 /\ sel.answer = 0 /\ sel.found = <<>>
<1>1. IsCall(Idle) /\ Idle.from = 0 /\ Idle.limit = 0 /\ Idle.answer = 0 /\ Idle.found = <<>>
    BY DEF Idle, IsCall, Steps
<1> DEFINE one == <<1>>
<1>2. Selecting(fn, mask, cond)
        = [Idle EXCEPT !.step = "select", !.fn = fn, !.mask = mask, !.cond = cond, !.list = one]
    BY DEF Selecting
<1> HIDE DEF one
<1> QED BY <1>1, <1>2 DEF IsCall, Steps

\* What a call is that selects.
LEMMA SelectStarts ==
    ASSUME NEW fn, NEW mask, NEW cond, NEW limit, NEW answer, StartSelect(fn, mask, cond, limit, answer)
    PROVE  /\ IsCall(call') /\ call'.step = "select" /\ call'.fn = fn /\ call'.mask = mask /\ call'.cond = cond
           /\ call'.from = 0 /\ call'.limit = limit /\ call'.answer = answer /\ call'.found = <<>>
<1> DEFINE sel == Selecting(fn, mask, cond)
<1>1. /\ IsCall(sel) /\ sel.step = "select" /\ sel.fn = fn /\ sel.mask = mask /\ sel.cond = cond
      /\ sel.from = 0 /\ sel.limit = 0 /\ sel.answer = 0 /\ sel.found = <<>>
    BY SelectingParts
<1>2. call' = [sel EXCEPT !.limit = limit, !.answer = answer]
    BY DEF StartSelect
<1> HIDE DEF sel
<1> QED BY <1>1, <1>2 DEF IsCall

\* What a call is that lists a page.
LEMMA PageStarts ==
    ASSUME NEW fn, NEW mask, NEW cond, NEW id, NEW from, NEW limit, StartPage(fn, mask, cond, id, from, limit)
    PROVE  /\ IsCall(call') /\ call'.step = "select" /\ call'.fn = fn /\ call'.mask = mask /\ call'.cond = cond
           /\ call'.from = from /\ call'.limit = limit /\ call'.answer = 0 /\ call'.found = <<>>
           /\ call'.list[1] = id
<1> DEFINE sel == Selecting(fn, mask, cond)
           one == <<id>>
<1>1. /\ IsCall(sel) /\ sel.step = "select" /\ sel.fn = fn /\ sel.mask = mask /\ sel.cond = cond
      /\ sel.from = 0 /\ sel.limit = 0 /\ sel.answer = 0 /\ sel.found = <<>>
    BY SelectingParts
<1>2. call' = [sel EXCEPT !.list = one, !.from = from, !.limit = limit]
    BY DEF StartPage
<1>3. one[1] = id
    OBVIOUS
<1> HIDE DEF sel, one
<1> QED BY <1>1, <1>2, <1>3 DEF IsCall

\* The functions that a thread may call.
LEMMA CallsStart ==
    ASSUME DbIInv(Patterns), CallInsert \/ CallDelete \/ CallSelect
    PROVE  DbIInv(Patterns)'
<1>0. lock[Me] = "none" /\ RowsOK(Patterns, stored[focus])
    BY DEF DbIInv, CallOK, TablesOK, CallInsert, CallDelete, CallSelect
<1>1. CASE CallInsert
  <2>1. PICK fn \in DOMAIN Functions, list \in UNION {[1 .. n -> Patterns] : n \in 1 .. MaxRows} :
          Functions[fn].kind = "insert" /\ Functions[fn].table = focus /\ StartInsert(fn, list)
      BY <1>1 DEF CallInsert
  <2>2. list \in Seq(Patterns) /\ list # <<>>
    <3>1. PICK n \in 1 .. MaxRows : list \in [1 .. n -> Patterns]
        BY <2>1
    <3>2. n \in Nat \ {0}
        BY DbAssumption
    <3> QED BY <3>1, <3>2
  <2>3. CallOK(Patterns, focus, call', stored[focus], "none")
      BY <1>0, <2>1, <2>2, InsertBegins
  <2> QED BY <1>0, <1>1, <2>3, CallBegins DEF CallInsert
<1>2. CASE CallDelete
  <2>1. PICK fn \in DOMAIN Functions, ids \in {<<1>>, <<2>>, <<1, 2>>} :
          /\ Functions[fn].kind = "delete" /\ Functions[fn].table = focus
          /\ \E mask \in Masks(Functions[fn]) :
               (Len(ids) > 1 => focus = "route") /\ StartDelete(fn, mask, ids)
      BY <1>2 DEF CallDelete
  <2>2. PICK mask \in Masks(Functions[fn]) :
          (Len(ids) > 1 => focus = "route") /\ StartDelete(fn, mask, ids)
      BY <2>1
  <2>3. mask = NULL \/ mask \subseteq DOMAIN Functions[fn].where
    <3>1. /\ Functions[fn].hidden = {} /\ Functions[fn].kind # "select"
          /\ Members[Functions[fn].table] \subseteq DOMAIN Functions[fn].where
        BY <2>1, SchemaAssumption
    <3> DEFINE f == Functions[fn]
               ones == {{m} : m \in Members[f.table]}
               twos == {{h[1], h[2]} : h \in f.hidden}
               after == IF f.kind = "select" /\ f.more THEN {{"id>"}} ELSE {}
    <3>2. mask \in {NULL, {}} \cup ones \cup twos \cup after
        BY <2>2, Zenon DEF Masks
    <3>3. twos = {} /\ after = {}
        BY <3>1
    <3>4. \A x \in ones : x \subseteq DOMAIN Functions[fn].where
        BY <3>1
    <3> HIDE DEF ones, twos, after
    <3>5. mask = NULL \/ mask = {} \/ mask \in ones
        BY <3>2, <3>3
    <3> QED BY <3>4, <3>5, Zenon
  <2>4. Len(ids) \in Nat \ {0} /\ DOMAIN ids = 1 .. Len(ids) /\ (Len(ids) = 1 \/ focus = "route")
    <3>1. \A x : Len(<<x>>) = 1 /\ DOMAIN <<x>> = 1 .. 1
        OBVIOUS
    <3>2. \A x, y : Len(<<x, y>>) = 2 /\ DOMAIN <<x, y>> = 1 .. 2
        OBVIOUS
    <3>3. \/ Len(ids) = 1 /\ DOMAIN ids = 1 .. 1
          \/ Len(ids) = 2 /\ DOMAIN ids = 1 .. 2
        BY <2>1, <3>1, <3>2
    <3>4. Len(ids) > 1 => focus = "route"
        BY <2>2
    <3>5. CASE Len(ids) = 1 /\ DOMAIN ids = 1 .. 1
        BY <3>5
    <3>6. CASE Len(ids) = 2 /\ DOMAIN ids = 1 .. 2
        BY <3>4, <3>6
    <3> QED BY <3>3, <3>5, <3>6
  <2>5. CallOK(Patterns, focus, call', stored[focus], "none")
      BY <1>0, <2>1, <2>2, <2>3, <2>4, DeleteBegins
  <2> QED BY <1>0, <1>2, <2>5, CallBegins DEF CallDelete
<1>3. CASE CallSelect
  <2>1. /\ TablesOK(Patterns) /\ LockOK /\ lock[Me] = "none"
        /\ UNCHANGED <<focus, stored, lock>>
      BY <1>3 DEF CallSelect, DbIInv, LockOK, CallOK
  <2>2. PICK fn \in DOMAIN Functions :
          /\ Functions[fn].kind = "select" /\ Functions[fn].table = focus
          /\ \E mask, limit, answer : \/ StartSelect(fn, mask, <<0, 0>>, limit, answer)
                                      \/ StartPage(fn, mask, <<0, 0>>, 1, 1, limit)
      BY <1>3 DEF CallSelect
  <2>3. IsCall(call') /\ call'.step = "select" /\ call'.fn = fn
      BY <2>2, SelectStarts, PageStarts
  <2>4. CallOK(Patterns, focus, call', stored[focus], "none")
      BY <2>2, <2>3 DEF CallOK
  <2>5. TablesOK(Patterns)' /\ LockOK'
      BY <2>1, TablesStay DEF LockOK
  <2> QED BY <2>1, <2>4, <2>5 DEF DbIInv, LockOK
<1> QED BY <1>1, <1>2, <1>3

\* No function runs at first.
LEMMA DbInitial == Init => DbIInv(Patterns)
<1>1. SUFFICES ASSUME Init
               PROVE  DbIInv(Patterns)
    OBVIOUS
<1>2. focus \in DOMAIN tmsdb_CheckDb
    BY <1>1, DbAssumption DEF Init
<1>3. /\ stored = [t \in DOMAIN tmsdb_CheckDb |-> stored[t]]
      /\ \A t \in DOMAIN tmsdb_CheckDb :
           stored[t] = IF t = focus THEN <<>> ELSE <<[id |-> 1, of |-> <<0, 0>>]>>
    BY <1>1 DEF Init
<1>4. RowsOK(Patterns, <<>>) /\ RowsOK(Patterns, <<[id |-> 1, of |-> <<0, 0>>]>>)
  <2>1. RowsOK(Patterns, <<>>)
      BY DEF RowsOK, Rising
  <2>2. [id |-> 1, of |-> <<0, 0>>] \in [id : Nat, of : Patterns]
      BY DEF Patterns
  <2>3. \A x, S : x \in S => <<x>> \in Seq(S) /\ Rising(<<x>>)
      BY DEF Rising
  <2> QED BY <2>1, <2>2, <2>3 DEF RowsOK
<1>5. TablesOK(Patterns)
  <2>1. \A t \in DOMAIN tmsdb_CheckDb : RowsOK(Patterns, stored[t])
      BY <1>3, <1>4
  <2>2. \A t \in Untouched : Len(stored[t]) = 1
      BY <1>3 DEF Untouched
  <2> QED BY <1>2, <1>3, <2>1, <2>2 DEF TablesOK
<1>6. LockOK /\ lock[Me] = "none"
    BY <1>1 DEF Init, LockOK
<1>7. IsCall(call) /\ call.step = "idle"
    BY <1>1, Zenon DEF Init, Idle, IsCall, Steps
<1>8. CallOK(Patterns, focus, call, stored[focus], lock[Me])
    BY <1>6, <1>7 DEF CallOK
<1> QED BY <1>5, <1>6, <1>8 DEF DbIInv, LockOK

\* Whatever the two threads do next.
LEMMA DbInductive == DbIInv(Patterns) /\ [Next]_vars => DbIInv(Patterns)'
<1>1. SUFFICES ASSUME DbIInv(Patterns), [Next]_vars
               PROVE  DbIInv(Patterns)'
    OBVIOUS
<1>2. CASE Next
    BY <1>1, <1>2, CallsStart, InsertStep, DeleteStep, OtherCallSteps, OtherKeeps DEF Next
<1>3. CASE UNCHANGED vars
  <2>1. TablesOK(Patterns)'
      BY <1>1, <1>3, TablesStay DEF vars, DbIInv
  <2> QED BY <1>1, <1>3, <2>1 DEF vars, DbIInv
<1> QED BY <1>1, <1>2, <1>3

-----------------------------------------------------------------------------
(* What the invariant says of a function that has returned. *)

\* The values of the rows behind those of before.
Added(before, now) == [i \in 1 .. Len(now) - Len(before) |-> now[Len(before) + i].of]

\* The rows in front are the rows of before.
LEMMA KeepsSub ==
    ASSUME NEW S, NEW before \in Seq(S), NEW now \in Seq(S), Keeps(before, now)
    PROVE  SubSeq(now, 1, Len(before)) = before
<1>1. Len(before) \in Nat /\ Len(now) \in Nat /\ Len(before) <= Len(now)
    BY DEF Keeps
<1>2. SubSeq(now, 1, Len(before)) \in Seq(S) /\ Len(SubSeq(now, 1, Len(before))) = Len(before)
    BY <1>1
<1>3. \A i \in 1 .. Len(before) : SubSeq(now, 1, Len(before))[i] = before[i]
    BY <1>1 DEF Keeps
<1> QED BY <1>2, <1>3

\* The first n entries of the list were added.
LEMMA GrownAdds ==
    ASSUME NEW S, NEW before \in Seq(S), NEW now \in Seq(S), NEW P, NEW list \in Seq(P),
           NEW n \in 0 .. Len(list), Grown(before, now, list, n)
    PROVE  /\ IsPrefix(Added(before, now), list)
           /\ Added(before, now) = list <=> n = Len(list)
<1> DEFINE added == Added(before, now)
<1>1. /\ Len(before) \in Nat /\ Len(now) = Len(before) + n /\ n \in Nat
      /\ Len(list) \in Nat /\ n <= Len(list)
    BY DEF Grown
<1>2. added = [i \in 1 .. n |-> now[Len(before) + i].of]
    BY <1>1 DEF Added
<1>3. added = [i \in 1 .. n |-> list[i]]
    BY <1>2 DEF Grown
<1>4. \A i \in 1 .. n : list[i] \in P
    BY <1>1
<1>5. added \in Seq(P) /\ Len(added) = n
    BY <1>1, <1>3, <1>4
<1>6. \A i \in 1 .. n : added[i] = list[i]
    BY <1>3
<1> HIDE DEF added
<1>7. IsPrefix(added, list)
  <2>1. SubSeq(added, 1, n) \in Seq(P) /\ Len(SubSeq(added, 1, n)) = n
      BY <1>1, <1>5
  <2>2. SubSeq(list, 1, n) \in Seq(P) /\ Len(SubSeq(list, 1, n)) = n
      BY <1>1
  <2>3. \A i \in 1 .. n : SubSeq(added, 1, n)[i] = SubSeq(list, 1, n)[i]
      BY <1>1, <1>5, <1>6
  <2>4. SubSeq(added, 1, n) = SubSeq(list, 1, n)
      BY <2>1, <2>2, <2>3
  <2> QED BY <1>1, <1>5, <2>4 DEF IsPrefix
<1>8. n = Len(list) => added = list
    BY <1>5, <1>6
<1>9. added = list => n = Len(list)
    BY <1>5
<1> QED BY <1>7, <1>8, <1>9 DEF added

\* Some entries of the list were added, in order.
LEMMA GrownAddsSome ==
    ASSUME NEW before, NEW now, NEW P, NEW list \in Seq(P), GrownBySome(before, now, list, Len(list))
    PROVE  LET added == Added(before, now)
           IN  \E pos \in [DOMAIN added -> DOMAIN list] :
                 /\ \A i, j \in DOMAIN added : i < j => pos[i] < pos[j]
                 /\ \A i \in DOMAIN added : added[i] = list[pos[i]]
<1> DEFINE k == Len(now) - Len(before)
           added == Added(before, now)
<1>1. PICK pos \in [1 .. k -> 1 .. Len(list)] : GrownFrom(before, now, list, Len(list), k, pos)
    BY DEF GrownBySome
<1>2. DOMAIN added = 1 .. k /\ \A i \in 1 .. k : added[i] = now[Len(before) + i].of
    BY DEF Added
<1>3. DOMAIN list = 1 .. Len(list)
    OBVIOUS
<1>4. /\ \A i, j \in 1 .. k : i < j => pos[i] < pos[j]
      /\ \A i \in 1 .. k : now[Len(before) + i].of = list[pos[i]]
    BY <1>1 DEF GrownFrom
<1> HIDE DEF added, k
<1>5. \A i \in DOMAIN added : added[i] = list[pos[i]]
    BY <1>2, <1>4
<1> QED BY <1>1, <1>2, <1>3, <1>4, <1>5 DEF added

\* The rows of a function that inserts.
LEMMA InvStored == DbIInv(Patterns) => StoredAsAsked
<1> DEFINE now == stored[focus]
           before == call.before
           added == Added(before, now)
<1>1. SUFFICES ASSUME DbIInv(Patterns), call.step = "returned", F.kind = "insert"
               PROVE  /\ Numbered(now) /\ lock[Me] = "none"
                      /\ ~call.disturbed =>
                           /\ SubSeq(now, 1, Len(before)) = before
                           /\ ~call.refused => added = call.list /\ call.ret = 0
                           /\ focus \in AllOrNothing =>
                                added \in {<<>>, call.list} /\ (call.ret = -1 => added = <<>>)
                           /\ focus \notin AllOrNothing \cup Silent =>
                                IsPrefix(added, call.list) /\ (call.ret = 0 <=> added = call.list)
                           /\ focus \in Silent => \E pos \in [DOMAIN added -> DOMAIN call.list] :
                                /\ \A i, j \in DOMAIN added : i < j => pos[i] < pos[j]
                                /\ \A i \in DOMAIN added : added[i] = call.list[pos[i]]
    BY DEF StoredAsAsked, Returned, Added
<1>2. /\ F = Functions[call.fn] /\ call.fn \in DOMAIN Functions /\ F.table = focus
      /\ Over(Patterns, F, call, now) /\ lock[Me] = "none" /\ RowsOK(Patterns, now)
    BY <1>1 DEF DbIInv, CallOK, TablesOK, F
<1> DEFINE S == [id : Nat, of : Patterns]
<1>3. now \in Seq(S) /\ Rising(now)
    BY <1>2 DEF RowsOK
<1>4. Numbered(now)
  <2> HIDE DEF S, now
  <2>1. SUFFICES ASSUME NEW i \in 1 .. Len(now) - 1
                 PROVE  now[i].id < now[i + 1].id
      BY DEF Numbered
  <2>2. i \in DOMAIN now /\ i + 1 \in DOMAIN now /\ i < i + 1
      BY <1>3
  <2> QED BY <1>3, <2>2 DEF Rising
<1>5. ASSUME ~call.disturbed
      PROVE  /\ SubSeq(now, 1, Len(before)) = before
             /\ ~call.refused => added = call.list /\ call.ret = 0
             /\ focus \in AllOrNothing =>
                  added \in {<<>>, call.list} /\ (call.ret = -1 => added = <<>>)
             /\ focus \notin AllOrNothing \cup Silent =>
                  IsPrefix(added, call.list) /\ (call.ret = 0 <=> added = call.list)
             /\ focus \in Silent => \E pos \in [DOMAIN added -> DOMAIN call.list] :
                  /\ \A i, j \in DOMAIN added : i < j => pos[i] < pos[j]
                  /\ \A i \in DOMAIN added : added[i] = call.list[pos[i]]
  <2>3. call.list \in Seq(Patterns) /\ RowsOK(Patterns, before) /\ StoredBy(F, call, now)
      BY <1>1, <1>2, <1>5 DEF Over
  <2>4. before \in Seq(S)
      BY <2>3 DEF RowsOK
  <2> HIDE DEF S
  <2>5. F.failed = "rollback" <=> focus \in AllOrNothing
      BY <1>1, <1>2, SchemaAssumption
  <2>6. F.failed = "ignore" <=> focus \in Silent
      BY <1>1, <1>2, SchemaAssumption
  <2>7. Keeps(before, now) /\ Len(call.list) \in 0 .. Len(call.list)
    <3>1. Len(call.list) \in Nat
        BY <2>3
    <3> QED BY <2>3, <3>1 DEF StoredBy
  <2>8. Grown(before, now, call.list, Len(call.list)) => added = call.list
      BY <1>3, <2>3, <2>4, <2>7, GrownAdds
  <2>9. SubSeq(now, 1, Len(before)) = before
      BY <1>3, <2>4, <2>7, KeepsSub
  <2>10. ~call.refused => added = call.list /\ call.ret = 0
      BY <2>3, <2>8 DEF StoredBy
  <2>11. ASSUME focus \in AllOrNothing
         PROVE  added \in {<<>>, call.list} /\ (call.ret = -1 => added = <<>>)
    <3>1. CASE now = before
      <4>1. Len(now) - Len(before) = 0
          BY <1>3, <2>4, <3>1
      <4>2. DOMAIN added = 1 .. 0 /\ added = [i \in 1 .. 0 |-> added[i]]
          BY <4>1 DEF Added
      <4> HIDE DEF added
      <4>3. added \in Seq(Patterns) /\ Len(added) = 0
          BY <4>2
      <4>4. added = <<>>
          BY <4>3
      <4> QED BY <4>4
    <3>2. CASE Grown(before, now, call.list, Len(call.list)) /\ call.ret = 0
        BY <2>8, <3>2
    <3> QED BY <2>3, <2>5, <2>11, <3>1, <3>2 DEF StoredBy
  <2>12. ASSUME focus \notin AllOrNothing \cup Silent
         PROVE  IsPrefix(added, call.list) /\ (call.ret = 0 <=> added = call.list)
    <3>1. PICK n \in 0 .. Len(call.list) :
            Grown(before, now, call.list, n) /\ (call.ret = 0 <=> n = Len(call.list))
        BY <2>3, <2>5, <2>6, <2>12 DEF StoredBy
    <3> QED BY <1>3, <2>3, <2>4, <3>1, GrownAdds
  <2>13. ASSUME focus \in Silent
         PROVE  \E pos \in [DOMAIN added -> DOMAIN call.list] :
                  /\ \A i, j \in DOMAIN added : i < j => pos[i] < pos[j]
                  /\ \A i \in DOMAIN added : added[i] = call.list[pos[i]]
    <3>1. GrownBySome(before, now, call.list, Len(call.list))
        BY <2>3, <2>6, <2>13 DEF StoredBy
    <3> QED BY <2>3, <3>1, GrownAddsSome
  <2> QED BY <2>9, <2>10, <2>11, <2>12, <2>13
<1> QED BY <1>2, <1>4, <1>5

\* The rows that a function which deletes leaves.
LEMMA InvDeleted == DbIInv(Patterns) => DeletedAsAsked
<1> DEFINE now == stored[focus]
           before == call.before
           gone(row) == call.mask = NULL \/ \E i \in DOMAIN call.list : Asked(call.mask, row, call.list[i])
           R == {i \in DOMAIN before : ~gone(before[i])}
           left == Kept(before, R)
<1>1. SUFFICES ASSUME DbIInv(Patterns), call.step = "returned", F.kind = "delete"
               PROVE  /\ ~call.disturbed =>
                           /\ now \in {before, left}
                           /\ ~call.refused /\ ~(call.mask = NULL /\ focus \in {"route"} \cup Silent)
                                => now = left
                      /\ \A t \in DOMAIN stored \ ({focus} \cup IF focus = "dev_map"
                                                                THEN {"composition"} ELSE {}) :
                           Len(stored[t]) = 1
    BY DEF DeletedAsAsked, Returned
<1>2. /\ F = Functions[call.fn] /\ F.table = focus /\ TablesOK(Patterns)
      /\ Over(Patterns, F, call, now) /\ RowsOK(Patterns, now)
    BY <1>1 DEF DbIInv, CallOK, TablesOK, F
<1>3. /\ RowsOK(Patterns, before) /\ (~call.disturbed => DeletedBy(F, call, now))
      /\ DOMAIN call.list = 1 .. Len(call.list)
    BY <1>1, <1>2 DEF Over
<1>4. R \subseteq DOMAIN before
    OBVIOUS
<1>5. RowsOK(Patterns, left) /\ Entries(left) = {before[i] : i \in R}
    BY <1>3, <1>4, KeptRows
<1>6. \A row : gone(row) <=> ~(call.mask # NULL /\ ~AskedBy(focus, call, Len(call.list), row))
    BY <1>3 DEF Asked, AskedOf, AskedBy
<1>7. ASSUME Gone(focus, call, now)
      PROVE  now = left
  <2>1. Entries(now) = {row \in Entries(before) : ~gone(row)}
      BY <1>6, <1>7 DEF Gone
  <2> HIDE DEF gone
  <2>2. {row \in Entries(before) : ~gone(row)} = {before[i] : i \in R}
      BY DEF Entries
  <2> HIDE DEF left, R
  <2> QED BY <1>2, <1>5, <2>1, <2>2, SameRows
<1>8. \A t \in Untouched : Len(stored[t]) = 1
    BY <1>2 DEF TablesOK
<1>9. DOMAIN stored = DOMAIN tmsdb_CheckDb
    BY <1>2 DEF TablesOK
<1> HIDE DEF left
<1>10. ~call.disturbed => now \in {before, left}
    BY <1>2, <1>3, <1>7 DEF DeletedBy
<1>11. ~call.disturbed /\ ~call.refused /\ ~(call.mask = NULL /\ focus \in {"route"} \cup Silent)
         => now = left
    BY <1>2, <1>3, <1>7 DEF DeletedBy
<1> QED BY <1>8, <1>9, <1>10, <1>11 DEF Untouched

-----------------------------------------------------------------------------
(* The theorems. *)

\* While a function runs, a transaction has stored nothing and the rows it works on are
\* those that its statements so far ask for; statements of their own have stored what they
\* ask for so far; the rows are in the order of their numbers, and no other table changes.
THEOREM DatabaseInvariant == Spec => []DbIInv(Patterns)
<1> QED BY DbInitial, DbInductive, PTL DEF Spec

\* tmsdb_Insert_...: what a function that inserts leaves behind and returns is what was
\* asked for, whichever of its statements another connection's lock refuses.
THEOREM RowsStored == Spec => []StoredAsAsked
<1> QED BY DatabaseInvariant, InvStored, PTL

\* tmsdb_Delete_...: the rows that were asked for go, all or none of them, and no others.
THEOREM RowsDeleted == Spec => []DeletedAsAsked
<1> QED BY DatabaseInvariant, InvDeleted, PTL

-----------------------------------------------------------------------------
(* Functions that select. *)

\* A mask names members that the function compares, or leaves out.
Fits(f, mask) == mask \ {"id>"} \subseteq DOMAIN f.where \cup LeftOut(f.table)

\* What a thread calls a function that selects with.
LEMMA MasksFit ==
    ASSUME NEW n \in DOMAIN Functions, Functions[n].kind = "select",
           NEW mask \in Masks(Functions[n]), mask # NULL
    PROVE  Fits(Functions[n], mask)
<1> DEFINE f == Functions[n]
           ones == {{m} : m \in Members[f.table]}
           twos == {{h[1], h[2]} : h \in f.hidden}
           after == IF f.kind = "select" /\ f.more THEN {{"id>"}} ELSE {}
<1>1. mask \in {NULL, {}} \cup ones \cup twos \cup after
    BY Zenon DEF Masks
<1>2. /\ Members[f.table] \subseteq DOMAIN f.where \cup LeftOut(f.table)
      /\ \A h \in f.hidden : {h[1], h[2]} \subseteq DOMAIN f.where
    BY SchemaAssumption
<1>3. \A x \in ones : x \subseteq DOMAIN f.where \cup LeftOut(f.table)
    BY <1>2
<1>4. \A x \in twos : x \subseteq DOMAIN f.where
    BY <1>2
<1>5. \A x \in after : x = {"id>"}
    OBVIOUS
<1> HIDE DEF f, ones, twos, after
<1>6. mask = {} \/ mask \in ones \/ mask \in twos \/ mask \in after
    BY <1>1
<1>7. Fits(f, mask)
    BY <1>3, <1>4, <1>5, <1>6 DEF Fits
<1> QED BY <1>7 DEF f

\* A row meets the text's conditions when it is one that was asked for, as far as the text
\* compares what it was asked.
LEMMA MeetsWhatIsCompared ==
    ASSUME NEW n \in DOMAIN Functions, Functions[n].kind = "select",
           Functions[n].table # "otdr_his_data", NEW mask, Fits(Functions[n], mask),
           NEW cond, NEW row, NEW id
    PROVE  Meets(Functions[n], row, mask, cond, id)
             <=> AskedOf(Functions[n].table, cond, mask \ NotCompared(Functions[n].table, mask), row, id)
<1> DEFINE f == Functions[n]
           t == f.table
           Hidden(m) == \E h \in f.hidden : h[1] = m /\ h[2] \in mask
           Equal(m) == Cell(t, row, f.where[m]) = IF m = "id" THEN <<"id", id>> ELSE Value(t, cond, m)
           Wanted(m) == IF m = "id" THEN row.id = id ELSE Value(t, row.of, m) = Value(t, cond, m)
<1>1. /\ LeftOut(t) \cap DOMAIN f.where = {}
      /\ f.hidden = IF t = "otdr_alarm_data" THEN Instead ELSE {}
      /\ {"NULL", "id>"} \cap DOMAIN f.where = {}
      /\ \A m \in DOMAIN f.where : InItsColumn(t, f.where[m], m)
    BY SchemaAssumption
<1>2. \A m : Hidden(m) <=> m \in Replaced(t, mask)
  <2>1. CASE t = "otdr_alarm_data"
      BY <1>1, <2>1 DEF Replaced
  <2>2. CASE t # "otdr_alarm_data"
      BY <1>1, <2>2 DEF Replaced
  <2> QED BY <2>1, <2>2
<1>3. ASSUME NEW m \in DOMAIN f.where
      PROVE  Equal(m) <=> Wanted(m)
  <2>1. InItsColumn(t, f.where[m], m)
      BY <1>1
  <2> HIDE DEF f, t
  <2> QED BY <2>1, ColumnCompares, SMTT(30)
<1>4. "id>" \notin NotCompared(t, mask) /\ "NULL" \notin LeftOut(t)
  <2>1. \A h \in Instead : h[1] # "id>"
      BY DEF Instead, Osw, Otdr
  <2>2. "id>" \notin Replaced(t, mask)
      BY <2>1 DEF Replaced
  <2>3. "id>" \notin LeftOut(t) /\ "NULL" \notin LeftOut(t)
      BY DEF LeftOut
  <2> QED BY <2>2, <2>3 DEF NotCompared
<1>5. \A m : m \in mask \cap DOMAIN f.where /\ ~Hidden(m)
               <=> m \in (mask \ NotCompared(t, mask)) \ {"id>", "NULL"}
    BY <1>1, <1>2, <1>4 DEF NotCompared, Fits
<1>6. Meets(f, row, mask, cond, id) <=>
        (\A m \in mask \cap DOMAIN f.where : Hidden(m) \/ Equal(m)) /\ ("id>" \in mask => row.id > id)
    BY DEF Meets
<1>7. AskedOf(t, cond, mask \ NotCompared(t, mask), row, id) <=>
        /\ \A m \in (mask \ NotCompared(t, mask)) \ {"id>", "NULL"} : Wanted(m)
        /\ "id>" \in mask => row.id > id
    BY <1>4 DEF AskedOf
<1> HIDE DEF f, t, Hidden, Equal, Wanted
<1>8. Meets(f, row, mask, cond, id) <=> AskedOf(t, cond, mask \ NotCompared(t, mask), row, id)
    BY <1>3, <1>5, <1>6, <1>7
<1> QED BY <1>8 DEF f, t

\* What a function that selects has been asked for.
SelectOK(f, c) ==
  /\ c.mask = NULL \/ Fits(f, c.mask)
  /\ c.from \in Nat /\ c.limit \in Nat /\ c.answer \in Int
  /\ f.into = "page" => c.limit >= 1
  /\ f.into # "page" => c.from = 0

\* What is passed on are the rows that the conditions single out.
SelectIInv ==
  /\ call.step \in {"select", "found"} => SelectOK(F, call)
  /\ call.step = "found" => call.found = Hits

\* A function that selects begins.
LEMMA SelectAsked ==
    ASSUME CallSelect
    PROVE  call'.step = "select" /\ SelectOK(F', call')
<1>1. PICK fn \in DOMAIN Functions, limit \in 1 .. 2, answer \in {0, -1, 1} :
        /\ Functions[fn].kind = "select"
        /\ \E mask \in Masks(Functions[fn]) :
             \/ StartSelect(fn, mask, <<0, 0>>, limit, answer)
             \/ Functions[fn].into = "page" /\ answer = 0 /\ StartPage(fn, mask, <<0, 0>>, 1, 1, limit)
    BY DEF CallSelect
<1>2. PICK mask \in Masks(Functions[fn]) :
        \/ StartSelect(fn, mask, <<0, 0>>, limit, answer)
        \/ Functions[fn].into = "page" /\ StartPage(fn, mask, <<0, 0>>, 1, 1, limit)
    BY <1>1
<1>3. /\ call'.step = "select" /\ call'.fn = fn /\ call'.mask = mask /\ call'.limit = limit
      /\ call'.answer \in {0, -1, 1}
      /\ call'.from = 0 \/ (call'.from = 1 /\ Functions[fn].into = "page")
    BY <1>1, <1>2, SelectStarts, PageStarts
<1>4. F' = Functions[fn]
    BY <1>3 DEF F
<1>5. mask = NULL \/ Fits(Functions[fn], mask)
    BY <1>1, MasksFit
<1>6. call'.limit \in Nat /\ call'.limit >= 1 /\ call'.answer \in Int /\ call'.from \in Nat
    BY <1>1, <1>3
<1>7. Functions[fn].into # "page" => call'.from = 0
    BY <1>3
<1> QED BY <1>3, <1>4, <1>5, <1>6, <1>7 DEF SelectOK

\* What is found is what the conditions single out, and stays so while it is passed on.
LEMMA SelectKeeps ==
    ASSUME NEW P, DbIInv(P), SelectIInv, Select
    PROVE  SelectIInv'
<1>1. IsCall(call) /\ call.step = "select" /\ SelectOK(F, call) /\ UNCHANGED <<focus, stored>>
    BY DEF DbIInv, CallOK, Select, SelectIInv
<1>2. CASE call' = [call EXCEPT !.step = "found", !.found = Hits]
  <2>1. /\ call'.step = "found" /\ call'.found = Hits /\ call'.fn = call.fn /\ call'.mask = call.mask
        /\ call'.cond = call.cond /\ call'.list = call.list /\ call'.from = call.from
        /\ call'.limit = call.limit /\ call'.answer = call.answer
      BY <1>1, <1>2 DEF IsCall
  <2>2. F' = F
      BY <2>1 DEF F
  <2>3. Hits' = Hits
      BY <1>1, <2>1, <2>2 DEF Hits, Page
  <2>4. SelectOK(F, call)' <=> SelectOK(F, call)
      BY <2>1, <2>2 DEF SelectOK
  <2> QED BY <1>1, <2>1, <2>3, <2>4 DEF SelectIInv
<1>3. CASE call'.step = "returned"
    BY <1>3 DEF SelectIInv
<1>4. \A r : Return(r) => call'.step = "returned"
    BY <1>1 DEF Return, IsCall
<1>5. call' = [call EXCEPT !.step = "returned", !.ret = Result(<<>>), !.refused = TRUE]
        => call'.step = "returned"
    BY <1>1 DEF IsCall
<1> QED BY <1>2, <1>3, <1>4, <1>5 DEF Select

\* The other steps of a call.
LEMMA NotSelecting ==
    ASSUME NEW P, DbIInv(P), Insert \/ Delete \/ Finalize \/ Close \/ Done \/ CallInsert \/ CallDelete
    PROVE  call'.step \notin {"select", "found"}
<1>1. IsCall(call)
    BY DEF DbIInv, CallOK
<1>2. \A r : Return(r) => call'.step = "returned"
    BY <1>1 DEF Return, IsCall
<1>3. Commit => call'.step \in {"returned", "close"}
  <2>1. CASE CanCommit(lock, Me)
      BY <1>2, <2>1 DEF Commit
  <2>2. CASE ~CanCommit(lock, Me)
      BY <1>1, <2>2 DEF Commit, IsCall
  <2> QED BY <2>1, <2>2
<1>4. \A rows : InTransaction(rows) => call'.step \in {call.step, "returned"}
  <2> TAKE rows
  <2>1. CASE CanReserve(lock, Me)
      BY <1>1, <2>1 DEF InTransaction, Begun, IsCall
  <2>2. CASE ~CanReserve(lock, Me)
      BY <1>1, <2>2 DEF InTransaction, Begun, IsCall
  <2> QED BY <2>1, <2>2
<1>5. InsertRow => call'.step \in {call.step, "returned"}
  <2>1. CASE CanWrite(lock, Me)
      BY <1>1, <2>1 DEF InsertRow, Begun, IsCall
  <2>2. CASE ~CanWrite(lock, Me)
      BY <1>1, <2>2 DEF InsertRow, Begun, IsCall
  <2> QED BY <2>1, <2>2
<1>6. \A t : DeleteOnce(t) => call'.step = "returned"
  <2> TAKE t
  <2>1. CASE CanWrite(lock, Me)
      BY <1>1, <2>1 DEF DeleteOnce, Begun, IsCall
  <2>2. CASE ~CanWrite(lock, Me)
      BY <1>1, <2>2 DEF DeleteOnce, Begun, IsCall
  <2> QED BY <2>1, <2>2
<1>7. \A r : DeleteNone(r) => call'.step = "returned"
    BY <1>1 DEF DeleteNone, Begun, IsCall
<1>8. CASE Insert
    BY <1>2, <1>3, <1>4, <1>5, <1>8 DEF Insert
<1>9. CASE Delete
    BY <1>3, <1>4, <1>6, <1>7, <1>9 DEF Delete
<1>10. CASE Finalize \/ Close
    BY <1>2, <1>10 DEF Finalize, Close
<1>11. CASE Done
    BY <1>11, Zenon DEF Done, Idle
<1>12. CASE CallInsert
    BY <1>12, Zenon DEF CallInsert, StartInsert, Idle
<1>13. CASE CallDelete
    BY <1>13, Zenon DEF CallDelete, StartDelete, Idle
<1> QED BY <1>8, <1>9, <1>10, <1>11, <1>12, <1>13

\* Nothing that a call depends on changes.
LEMMA SelectUntouched ==
    ASSUME SelectIInv, UNCHANGED <<focus, stored, call>>
    PROVE  SelectIInv'
BY DEF SelectIInv, SelectOK, F, Hits, Page

\* Whatever the two threads do next.
LEMMA SelectInductive == DbIInv(Patterns) /\ SelectIInv /\ [Next]_vars => SelectIInv'
<1>1. SUFFICES ASSUME DbIInv(Patterns), SelectIInv, [Next]_vars
               PROVE  SelectIInv'
    OBVIOUS
<1>2. CASE CallSelect
    BY <1>2, SelectAsked DEF SelectIInv
<1>3. CASE Select
    BY <1>1, <1>3, SelectKeeps
<1>4. CASE Insert \/ Delete \/ Finalize \/ Close \/ Done \/ CallInsert \/ CallDelete
    BY <1>1, <1>4, NotSelecting DEF SelectIInv
<1>5. CASE (OtherLocks /\ UNCHANGED <<focus, stored, call>>) \/ UNCHANGED vars
  <2>1. UNCHANGED <<focus, stored, call>>
      BY <1>5 DEF vars
  <2> QED BY <1>1, <2>1, SelectUntouched
<1>6. CASE OtherWrites
  <2>1. IsCall(call) /\ (call.step = "found" => lock[Me] = "shared") /\ CanWrite(lock, Other)
      BY <1>1, <1>6 DEF DbIInv, CallOK, OtherWrites
  <2>2. SameCall(call, call')
      BY <1>6, <2>1, CallDisturbed DEF OtherWrites
  <2>3. call.step # "found"
    <3>1. CanCommit(lock, Other) /\ Me \in DOMAIN lock \ {Other}
        BY <1>1, <2>1 DEF CanWrite, DbIInv, Me, Other
    <3> QED BY <2>1, <3>1 DEF CanCommit, Others
  <2>4. call'.step = call.step /\ F' = F
      BY <2>2 DEF SameCall, F
  <2>5. call.step = "select" => SelectOK(F', call')
      BY <1>1, <2>2, <2>4 DEF SelectIInv, SelectOK, SameCall
  <2> QED BY <2>3, <2>4, <2>5 DEF SelectIInv
<1> QED BY <1>1, <1>2, <1>3, <1>4, <1>5, <1>6 DEF Next, OtherStep

\* The rows that were asked for, and how many of them are passed on at most.
MetRows(rows, c) ==
  {i \in DOMAIN rows : c.mask = NULL \/ AskedOf(focus, c.cond, c.mask \ NotCompared(focus, c.mask), rows[i], c.list[1])}

Most(f, c, n) == IF c.answer # 0 THEN 1 ELSE IF f.into = "page" THEN c.limit ELSE n

\* What a function passes on are at most so many of the rows that were asked for.
LEMMA HitsAre ==
    ASSUME NEW P, DbIInv(P), call.step \in {"select", "found"}, SelectOK(F, call),
           focus # "otdr_his_data"
    PROVE  LET wanted == Kept(stored[focus], MetRows(stored[focus], call))
           IN  /\ RowsOK(P, wanted) /\ Most(F, call, Len(wanted)) \in Nat
               /\ IsPiece([id : Nat, of : P], wanted, call.from, Most(F, call, Len(wanted)), Hits)
<1> DEFINE rows == stored[focus]
           R == MetRows(rows, call)
           wanted == Kept(rows, R)
           most == Most(F, call, Len(wanted))
<1>1. /\ call.fn \in DOMAIN Functions /\ F = Functions[call.fn] /\ F.kind = "select" /\ F.table = focus
      /\ RowsOK(P, rows)
    BY DEF DbIInv, CallOK, TablesOK, F
<1>2. R = {i \in DOMAIN rows : call.mask = NULL \/ Meets(F, rows[i], call.mask, call.cond, call.list[1])}
  <2>1. ASSUME NEW i \in DOMAIN rows, call.mask # NULL
        PROVE  Meets(F, rows[i], call.mask, call.cond, call.list[1])
                 <=> AskedOf(focus, call.cond, call.mask \ NotCompared(focus, call.mask), rows[i], call.list[1])
    <3>1. Fits(F, call.mask)
        BY <2>1 DEF SelectOK
    <3>2. PICK n \in DOMAIN Functions : n = call.fn
        BY <1>1
    <3>3. Functions[n].kind = "select" /\ Functions[n].table = focus /\ Fits(Functions[n], call.mask) /\ F = Functions[n]
        BY <1>1, <3>1, <3>2
    <3> HIDE DEF rows
    <3> QED BY <3>3, MeetsWhatIsCompared
  <2> HIDE DEF rows
  <2> QED BY <2>1 DEF MetRows
<1>3. RowsOK(P, wanted)
  <2>1. R \subseteq DOMAIN rows
      BY DEF MetRows
  <2> HIDE DEF R, rows
  <2> QED BY <1>1, <2>1, KeptRows
<1>4. wanted \in Seq([id : Nat, of : P]) /\ Len(wanted) \in Nat
    BY <1>3 DEF RowsOK
<1>5. Hits = Page(wanted)
    BY <1>1, <1>2 DEF Hits
<1>6. call.from \in Nat /\ call.limit \in Nat
    BY DEF SelectOK
<1> HIDE DEF wanted
<1>7. most \in Nat
    BY <1>4, <1>6 DEF Most
<1>8. Page(wanted) = SubSeq(wanted, call.from + 1,
                           IF call.from + most < Len(wanted) THEN call.from + most ELSE Len(wanted))
    BY DEF Page, Most
<1> HIDE DEF most
<1>9. IsPiece([id : Nat, of : P], wanted, call.from, most, Page(wanted))
  <2> DEFINE S == [id : Nat, of : P]
  <2>1. wanted \in Seq(S)
      BY <1>4
  <2> HIDE DEF S
  <2>2. IsPiece(S, wanted, call.from, most, Page(wanted))
      BY <1>6, <1>7, <1>8, <2>1, PieceIs
  <2> QED BY <2>2 DEF S
<1> QED BY <1>3, <1>5, <1>7, <1>9 DEF wanted, most

\* A row is read as it was stored.
LEMMA FilledAsStored ==
    ASSUME call.fn \in DOMAIN Functions, F.kind = "select", F.table = focus, ~NeverFinds, NEW row
    PROVE  LET out == Filled(row) IN
             \A m \in DOMAIN out \ NotReadBack[focus] :
               out[m] = IF m = "id" THEN <<"id", row.id>> ELSE Value(focus, row.of, m)
<1>1. /\ F.null = "shifted" => focus = "a_trigger_b"
      /\ \A m \in DOMAIN F.reads \ NotReadBack[focus] : InItsColumn(focus, F.reads[m], m)
    BY SchemaAssumption DEF F
<1>2. ~(call.mask = NULL /\ F.null = "shifted")
    BY <1>1 DEF NeverFinds
<1>3. Filled(row) = [m \in DOMAIN F.reads |-> Cell(focus, row, F.reads[m])]
    BY <1>2 DEF Filled
<1>4. SUFFICES ASSUME NEW m \in DOMAIN F.reads \ NotReadBack[focus]
               PROVE  Cell(focus, row, F.reads[m]) = IF m = "id" THEN <<"id", row.id>> ELSE Value(focus, row.of, m)
    BY <1>3
<1>5. InItsColumn(focus, F.reads[m], m)
    BY <1>1
<1> QED BY <1>5, ColumnHolds

\* What the invariant says of a function that has found rows.
LEMMA InvFound == DbIInv(Patterns) /\ SelectIInv => FoundAsStored
<1>1. SUFFICES ASSUME DbIInv(Patterns), SelectIInv, call.step = "found", ~NeverFinds
               PROVE  LET rows == stored[focus]
                          wanted == Kept(rows, {i \in DOMAIN rows :
                                     Asked(call.mask \ NotCompared(focus, call.mask), rows[i], call.list[1])})
                      IN /\ call.found = SubSeq(wanted, call.from + 1, call.from + Len(call.found))
                         /\ Len(call.found) = Len(wanted) \/ call.answer # 0 \/ F.into = "page"
                         /\ Len(wanted) > call.from => call.found # <<>>
                         /\ \A i \in DOMAIN call.found : LET out == Filled(call.found[i]) IN
                              \A m \in DOMAIN out \ NotReadBack[focus] :
                                out[m] = IF m = "id" THEN <<"id", call.found[i].id>>
                                         ELSE Value(focus, call.found[i].of, m)
    BY DEF FoundAsStored
<1> DEFINE rows == stored[focus]
           A == {i \in DOMAIN rows : Asked(call.mask \ NotCompared(focus, call.mask), rows[i], call.list[1])}
           R == MetRows(rows, call)
           wanted == Kept(rows, R)
           S == [id : Nat, of : Patterns]
           n == Most(F, call, Len(wanted))
           found == call.found
<1>2. focus # "otdr_his_data" /\ SelectOK(F, call) /\ found = Hits /\ call.step \in {"select", "found"}
    BY <1>1 DEF NeverFinds, SelectIInv
<1>3. call.fn \in DOMAIN Functions /\ F.kind = "select" /\ F.table = focus
    BY <1>1 DEF DbIInv, CallOK, F
<1>4. A = R
  <2>1. \A mask, row, id : Asked(mask, row, id) <=> AskedOf(focus, call.cond, mask, row, id)
      BY DEF Asked, AskedOf
  <2>2. call.mask = NULL => \A row, id : AskedOf(focus, call.cond, call.mask \ NotCompared(focus, call.mask), row, id)
    <3>1. \A T, row, id : AskedOf(focus, call.cond, NULL \ T, row, id)
        BY DEF AskedOf, NULL
    <3> QED BY <3>1
  <2> HIDE DEF rows
  <2> QED BY <2>1, <2>2 DEF MetRows
<1>5. RowsOK(Patterns, wanted) /\ n \in Nat /\ IsPiece(S, wanted, call.from, n, found)
    BY <1>1, <1>2, HitsAre
<1> HIDE DEF rows, A, R, wanted, found
<1>6. wanted \in Seq(S) /\ Len(wanted) \in Nat
    BY <1>5 DEF RowsOK
<1>7. call.from \in Nat /\ call.limit \in Nat
    BY <1>2 DEF SelectOK
<1>8. /\ found \in Seq(S) /\ Len(found) \in Nat
      /\ Len(found) = IF call.from >= Len(wanted) THEN 0
                      ELSE IF call.from + n < Len(wanted) THEN n ELSE Len(wanted) - call.from
    BY <1>5 DEF IsPiece
<1>9. found = SubSeq(wanted, call.from + 1, call.from + Len(found))
  <2> HIDE DEF S, n
  <2> QED BY <1>5, <1>6, <1>7, PieceIsSub
<1>10. Len(found) = Len(wanted) \/ call.answer # 0 \/ F.into = "page"
  <2>1. SUFFICES ASSUME call.answer = 0, F.into # "page"
                 PROVE  Len(found) = Len(wanted)
      OBVIOUS
  <2>2. call.from = 0 /\ n = Len(wanted)
      BY <1>2, <2>1 DEF SelectOK, Most
  <2> HIDE DEF n
  <2> QED BY <1>6, <1>8, <2>2
<1>11. Len(wanted) > call.from => found # <<>>
  <2>1. SUFFICES ASSUME Len(wanted) > call.from
                 PROVE  Len(found) # 0
      BY <1>8
  <2>2. n >= 1
    <3>1. CASE call.answer # 0
        BY <3>1 DEF Most
    <3>2. CASE call.answer = 0 /\ F.into = "page"
        BY <1>2, <3>2 DEF Most, SelectOK
    <3>3. CASE call.answer = 0 /\ F.into # "page"
      <4>1. n = Len(wanted)
          BY <3>3 DEF Most
      <4> QED BY <1>6, <1>7, <2>1, <4>1
    <3> QED BY <3>1, <3>2, <3>3
  <2> HIDE DEF n
  <2> QED BY <1>5, <1>6, <1>7, <1>8, <2>1, <2>2
<1>12. \A i \in DOMAIN found : LET out == Filled(found[i]) IN
         \A m \in DOMAIN out \ NotReadBack[focus] :
           out[m] = IF m = "id" THEN <<"id", found[i].id>> ELSE Value(focus, found[i].of, m)
    BY <1>1, <1>3, FilledAsStored
<1> HIDE DEF S, n
<1>13. Kept(rows, A) = wanted
    BY <1>4 DEF wanted
<1> QED BY <1>9, <1>10, <1>11, <1>12, <1>13 DEF found, rows, A

\* tmsdb_Select_...: what a function finds is what was stored and meets its conditions, in
\* order, up to the page's length, for tables with any number of rows and pages of any
\* length, whichever statement the other connection's lock refuses.
THEOREM RowsSelected == Spec => []FoundAsStored
<1>1. Init => SelectIInv
  <2>1. Init => call = Idle
      BY DEF Init
  <2>2. Idle.step = "idle"
      BY DEF Idle
  <2> QED BY <2>1, <2>2 DEF SelectIInv
<1> QED BY <1>1, DbInitial, DbInductive, SelectInductive, InvFound, PTL DEF Spec

-----------------------------------------------------------------------------
(* Lines (TmsRoute). *)

\* What a row of the table of lines holds.
Pairs == (Modules \cup {Outside}) \X (Modules \cup {Outside})

\* As many links end at a module as begin there.
BalancedSet(S) ==
  \A n \in Modules : Cardinality({r \in S : r.of[2] = n}) = Cardinality({r \in S : r.of[1] = n})

\* From the outside to the outside.
IsLine(list) ==
  /\ list # <<>> /\ list[1][1] = Outside /\ list[Len(list)][2] = Outside
  /\ \A i \in 1 .. Len(list) - 1 : list[i][2] = list[i + 1][1]

\* The first row of a table that begins at n.
FirstAt(rows, n) ==
  LET places == {i \in DOMAIN rows : rows[i].of[1] = n}
  IN rows[CHOOSE i \in places : \A j \in places : i <= j]

\* Rows that were looked up one behind the other.
IsWalk(rows, nodes) ==
  /\ nodes \in Seq([id : Nat, of : Pairs]) /\ nodes # <<>>
  /\ \A i \in 1 .. Len(nodes) : nodes[i] \in Entries(rows)
  /\ \A i \in 1 .. Len(nodes) - 1 :
       /\ nodes[i].of[2] # Outside /\ nodes[i + 1].of[1] = nodes[i].of[2]
       /\ nodes[i + 1] = FirstAt(rows, nodes[i].of[2])

\* What a function that deletes is going to leave.
Leaving(c, rows) == {row \in Entries(rows) : ~AskedBy("route", c, Len(c.list), row)}

\* What the command deletes with: no condition, or the rows' numbers.
Listed == {{}, {"id"}}

\* While a line is looked up the first statement's connection holds the lock.
Walking == {"del", "detail"}
Held(u) == IF u.cmd \in Walking THEN "none" ELSE lock[Me]

UserOK(u, c, rows, torn, race, line) ==
  /\ u = [cmd |-> u.cmd, nodes |-> u.nodes]
  /\ u.cmd \in {"none", "go", "save", "page", "next", "write"} \cup Walking
  /\ u.cmd = "none" => u = Ready /\ c.step = "idle"
  /\ u.cmd = "save" => (~race => tmsdb_Check_route_oneline(line) = 0)
  /\ u.cmd \in {"go", "save", "page", "next"} =>
       c.step \in {"select", "found", "returned"} /\ Functions[c.fn].kind = "select"
  /\ u.cmd \in Walking => c.step = "idle" /\ IsWalk(rows, u.nodes)
  /\ u.cmd = "write" =>
       /\ c.step \in {"insert", "delete", "close", "returned"}
       /\ c.step = "insert" => (~race => IsLine(c.list))
       /\ c.step = "delete" => c.mask \in Listed /\ (~torn /\ ~race => BalancedSet(Leaving(c, rows)))
  /\ ~torn /\ ~race => BalancedSet(Entries(rows))

DraftOK(line) == line \in Seq(Pairs) /\ line # <<>>

OwnIInv ==
  /\ TablesOK(Pairs) /\ LockOK /\ focus = "route"
  /\ CallOK(Pairs, focus, call, Links, Held(user))
  /\ user.cmd \in Walking => lock[Me] = "shared"
  /\ DraftOK(sg_route) /\ UserOK(user, call, Links, excused, raced, sg_route)

LEMMA ListedIs == \A mask \in Listed : mask # NULL
BY DEF Listed, NULL

\* A module is not the outside.
LEMMA ModulesInside == \A n \in Modules : n # Outside
BY RouteAssumption DEF Outside

\* Sets of rows without a common row, balanced both.
LEMMA BothBalanced ==
    ASSUME NEW S, NEW T, IsFiniteSet(S), IsFiniteSet(T), S \cap T = {}, BalancedSet(T)
    PROVE  BalancedSet(S) <=> BalancedSet(S \cup T)
<1>1. SUFFICES ASSUME NEW n \in Modules
               PROVE  Cardinality({r \in S : r.of[2] = n}) = Cardinality({r \in S : r.of[1] = n})
                        <=> Cardinality({r \in S \cup T : r.of[2] = n})
                              = Cardinality({r \in S \cup T : r.of[1] = n})
    BY DEF BalancedSet
<1> DEFINE A == {r \in S : r.of[2] = n}
           B == {r \in S : r.of[1] = n}
           C == {r \in T : r.of[2] = n}
           D == {r \in T : r.of[1] = n}
<1>2. /\ {r \in S \cup T : r.of[2] = n} = A \cup C
      /\ {r \in S \cup T : r.of[1] = n} = B \cup D
    OBVIOUS
<1>3. A \subseteq S /\ B \subseteq S /\ C \subseteq T /\ D \subseteq T
    OBVIOUS
<1>4. Cardinality(C) = Cardinality(D)
    BY DEF BalancedSet
<1> HIDE DEF A, B, C, D
<1>5. IsFiniteSet(A) /\ IsFiniteSet(B) /\ IsFiniteSet(C) /\ IsFiniteSet(D)
    BY <1>3, FS_Subset
<1>6. A \cap C = {} /\ B \cap D = {}
    BY <1>3
<1>7. /\ Cardinality(A \cup C) = Cardinality(A) + Cardinality(C)
      /\ Cardinality(A) \in Nat /\ Cardinality(C) \in Nat
    BY <1>5, <1>6, CountBoth
<1>8. /\ Cardinality(B \cup D) = Cardinality(B) + Cardinality(D)
      /\ Cardinality(B) \in Nat /\ Cardinality(D) \in Nat
    BY <1>5, <1>6, CountBoth
<1>9. Cardinality(A) = Cardinality(B) <=> Cardinality(A \cup C) = Cardinality(B \cup D)
    BY <1>4, <1>7, <1>8
<1> QED BY <1>2, <1>9 DEF A, B

\* The rows of a table are finitely many.
LEMMA EntriesFinite ==
    ASSUME NEW S, NEW rows \in Seq(S)
    PROVE  IsFiniteSet(Entries(rows))
<1> DEFINE f == [i \in 1 .. Len(rows) |-> rows[i]]
           E == Entries(rows)
<1>1. Len(rows) \in Nat /\ DOMAIN rows = 1 .. Len(rows)
    OBVIOUS
<1>2. f \in Surjection(1 .. Len(rows), E)
    BY <1>1 DEF Entries, Surjection
<1>3. IsFiniteSet(1 .. Len(rows))
    BY <1>1, FS_Interval
<1> QED BY <1>2, <1>3, FS_Surjection

\* Different rows from the outside to the outside, one beginning where the other ends.
IsChain(rows) ==
  /\ rows # <<>> /\ rows[1].of[1] = Outside /\ rows[Len(rows)].of[2] = Outside
  /\ \A i \in 1 .. Len(rows) - 1 : rows[i].of[2] = rows[i + 1].of[1]
  /\ \A i, j \in 1 .. Len(rows) : rows[i] = rows[j] => i = j

LEMMA ChainBalanced ==
    ASSUME NEW S, NEW rows \in Seq(S), IsChain(rows)
    PROVE  BalancedSet(Entries(rows))
<1>1. SUFFICES ASSUME NEW n \in Modules
               PROVE  Cardinality({r \in Entries(rows) : r.of[2] = n})
                        = Cardinality({r \in Entries(rows) : r.of[1] = n})
    BY DEF BalancedSet
<1> DEFINE N == Len(rows)
           A == {r \in Entries(rows) : r.of[2] = n}
           B == {r \in Entries(rows) : r.of[1] = n}
           I == {i \in 1 .. N : rows[i].of[2] = n}
           J == {i \in 1 .. N : rows[i].of[1] = n}
           f == [i \in I |-> rows[i]]
           g == [i \in J |-> rows[i]]
           h == [i \in I |-> i + 1]
<1>2. N \in Nat \ {0} /\ DOMAIN rows = 1 .. N /\ Entries(rows) = {rows[i] : i \in 1 .. N}
    BY DEF IsChain, Entries
<1>3. n # Outside
    BY ModulesInside
<1>4. /\ rows[1].of[1] = Outside /\ rows[N].of[2] = Outside
      /\ \A i \in 1 .. N - 1 : rows[i].of[2] = rows[i + 1].of[1]
      /\ \A i, j \in 1 .. N : rows[i] = rows[j] => i = j
    BY DEF IsChain
<1> HIDE DEF N
<1>5. IsFiniteSet(1 .. N)
    BY <1>2, FS_Interval
<1>6. I \subseteq 1 .. N /\ J \subseteq 1 .. N
    OBVIOUS
<1>7. IsFiniteSet(I) /\ IsFiniteSet(J)
  <2> HIDE DEF I, J
  <2> QED BY <1>5, <1>6, FS_Subset
<1>8. Cardinality(A) = Cardinality(I)
  <2>1. f \in [I -> A]
      BY <1>2
  <2>2. \A i, j \in I : f[i] = f[j] => i = j
      BY <1>4
  <2>3. \A r \in A : \E i \in I : f[i] = r
      BY <1>2
  <2> HIDE DEF f, I, A
  <2> QED BY <1>7, <2>1, <2>2, <2>3, SameCount
<1>9. Cardinality(B) = Cardinality(J)
  <2>1. g \in [J -> B]
      BY <1>2
  <2>2. \A i, j \in J : g[i] = g[j] => i = j
      BY <1>4
  <2>3. \A r \in B : \E i \in J : g[i] = r
      BY <1>2
  <2> HIDE DEF g, J, B
  <2> QED BY <1>7, <2>1, <2>2, <2>3, SameCount
<1>10. Cardinality(J) = Cardinality(I)
  <2>1. ASSUME NEW i \in I
        PROVE  i + 1 \in J
    <3>1. i # N
        BY <1>3, <1>4
    <3>2. i \in 1 .. N - 1 /\ i + 1 \in 1 .. N
        BY <1>2, <3>1
    <3> QED BY <1>4, <3>2
  <2>2. ASSUME NEW j \in J
        PROVE  \E i \in I : i + 1 = j
    <3>1. j # 1
        BY <1>3, <1>4
    <3>2. j - 1 \in 1 .. N - 1 /\ j - 1 \in 1 .. N /\ (j - 1) + 1 = j
        BY <1>2, <3>1
    <3>3. rows[j - 1].of[2] = n
        BY <1>4, <3>2
    <3> QED BY <3>2, <3>3
  <2>3. h \in [I -> J]
      BY <2>1
  <2>4. \A i, j \in I : h[i] = h[j] => i = j
      BY <1>2
  <2>5. \A j \in J : \E i \in I : h[i] = j
      BY <2>2
  <2> HIDE DEF h, I, J
  <2> QED BY <1>7, <2>3, <2>4, <2>5, SameCount
<1> QED BY <1>8, <1>9, <1>10

\* A line is stored behind the others.
LEMMA LineStored ==
    ASSUME NEW before, RowsOK(Pairs, before), NEW now, RowsOK(Pairs, now), NEW list \in Seq(Pairs),
           IsLine(list), Grown(before, now, list, Len(list)), BalancedSet(Entries(before))
    PROVE  BalancedSet(Entries(now))
<1> DEFINE R == [id : Nat, of : Pairs]
           b == Len(before)
           k == Len(list)
           new == [i \in 1 .. k |-> now[b + i]]
<1>1. before \in Seq(R) /\ now \in Seq(R) /\ Rising(now)
    BY DEF RowsOK
<1> HIDE DEF R
<1>2. b \in Nat /\ k \in Nat \ {0} /\ Len(now) = b + k /\ DOMAIN now = 1 .. b + k /\ DOMAIN before = 1 .. b
    BY <1>1 DEF IsLine, Grown
<1>3. /\ \A i \in 1 .. b : now[i] = before[i]
      /\ \A i \in 1 .. k : now[b + i].of = list[i]
    BY DEF Grown, Keeps
<1>4. \A i \in 1 .. k : b + i \in 1 .. b + k /\ b + i \in DOMAIN now
    BY <1>2
<1>5. new \in Seq(R) /\ Len(new) = k /\ DOMAIN new = 1 .. k
  <2>1. \A i \in 1 .. k : now[b + i] \in R
      BY <1>1, <1>4
  <2> QED BY <1>2, <2>1
<1>6. \A i \in 1 .. k : new[i] = now[b + i]
    OBVIOUS
<1> HIDE DEF b, k, new
<1>7. \A i \in DOMAIN now : now[i].id \in Nat
  <2>1. now \in Seq([id : Nat, of : Pairs])
      BY DEF RowsOK
  <2> QED BY <2>1, EntryOK
<1>8. Entries(now) = Entries(before) \cup Entries(new)
  <2>1. \A i \in 1 .. b + k : i \in 1 .. b \/ (i - b \in 1 .. k /\ b + (i - b) = i)
      BY <1>2
  <2>2. \A i \in 1 .. b : i \in 1 .. b + k
      BY <1>2
  <2>3. Entries(now) \subseteq Entries(before) \cup Entries(new)
    <3>1. ASSUME NEW i \in DOMAIN now
          PROVE  now[i] \in Entries(before) \cup Entries(new)
      <4>1. CASE i \in 1 .. b
          BY <1>2, <1>3, <4>1 DEF Entries
      <4>2. CASE i - b \in 1 .. k /\ b + (i - b) = i
        <5>1. new[i - b] = now[i]
            BY <1>6, <4>2
        <5> QED BY <1>5, <4>2, <5>1 DEF Entries
      <4> QED BY <1>2, <2>1, <4>1, <4>2
    <3> QED BY <3>1 DEF Entries
  <2>4. Entries(before) \subseteq Entries(now)
      BY <1>2, <1>3, <2>2 DEF Entries
  <2>5. Entries(new) \subseteq Entries(now)
      BY <1>4, <1>5, <1>6 DEF Entries
  <2> QED BY <2>3, <2>4, <2>5
<1>9. Entries(before) \cap Entries(new) = {}
  <2>1. SUFFICES ASSUME NEW i \in 1 .. b, NEW j \in 1 .. k, before[i] = new[j]
                 PROVE  FALSE
      BY <1>2, <1>5 DEF Entries
  <2>2. now[i] = now[b + j]
      BY <1>3, <1>6, <2>1
  <2>3. i \in DOMAIN now /\ b + j \in DOMAIN now /\ i < b + j
      BY <1>2
  <2>4. now[i].id < now[b + j].id
      BY <1>1, <2>3 DEF Rising
  <2> QED BY <1>7, <2>2, <2>3, <2>4
<1>10. IsChain(new)
  <2>1. \A i \in 1 .. k : new[i].of = list[i]
      BY <1>3, <1>6
  <2>2. /\ list[1][1] = Outside /\ list[k][2] = Outside
        /\ \A i \in 1 .. k - 1 : list[i][2] = list[i + 1][1]
      BY DEF IsLine, k
  <2>3. 1 \in 1 .. k /\ k \in 1 .. k /\ new # <<>>
      BY <1>2, <1>5
  <2>4. \A i \in 1 .. k - 1 : i \in 1 .. k /\ i + 1 \in 1 .. k
      BY <1>2
  <2>5. \A i \in 1 .. k - 1 : new[i].of[2] = new[i + 1].of[1]
      BY <2>1, <2>2, <2>4
  <2>6. ASSUME NEW i \in 1 .. k, NEW j \in 1 .. k, new[i] = new[j]
        PROVE  i = j
    <3>1. ASSUME NEW x \in 1 .. k, NEW y \in 1 .. k, x < y
          PROVE  new[x] # new[y]
      <4>1. b + x \in DOMAIN now /\ b + y \in DOMAIN now /\ b + x < b + y
          BY <1>2, <1>4, <3>1
      <4>2. now[b + x].id < now[b + y].id
          BY <1>1, <4>1 DEF Rising
      <4> QED BY <1>6, <1>7, <4>1, <4>2
    <3>2. i < j \/ j < i \/ i = j
        BY <1>2
    <3> QED BY <2>6, <3>1, <3>2
  <2> QED BY <1>5, <2>1, <2>2, <2>3, <2>5, <2>6 DEF IsChain
<1>11. BalancedSet(Entries(new))
    BY <1>5, <1>10, ChainBalanced
<1>12. IsFiniteSet(Entries(before)) /\ IsFiniteSet(Entries(new))
    BY <1>1, <1>5, EntriesFinite
<1> QED BY <1>8, <1>9, <1>11, <1>12, BothBalanced

\* The first row at one of some places is there.
LEMMA FirstIsThere ==
    ASSUME NEW S, NEW rows \in Seq(S), NEW places, places \subseteq DOMAIN rows, places # {}
    PROVE  \E i \in places : (CHOOSE p \in places : \A j \in places : p <= j) = i
<1>1. places \subseteq Nat
    OBVIOUS
<1>2. \E p \in places : \A j \in places : p <= j
    BY <1>1, LeastNat
<1> QED BY <1>2

LEMMA FirstAtIs ==
    ASSUME NEW S, NEW rows \in Seq(S), NEW n, \E i \in DOMAIN rows : rows[i].of[1] = n
    PROVE  FirstAt(rows, n) \in Entries(rows) /\ FirstAt(rows, n).of[1] = n /\ FirstAt(rows, n) \in S
<1> DEFINE places == {i \in DOMAIN rows : rows[i].of[1] = n}
<1>1. places \subseteq DOMAIN rows /\ places # {}
    OBVIOUS
<1>2. FirstAt(rows, n) = rows[CHOOSE p \in places : \A j \in places : p <= j]
    BY DEF FirstAt
<1> HIDE DEF places
<1>3. PICK i \in places : FirstAt(rows, n) = rows[i]
    BY <1>1, <1>2, FirstIsThere
<1>4. i \in DOMAIN rows /\ rows[i].of[1] = n
    BY DEF places
<1> QED BY <1>3, <1>4 DEF Entries

\* The link that follows is looked up.
LEMMA WalkGrows ==
    ASSUME NEW rows, RowsOK(Pairs, rows), NEW nodes, IsWalk(rows, nodes),
           Last(nodes).of[2] # Outside, \E i \in DOMAIN rows : rows[i].of[1] = Last(nodes).of[2]
    PROVE  IsWalk(rows, Append(nodes, FirstAt(rows, Last(nodes).of[2])))
<1> DEFINE R == [id : Nat, of : Pairs]
           row == FirstAt(rows, Last(nodes).of[2])
           N == Len(nodes)
           more == Append(nodes, row)
<1>1. rows \in Seq(R) /\ nodes \in Seq(R) /\ nodes # <<>>
    BY DEF RowsOK, IsWalk
<1> HIDE DEF R
<1>2. row \in Entries(rows) /\ row.of[1] = Last(nodes).of[2] /\ row \in R
    BY <1>1, FirstAtIs
<1>3. N \in Nat \ {0} /\ Last(nodes) = nodes[N]
    BY <1>1 DEF Last
<1>4. row = FirstAt(rows, nodes[N].of[2]) /\ row.of[1] = nodes[N].of[2] /\ nodes[N].of[2] # Outside
    BY <1>2, <1>3
<1> HIDE DEF row
<1>5. more \in Seq(R) /\ Len(more) = N + 1 /\ more # <<>>
    BY <1>1, <1>2
<1>6. \A i \in 1 .. N : more[i] = nodes[i]
    BY <1>1
<1>7. more[N + 1] = row
    BY <1>1
<1> HIDE DEF more, N
<1>8. \A i \in 1 .. N + 1 : more[i] \in Entries(rows)
  <2>1. \A i \in 1 .. N + 1 : i \in 1 .. N \/ i = N + 1
      BY <1>3
  <2>2. \A i \in 1 .. N : nodes[i] \in Entries(rows)
      BY DEF IsWalk, N
  <2> QED BY <1>2, <1>6, <1>7, <2>1, <2>2
<1>9. ASSUME NEW i \in 1 .. (N + 1) - 1
      PROVE  /\ more[i].of[2] # Outside /\ more[i + 1].of[1] = more[i].of[2]
             /\ more[i + 1] = FirstAt(rows, more[i].of[2])
  <2>1. CASE i = N
    <3>1. more[i] = nodes[N] /\ more[i + 1] = row
        BY <1>3, <1>6, <1>7, <2>1
    <3> QED BY <1>4, <3>1
  <2>2. CASE i # N
    <3>1. i \in 1 .. N - 1 /\ i \in 1 .. N /\ i + 1 \in 1 .. N
        BY <1>3, <2>2
    <3>2. more[i] = nodes[i] /\ more[i + 1] = nodes[i + 1]
        BY <1>6, <3>1
    <3>3. /\ nodes[i].of[2] # Outside /\ nodes[i + 1].of[1] = nodes[i].of[2]
          /\ nodes[i + 1] = FirstAt(rows, nodes[i].of[2])
        BY <3>1 DEF IsWalk, N
    <3> QED BY <3>2, <3>3
  <2> QED BY <2>1, <2>2
<1>10. IsWalk(rows, more)
    BY <1>5, <1>8, <1>9 DEF IsWalk, R
<1> QED BY <1>10 DEF more, row

\* Who comes back to the outside has met no link twice.
LEMMA WalkIsChain ==
    ASSUME NEW rows, NEW nodes, IsWalk(rows, nodes),
           nodes[1].of[1] = Outside, Last(nodes).of[2] = Outside
    PROVE  IsChain(nodes)
<1> DEFINE R == [id : Nat, of : Pairs]
           N == Len(nodes)
<1>1. nodes \in Seq(R) /\ nodes # <<>>
    BY DEF IsWalk
<1> HIDE DEF R
<1>2. N \in Nat \ {0} /\ nodes[N].of[2] = Outside
    BY <1>1 DEF Last
<1> HIDE DEF N
<1>3. \A i \in 1 .. N - 1 : /\ nodes[i].of[2] # Outside /\ nodes[i].of[2] = nodes[i + 1].of[1]
                            /\ nodes[i + 1] = FirstAt(rows, nodes[i].of[2])
    BY DEF IsWalk, N
<1> DEFINE T == {d \in Nat : \E i \in 1 .. N : i + d = N /\ \E j \in 1 .. N : i < j /\ nodes[i] = nodes[j]}
<1>4. T = {}
  <2>1. SUFFICES ASSUME T # {}
                 PROVE  FALSE
      OBVIOUS
  <2>2. PICK d \in T : \A e \in T : d <= e
    <3>1. T \subseteq Nat
        OBVIOUS
    <3> HIDE DEF T
    <3> QED BY <2>1, <3>1, LeastNat
  <2>3. PICK i \in 1 .. N : i + d = N /\ \E j \in 1 .. N : i < j /\ nodes[i] = nodes[j]
      OBVIOUS
  <2>4. PICK j \in 1 .. N : i < j /\ nodes[i] = nodes[j]
      BY <2>3
  <2>5. i \in 1 .. N - 1 /\ i + 1 \in 1 .. N
      BY <1>2, <2>4
  <2>6. j # N
      BY <1>2, <1>3, <2>4, <2>5
  <2>7. j \in 1 .. N - 1 /\ j + 1 \in 1 .. N /\ i + 1 < j + 1
      BY <1>2, <2>4, <2>6
  <2>8. nodes[i + 1] = nodes[j + 1]
      BY <1>3, <2>4, <2>5, <2>7
  <2>9. d \in Nat /\ d - 1 \in Nat /\ (i + 1) + (d - 1) = N
      BY <1>2, <2>3, <2>5
  <2>10. d - 1 \in T
      BY <2>5, <2>7, <2>8, <2>9
  <2> HIDE DEF T
  <2> QED BY <2>2, <2>9, <2>10
<1>5. ASSUME NEW i \in 1 .. N, NEW j \in 1 .. N, i < j
      PROVE  nodes[i] # nodes[j]
  <2>1. N - i \in Nat /\ i + (N - i) = N
      BY <1>2
  <2> QED BY <1>4, <1>5, <2>1
<1> HIDE DEF T
<1>6. ASSUME NEW i \in 1 .. N, NEW j \in 1 .. N, nodes[i] = nodes[j]
      PROVE  i = j
  <2>1. i < j \/ j < i \/ i = j
      BY <1>2
  <2> QED BY <1>5, <1>6, <2>1
<1> QED BY <1>1, <1>2, <1>3, <1>6 DEF IsChain, N

\* Without the links of a line that leads back to the outside the others are left.
LEMMA WalkDeleted ==
    ASSUME NEW rows, RowsOK(Pairs, rows), BalancedSet(Entries(rows)),
           NEW nodes, IsWalk(rows, nodes), nodes[1].of[1] = Outside, Last(nodes).of[2] = Outside,
           NEW c, c.mask = {"id"}, c.list = [i \in DOMAIN nodes |-> nodes[i].id]
    PROVE  BalancedSet(Leaving(c, rows))
<1> DEFINE R == [id : Nat, of : Pairs]
           N == Len(nodes)
<1>1. rows \in Seq(R) /\ nodes \in Seq(R) /\ Rising(rows)
    BY DEF RowsOK, IsWalk
<1> HIDE DEF R
<1>2. N \in Nat /\ DOMAIN nodes = 1 .. N
    BY <1>1
<1>3. \A i \in 1 .. N : nodes[i] \in Entries(rows)
    BY DEF IsWalk
<1> HIDE DEF N
<1>4. Len(c.list) = N
    BY <1>2
<1>5. ASSUME NEW row
      PROVE  AskedBy("route", c, N, row) <=> \E i \in 1 .. N : row.id = nodes[i].id
  <2>1. \A i \in 1 .. N : c.list[i] = nodes[i].id
      BY <1>2
  <2>2. \A i \in 1 .. N : AskedOf("route", c.cond, c.mask, row, c.list[i]) <=> row.id = c.list[i]
      BY DEF AskedOf
  <2> QED BY <2>1, <2>2 DEF AskedBy
<1>6. ASSUME NEW row \in Entries(rows), NEW other \in Entries(rows), row.id = other.id
      PROVE  row = other
  <2>1. PICK i \in DOMAIN rows : row = rows[i]
      BY DEF Entries
  <2>2. PICK j \in DOMAIN rows : other = rows[j]
      BY DEF Entries
  <2>3. rows[i].id \in Nat /\ rows[j].id \in Nat
    <3>1. rows \in Seq([id : Nat, of : Pairs])
        BY DEF RowsOK
    <3> QED BY <3>1, EntryOK
  <2>4. ~(i < j) /\ ~(j < i)
    <3>1. ASSUME NEW x \in DOMAIN rows, NEW y \in DOMAIN rows, x < y
          PROVE  rows[x].id < rows[y].id
        BY <1>1, <3>1 DEF Rising
    <3> QED BY <1>6, <2>1, <2>2, <2>3, <3>1
  <2>5. i \in Nat /\ j \in Nat
      BY <1>1
  <2> QED BY <2>1, <2>2, <2>4, <2>5
<1> DEFINE E == Entries(rows)
           D == Entries(nodes)
<1>7. D = {nodes[i] : i \in 1 .. N}
    BY <1>2 DEF Entries
<1>8. Leaving(c, rows) = E \ D
  <2>1. Leaving(c, rows) = {row \in E : ~AskedBy("route", c, N, row)}
      BY <1>4 DEF Leaving
  <2>2. ASSUME NEW row \in E
        PROVE  AskedBy("route", c, N, row) <=> row \in D
      BY <1>3, <1>5, <1>6, <1>7
  <2> HIDE DEF E, D
  <2> QED BY <2>1, <2>2
<1>9. D \subseteq E
    BY <1>3, <1>7
<1>10. IsFiniteSet(E) /\ IsFiniteSet(D) /\ BalancedSet(D)
    BY <1>1, EntriesFinite, WalkIsChain, ChainBalanced
<1> HIDE DEF E, D
<1>11. IsFiniteSet(E \ D)
    BY <1>10, FS_Subset
<1>12. (E \ D) \cap D = {} /\ (E \ D) \cup D = E
    BY <1>9
<1>13. BalancedSet(E)
    BY DEF E
<1> QED BY <1>8, <1>10, <1>11, <1>12, <1>13, BothBalanced

-----------------------------------------------------------------------------
(* Every step of a command keeps the invariant. *)

\* The invariant where no line is looked up.
LEMMA NoWalkDb ==
    ASSUME OwnIInv, user.cmd \notin Walking
    PROVE  DbIInv(Pairs) /\ focus = "route" /\ stored[focus] = Links
<1>1. Held(user) = lock[Me]
    BY DEF Held
<1> QED BY <1>1 DEF OwnIInv, DbIInv, LockOK, Links

LEMMA NoWalkStep ==
    ASSUME DbIInv(Pairs)', focus' = "route", user'.cmd \notin Walking,
           DraftOK(sg_route'), UserOK(user', call', Links', excused', raced', sg_route')
    PROVE  OwnIInv'
<1>1. Held(user)' = lock'[Me]
    BY DEF Held
<1> QED BY <1>1 DEF OwnIInv, DbIInv, LockOK, Links

\* The functions that the command calls.
LEMMA RouteFunctionsAre ==
    /\ "tmsdb_Insert_route" \in DOMAIN Functions /\ Functions["tmsdb_Insert_route"].kind = "insert"
    /\ Functions["tmsdb_Insert_route"].table = "route"
    /\ "tmsdb_Delete_route" \in DOMAIN Functions /\ Functions["tmsdb_Delete_route"].kind = "delete"
    /\ Functions["tmsdb_Delete_route"].table = "route"
    /\ {"id"} \subseteq DOMAIN Functions["tmsdb_Delete_route"].where
    /\ "tmsdb_Select_Page_route" \in DOMAIN Functions
    /\ Functions["tmsdb_Select_Page_route"].kind = "select"
    /\ Functions["tmsdb_Select_Page_route"].table = "route"
BY RouteFunctions

\* No row is stored or deleted, and the links stay as they were.
LEMMA LinksStay ==
    ASSUME NEW P, TablesOK(P), UNCHANGED <<focus, stored>>
    PROVE  TablesOK(P)' /\ Links' = Links
<1>1. TablesOK(P)' /\ stored' = stored
    BY TablesStay
<1> QED BY <1>1 DEF Links

\* The line that is put together changes.
LEMMA DraftEdited ==
    ASSUME OwnIInv, Edits, DraftOK(sg_route')
    PROVE  OwnIInv'
<1>1. /\ user = Ready /\ user' = user /\ excused' = excused /\ focus' = focus /\ stored' = stored
      /\ lock' = lock /\ call' = call /\ (raced => raced')
    BY DEF Edits, Quiet
<1>2. Links' = Links /\ TablesOK(Pairs)' /\ LockOK'
    BY <1>1, LinksStay DEF OwnIInv, LockOK
<1>3. Held(user)' = Held(user)
    BY <1>1 DEF Held
<1>4. UserOK(user', call', Links', excused', raced', sg_route')
    BY <1>1, <1>2 DEF OwnIInv, UserOK, Ready, Walking
<1> QED BY <1>1, <1>2, <1>3, <1>4 DEF OwnIInv

\* What may stand in an entry.
Nodes == Modules \cup {Outside}

LEMMA DraftIs ==
    ASSUME DraftOK(sg_route)
    PROVE  /\ Len(sg_route) \in Nat \ {0} /\ sg_route \in Seq(Pairs)
           /\ Front(sg_route) \in Seq(Pairs) /\ Len(Front(sg_route)) = Len(sg_route) - 1
           /\ \A i \in 1 .. Len(sg_route) : sg_route[i][1] \in Nodes /\ sg_route[i][2] \in Nodes
           /\ Last(sg_route)[2] \in Nodes
           /\ Len(sg_route) # 1 => Reached \in Nodes
<1>1. sg_route \in Seq(Pairs) /\ Len(sg_route) \in Nat \ {0}
    BY DEF DraftOK
<1>2. \A i \in 1 .. Len(sg_route) : sg_route[i] \in Pairs
    BY <1>1
<1>3. \A i \in 1 .. Len(sg_route) : sg_route[i][1] \in Nodes /\ sg_route[i][2] \in Nodes
    BY <1>2 DEF Pairs, Nodes
<1>4. Len(sg_route) \in 1 .. Len(sg_route) /\ Last(sg_route) = sg_route[Len(sg_route)]
    BY <1>1 DEF Last
<1>5. Len(sg_route) # 1 => Len(sg_route) - 1 \in 1 .. Len(sg_route)
  <2>1. \A m \in Nat \ {0} : m # 1 => m - 1 \in 1 .. m
      OBVIOUS
  <2> QED BY <1>1, <2>1
<1>6. Front(sg_route) \in Seq(Pairs) /\ Len(Front(sg_route)) = Len(sg_route) - 1
  <2>1. PICK k \in Nat : k = Len(sg_route) - 1 /\ k <= Len(sg_route)
    <3>1. \A m \in Nat \ {0} : m - 1 \in Nat /\ m - 1 <= m
        OBVIOUS
    <3> QED BY <1>1, <3>1
  <2>2. Front(sg_route) = SubSeq(sg_route, 1, k)
      BY <2>1 DEF Front
  <2>3. SubSeq(sg_route, 1, k) \in Seq(Pairs) /\ Len(SubSeq(sg_route, 1, k)) = k
    <3>1. \A i \in 1 .. k : i \in DOMAIN sg_route
        BY <1>1, <2>1
    <3> QED BY <1>1, <2>1, <3>1
  <2> QED BY <2>1, <2>2, <2>3
<1> QED BY <1>1, <1>3, <1>4, <1>5, <1>6 DEF Reached

\* One or two entries, alone or behind others.
LEMMA DraftOf ==
    ASSUME NEW a \in Nodes, NEW b \in Nodes, NEW x \in Nodes, NEW y \in Nodes, NEW s \in Seq(Pairs)
    PROVE  /\ DraftOK(<< <<a, b>> >>) /\ DraftOK(<< <<a, b>>, <<x, y>> >>)
           /\ DraftOK(s \o << <<a, b>> >>) /\ DraftOK(s \o << <<a, b>>, <<x, y>> >>)
<1> DEFINE p == <<a, b>>
           q == <<x, y>>
<1>1. p \in Pairs /\ q \in Pairs
    BY DEF Pairs, Nodes
<1> HIDE DEF p, q
<1>2. <<p>> \in Seq(Pairs) /\ Len(<<p>>) = 1 /\ <<p, q>> \in Seq(Pairs) /\ Len(<<p, q>>) = 2
    BY <1>1
<1>3. s \o <<p>> \in Seq(Pairs) /\ s \o <<p, q>> \in Seq(Pairs)
    BY <1>2
<1>4. Len(s \o <<p>>) # 0 /\ Len(s \o <<p, q>>) # 0
    BY <1>2
<1>5. DraftOK(<<p>>) /\ DraftOK(<<p, q>>) /\ DraftOK(s \o <<p>>) /\ DraftOK(s \o <<p, q>>)
    BY <1>2, <1>3, <1>4 DEF DraftOK
<1> QED BY <1>5 DEF p, q

LEMMA NodesAre == Outside \in Nodes /\ Modules \subseteq Nodes
BY DEF Nodes

LEMMA EditsSound ==
    ASSUME OwnIInv, RouteNew \/ RouteAdd \/ cmd_insertRoute
    PROVE  OwnIInv'
<1>1. /\ DraftOK(sg_route) /\ Len(sg_route) \in Nat \ {0} /\ Front(sg_route) \in Seq(Pairs)
      /\ sg_route[1][1] \in Nodes /\ sg_route[1][2] \in Nodes /\ Last(sg_route)[2] \in Nodes
      /\ Len(sg_route) # 1 => Reached \in Nodes
  <2>1. DraftOK(sg_route)
      BY DEF OwnIInv
  <2>2. Len(sg_route) \in Nat \ {0} => 1 \in 1 .. Len(sg_route)
      OBVIOUS
  <2> QED BY <2>1, <2>2, DraftIs
<1>2. CASE RouteNew
  <2>1. sg_route' = << sg_route[1] >> /\ Edits
      BY <1>2 DEF RouteNew
  <2>2. sg_route[1] \in Pairs
    <3>1. sg_route \in Seq(Pairs) /\ 1 \in 1 .. Len(sg_route)
        BY <1>1 DEF DraftOK
    <3> QED BY <3>1
  <2>3. \A p \in Pairs : << p >> \in Seq(Pairs) /\ << p >> # <<>>
      OBVIOUS
  <2>4. DraftOK(sg_route')
      BY <2>1, <2>2, <2>3 DEF DraftOK
  <2> QED BY <2>1, <2>4, DraftEdited
<1>3. CASE RouteAdd
  <2>1. PICK n \in Modules :
          sg_route' = IF Len(sg_route) = 1 THEN << <<sg_route[1][1], n>>, <<n, Outside>> >>
                      ELSE Front(sg_route) \o << <<Reached, n>>, <<n, Outside>> >>
      BY <1>3 DEF RouteAdd
  <2>2. n \in Nodes /\ Outside \in Nodes
      BY NodesAre
  <2>3. DraftOK(sg_route')
    <3>1. CASE Len(sg_route) = 1
        BY <1>1, <2>1, <2>2, <3>1, DraftOf
    <3>2. CASE Len(sg_route) # 1
        BY <1>1, <2>1, <2>2, <3>2, DraftOf
    <3> QED BY <3>1, <3>2
  <2> QED BY <1>3, <2>3, DraftEdited DEF RouteAdd
<1>4. CASE cmd_insertRoute
  <2>0. Edits /\ (InsertHdr \/ InsertAdd \/ InsertTail)
      BY <1>4 DEF cmd_insertRoute
  <2>1. \A e \in Stale : \E x \in Nodes : e = <<x, x>>
      BY DEF Stale, Nodes
  <2>2. ASSUME InsertHdr
        PROVE  DraftOK(sg_route')
    <3>1. PICK n \in Modules, e \in Stale : sg_route' = << <<sg_route[1][1], n>>, e>>
        BY <2>2 DEF InsertHdr
    <3>2. PICK x \in Nodes : e = <<x, x>>
        BY <2>1, <3>1
    <3>3. n \in Nodes
        BY NodesAre
    <3> QED BY <1>1, <3>1, <3>2, <3>3, DraftOf
  <2>3. ASSUME InsertAdd, Len(sg_route) # 1
        PROVE  DraftOK(sg_route')
    <3>1. PICK n \in Modules, e \in Stale : sg_route' = Front(sg_route) \o << <<Reached, n>>, e>>
        BY <2>3 DEF InsertAdd
    <3>2. PICK x \in Nodes : e = <<x, x>>
        BY <2>1, <3>1
    <3>3. n \in Nodes
        BY NodesAre
    <3> QED BY <1>1, <2>3, <3>1, <3>2, <3>3, DraftOf
  <2>4. ASSUME InsertTail
        PROVE  DraftOK(sg_route')
    <3>1. PICK n \in Modules \cup {Outside} : sg_route' = Front(sg_route) \o << <<n, Last(sg_route)[2]>> >>
        BY <2>4 DEF InsertTail
    <3>2. n \in Nodes
        BY DEF Nodes
    <3> QED BY <1>1, <3>1, <3>2, DraftOf
  <2>5. DraftOK(sg_route')
      BY <2>0, <2>2, <2>3, <2>4 DEF InsertAdd
  <2> QED BY <2>0, <2>5, DraftEdited
<1> QED BY <1>2, <1>3, <1>4

-----------------------------------------------------------------------------
(* A command calls a function, and takes what it returns. *)

\* No function runs.
LEMMA IdleCallOK == ASSUME NEW P, NEW now PROVE CallOK(P, "route", Idle, now, "none")
<1>1. IsCall(Idle) /\ Idle.step = "idle"
    BY DEF Idle, IsCall, Steps
<1> QED BY <1>1 DEF CallOK

\* A function that selects begins.
LEMMA SelectBegins ==
    ASSUME NEW P, NEW now, NEW fn \in DOMAIN Functions, Functions[fn].kind = "select",
           Functions[fn].table = "route", NEW mask, NEW cond,
           \/ \E limit, answer : StartSelect(fn, mask, cond, limit, answer)
           \/ \E id, from, limit : StartPage(fn, mask, cond, id, from, limit)
    PROVE  CallOK(P, "route", call', now, "none") /\ call'.step = "select" /\ call'.fn = fn
<1>1. IsCall(call') /\ call'.step = "select" /\ call'.fn = fn
    BY SelectStarts, PageStarts
<1> QED BY <1>1 DEF CallOK

\* What the invariant says of the command and of the table.
LEMMA RouteParts ==
    ASSUME OwnIInv
    PROVE  /\ focus = "route" /\ stored[focus] = Links /\ RowsOK(Pairs, Links) /\ TablesOK(Pairs)
           /\ LockOK /\ DraftOK(sg_route) /\ UserOK(user, call, Links, excused, raced, sg_route)
           /\ user = [cmd |-> user.cmd, nodes |-> user.nodes]
           /\ ~excused /\ ~raced => BalancedSet(Entries(Links))
           /\ user.cmd \notin Walking /\ call.step \in {"idle", "returned"} => lock[Me] = "none"
BY DEF OwnIInv, TablesOK, Links, UserOK, Held, CallOK

\* A call begins or ends while no line is looked up.
LEMMA CallChanges ==
    ASSUME OwnIInv, user.cmd \notin Walking, call.step \in {"idle", "returned"},
           UNCHANGED <<focus, stored, lock>>, CallOK(Pairs, "route", call', Links, "none"),
           user'.cmd \notin Walking, DraftOK(sg_route'),
           UserOK(user', call', Links, excused', raced', sg_route')
    PROVE  OwnIInv'
<1>1. /\ DbIInv(Pairs) /\ focus = "route" /\ stored[focus] = Links /\ lock[Me] = "none"
    BY NoWalkDb, RouteParts
<1>2. DbIInv(Pairs)'
    BY <1>1, CallBegins
<1>3. Links' = Links
    BY DEF Links
<1> QED BY <1>1, <1>2, <1>3, NoWalkStep

LEMMA ReadyIs == Ready.cmd = "none" /\ Ready = [cmd |-> Ready.cmd, nodes |-> Ready.nodes]
BY DEF Ready

\* Another command.
LEMMA CommandIs ==
    ASSUME NEW cmd
    PROVE  LET u == [Ready EXCEPT !.cmd = cmd] IN u.cmd = cmd /\ u = [cmd |-> u.cmd, nodes |-> u.nodes]
BY DEF Ready

LEMMA GoSound == ASSUME OwnIInv, RouteGo PROVE OwnIInv'
<1>1. /\ user = Ready /\ call.step = "idle" /\ tmsdb_Check_route_oneline(sg_route) = 0
      /\ StartSelect("tmsdb_Select_Page_route", ToSet(PortB), sg_route[1], 1, 0)
      /\ UNCHANGED <<sg_route, excused, raced, focus, stored, lock>>
    BY DEF RouteGo, Asking, Apart
<1>2. PICK cmd \in {"go", "save"} : user' = [Ready EXCEPT !.cmd = cmd]
    BY DEF RouteGo
<1>3. user'.cmd = cmd /\ user' = [cmd |-> user'.cmd, nodes |-> user'.nodes]
    BY <1>2, CommandIs
<1>4. /\ CallOK(Pairs, "route", call', Links, "none") /\ call'.step = "select"
      /\ Functions[call'.fn].kind = "select"
    BY <1>1, SelectBegins, RouteFunctionsAre
<1>5. UserOK(user', call', Links, excused', raced', sg_route')
    BY <1>1, <1>3, <1>4, RouteParts DEF UserOK, Walking
<1>6. DraftOK(sg_route')
    BY <1>1, RouteParts
<1> QED BY <1>1, <1>3, <1>4, <1>5, <1>6, CallChanges, ReadyIs DEF Walking

\* A list that has been checked is a line.
LEMMA CheckedIsLine ==
    ASSUME NEW list \in Seq(Pairs), tmsdb_Check_route_oneline(list) = 0
    PROVE  IsLine(list) /\ list # <<>>
<1> DEFINE A == Len(list) < 2
           B == list[1][1] # Outside \/ Last(list)[2] # Outside
           C == \E i \in 1 .. Len(list) - 1 : list[i][2] # list[i + 1][1]
           D == \E i, j \in DOMAIN list : i < j /\ list[i][2] = list[j][2]
<1>1. (CASE A -> -1 [] B -> -2 [] C -> -3 [] D -> -4 [] OTHER -> 0) = 0
    BY DEF tmsdb_Check_route_oneline
<1> HIDE DEF A, B, C, D
<1>2. ~A /\ ~B /\ ~C
    BY <1>1
<1>3. list # <<>>
    BY <1>2 DEF A
<1>4. Last(list) = list[Len(list)]
    BY DEF Last
<1> QED BY <1>2, <1>3, <1>4 DEF B, C, IsLine

LEMMA CheckedSound == ASSUME OwnIInv, RouteChecked PROVE OwnIInv'
<1>1. /\ user.cmd \in {"go", "save"} /\ call.step = "returned"
      /\ UNCHANGED <<sg_route, excused, raced, focus, stored, lock>>
      /\ IF user.cmd = "save" /\ call.found = <<>>
         THEN StartInsert("tmsdb_Insert_route", sg_route) /\ user' = [user EXCEPT !.cmd = "write"]
         ELSE call' = Idle /\ user' = Ready
    BY DEF RouteChecked, Apart
<1>2. /\ sg_route \in Seq(Pairs) /\ sg_route # <<>>
      /\ user.cmd = "save" => (~raced => tmsdb_Check_route_oneline(sg_route) = 0)
      /\ user = [cmd |-> user.cmd, nodes |-> user.nodes] /\ user.cmd \notin Walking
      /\ RowsOK(Pairs, Links) /\ (~excused /\ ~raced => BalancedSet(Entries(Links)))
      /\ DraftOK(sg_route')
    BY <1>1, RouteParts DEF UserOK, DraftOK, Walking
<1>3. CASE /\ user.cmd = "save" /\ StartInsert("tmsdb_Insert_route", sg_route)
           /\ user' = [user EXCEPT !.cmd = "write"]
  <2>1. ~raced => IsLine(sg_route)
      BY <1>2, <1>3, CheckedIsLine
  <2>2. /\ CallOK(Pairs, "route", call', Links, "none") /\ call'.step = "insert"
        /\ call'.list = sg_route
      BY <1>2, <1>3, <2>1, InsertBegins, RouteFunctionsAre
  <2>3. user'.cmd = "write" /\ user' = [cmd |-> user'.cmd, nodes |-> user'.nodes]
      BY <1>2, <1>3
  <2>4. UserOK(user', call', Links, excused', raced', sg_route')
      BY <1>1, <1>2, <2>1, <2>2, <2>3 DEF UserOK, Walking
  <2> QED BY <1>1, <1>2, <2>2, <2>3, <2>4, CallChanges DEF Walking
<1>4. CASE call' = Idle /\ user' = Ready
  <2>1. CallOK(Pairs, "route", call', Links, "none") /\ call'.step = "idle"
      BY <1>4, IdleCallOK, Zenon DEF Idle
  <2>2. UserOK(user', call', Links, excused', raced', sg_route')
      BY <1>1, <1>2, <1>4, <2>1, ReadyIs DEF UserOK, Walking
  <2> QED BY <1>1, <1>2, <1>4, <2>1, <2>2, CallChanges, ReadyIs DEF Walking
<1> QED BY <1>1, <1>3, <1>4

\* Without rows every number is the same.
LEMMA NoneBalanced == ASSUME NEW rows, rows = <<>> PROVE BalancedSet(Entries(rows))
<1>1. Entries(rows) = {}
    BY DEF Entries
<1>2. \A n : {r \in {} : r.of[2] = n} = {r \in {} : r.of[1] = n}
    OBVIOUS
<1> QED BY <1>1, <1>2 DEF BalancedSet

LEMMA WrittenSound == ASSUME OwnIInv, RouteWritten PROVE OwnIInv'
<1>1. /\ user.cmd = "write" /\ call.step = "returned" /\ call' = Idle /\ user' = Ready
      /\ excused' = (excused /\ Links # <<>>) /\ UNCHANGED <<sg_route, raced, focus, stored, lock>>
    BY DEF RouteWritten, Apart
<1>2. CallOK(Pairs, "route", call', Links, "none") /\ call'.step = "idle"
    BY <1>1, IdleCallOK, Zenon DEF Idle
<1>3. ~excused' /\ ~raced' => BalancedSet(Entries(Links))
    BY <1>1, RouteParts, NoneBalanced
<1>4. UserOK(user', call', Links, excused', raced', sg_route') /\ DraftOK(sg_route')
    BY <1>1, <1>2, <1>3, ReadyIs, RouteParts DEF UserOK, Walking
<1> QED BY <1>1, <1>2, <1>4, CallChanges, ReadyIs DEF Walking

\* Without a condition no row is left.
LEMMA AllLeave ==
    ASSUME NEW c, c.mask = {}, Len(c.list) \in Nat \ {0}, NEW rows
    PROVE  BalancedSet(Leaving(c, rows))
<1>1. \A row : AskedOf("route", c.cond, c.mask, row, c.list[1])
    BY DEF AskedOf
<1>2. \A row : AskedBy("route", c, Len(c.list), row)
  <2>1. 1 \in 1 .. Len(c.list)
      OBVIOUS
  <2> QED BY <1>1, <2>1 DEF AskedBy
<1>3. Leaving(c, rows) = {}
    BY <1>2 DEF Leaving
<1>4. \A n : {r \in {} : r.of[2] = n} = {r \in {} : r.of[1] = n}
    OBVIOUS
<1> QED BY <1>3, <1>4 DEF BalancedSet

LEMMA DelAllSound == ASSUME OwnIInv, RouteDelAll PROVE OwnIInv'
<1> DEFINE one == <<1>>
<1>1. /\ user = Ready /\ call.step = "idle" /\ StartDelete("tmsdb_Delete_route", {}, one)
      /\ user' = [Ready EXCEPT !.cmd = "write"] /\ UNCHANGED <<sg_route, excused, raced, focus, stored, lock>>
    BY DEF RouteDelAll, Apart
<1>2. user'.cmd = "write" /\ user' = [cmd |-> user'.cmd, nodes |-> user'.nodes]
    BY <1>1, CommandIs
<1>3. Len(one) = 1 /\ Len(one) \in Nat \ {0} /\ DOMAIN one = 1 .. Len(one)
    OBVIOUS
<1> DEFINE none == {}
<1>4. none \subseteq DOMAIN Functions["tmsdb_Delete_route"].where /\ none \in Listed
    BY DEF Listed
<1>5. /\ CallOK(Pairs, "route", call', Links, "none") /\ call'.step = "delete"
      /\ call'.mask = none /\ call'.list = one
  <2>1. PICK fn \in DOMAIN Functions : fn = "tmsdb_Delete_route"
      BY RouteFunctionsAre
  <2> HIDE DEF one, none
  <2>2. /\ StartDelete(fn, none, one) /\ RowsOK(Pairs, Links) /\ Functions[fn].kind = "delete"
        /\ Functions[fn].table = "route"
      BY <1>1, <2>1, RouteParts, RouteFunctionsAre DEF one, none
  <2>3. none \subseteq DOMAIN Functions[fn].where
      BY <1>4, <2>1
  <2> QED BY <1>3, <2>2, <2>3, DeleteBegins
<1>6. BalancedSet(Leaving(call', Links))
    BY <1>3, <1>5, AllLeave
<1> HIDE DEF one, none
<1>7. UserOK(user', call', Links, excused', raced', sg_route') /\ DraftOK(sg_route')
    BY <1>1, <1>2, <1>4, <1>5, <1>6, RouteParts DEF UserOK, Walking
<1> QED BY <1>1, <1>2, <1>5, <1>7, CallChanges, ReadyIs DEF Walking

\* Lists change no line.
LEMMA ListsSound == ASSUME OwnIInv, ListPage \/ ListShown PROVE OwnIInv'
<1>1. CASE ListPage
  <2>1. /\ user = Ready /\ call.step = "idle" /\ UNCHANGED <<sg_route, excused, raced, focus, stored, lock>>
        /\ \E cmd, id, from : cmd \in {"page", "next"} /\ PageOf(cmd, id, from)
      BY <1>1 DEF ListPage, Asking, Apart
  <2>2. PICK cmd, id, from : cmd \in {"page", "next"} /\ PageOf(cmd, id, from)
      BY <2>1
  <2>3. user'.cmd = cmd /\ user' = [cmd |-> user'.cmd, nodes |-> user'.nodes]
      BY <2>2, CommandIs DEF PageOf
  <2>4. /\ CallOK(Pairs, "route", call', Links, "none") /\ call'.step = "select"
        /\ Functions[call'.fn].kind = "select"
    <3>1. cmd_routePage.fn = "tmsdb_Select_Page_route" /\ focus = "route"
        BY RouteParts DEF cmd_routePage
    <3>2. \E mask : StartPage("tmsdb_Select_Page_route", mask, <<Outside, Outside>>, id, from, PageLength)
        BY <2>2, <3>1 DEF PageOf
    <3> QED BY <3>2, SelectBegins, RouteFunctionsAre
  <2>5. UserOK(user', call', Links, excused', raced', sg_route') /\ DraftOK(sg_route')
      BY <2>1, <2>2, <2>3, <2>4, RouteParts DEF UserOK, Walking
  <2> QED BY <2>1, <2>2, <2>3, <2>4, <2>5, CallChanges, ReadyIs DEF Walking
<1>2. CASE ListShown
  <2>1. /\ user.cmd \in {"page", "next"} /\ call.step = "returned" /\ call' = Idle /\ user' = Ready
        /\ UNCHANGED <<sg_route, excused, raced, focus, stored, lock>>
      BY <1>2 DEF ListShown, Apart
  <2>2. CallOK(Pairs, "route", call', Links, "none") /\ call'.step = "idle"
      BY <2>1, IdleCallOK, Zenon DEF Idle
  <2>3. UserOK(user', call', Links, excused', raced', sg_route') /\ DraftOK(sg_route')
      BY <2>1, <2>2, ReadyIs, RouteParts DEF UserOK, Walking
  <2> QED BY <2>1, <2>2, <2>3, CallChanges, ReadyIs DEF Walking
<1> QED BY <1>1, <1>2

-----------------------------------------------------------------------------
(* A line is looked up. *)

\* A row that was chosen among some is one of them.
LEMMA FirstIs ==
    ASSUME RowsOK(Pairs, Links), NEW places, places \subseteq DOMAIN Links, places # {}
    PROVE  First(places) \in Entries(Links) /\ First(places) \in [id : Nat, of : Pairs]
<1> DEFINE R == [id : Nat, of : Pairs]
<1>1. Links \in Seq(R)
    BY DEF RowsOK
<1> HIDE DEF R
<1>2. PICK i \in places : First(places) = Links[i]
    BY <1>1, FirstIsThere DEF First
<1>3. i \in DOMAIN Links
    BY <1>2
<1>4. First(places) \in Entries(Links) /\ First(places) \in R
    BY <1>1, <1>2, <1>3 DEF Entries
<1> QED BY <1>4 DEF R

LEMMA WalkBegins ==
    ASSUME RowsOK(Pairs, Links), NEW row \in Entries(Links), row \in [id : Nat, of : Pairs]
    PROVE  IsWalk(Links, <<row>>)
<1> DEFINE R == [id : Nat, of : Pairs]
           nodes == <<row>>
<1>1. row \in R
    OBVIOUS
<1> HIDE DEF R
<1>2. nodes \in Seq(R) /\ nodes # <<>> /\ Len(nodes) = 1 /\ nodes[1] = row
    BY <1>1
<1> HIDE DEF nodes
<1>3. \A i \in 1 .. Len(nodes) : nodes[i] \in Entries(Links)
    BY <1>2
<1>4. \A i \in 1 .. Len(nodes) - 1 : FALSE
    BY <1>2
<1>5. IsWalk(Links, nodes)
    BY <1>2, <1>3, <1>4 DEF IsWalk, R
<1> QED BY <1>5 DEF nodes

\* While a line is looked up the call rests, whatever the lock.
LEMMA WalkStep ==
    ASSUME OwnIInv, call.step = "idle", UNCHANGED <<focus, stored, call, sg_route, excused, raced>>, LockOK',
           lock'[Me] = "shared",
           user'.cmd \in Walking, user' = [cmd |-> user'.cmd, nodes |-> user'.nodes],
           IsWalk(Links, user'.nodes)
    PROVE  OwnIInv'
<1>1. /\ focus = "route" /\ stored[focus] = Links /\ DraftOK(sg_route)
      /\ (~excused /\ ~raced => BalancedSet(Entries(Links)))
    BY RouteParts
<1>2. TablesOK(Pairs)' /\ Links' = Links
    BY RouteParts, LinksStay
<1>3. CallOK(Pairs, "route", call', Links, "none")
    BY <1>1 DEF OwnIInv, CallOK
<1>4. Held(user)' = "none"
    BY DEF Held
<1>5. UserOK(user', call', Links, excused', raced', sg_route')
    BY <1>1 DEF UserOK, Walking
<1> QED BY <1>1, <1>2, <1>3, <1>4, <1>5 DEF OwnIInv

LEMMA LookUpSound == ASSUME OwnIInv, RouteLookUp PROVE OwnIInv'
<1>1. /\ user = Ready /\ call.step = "idle"
      /\ UNCHANGED <<sg_route, excused, raced, focus, stored, call>>
      /\ \E cmd, front, n : cmd \in Walking /\ LookUp(cmd, front, n)
    BY DEF RouteLookUp, Asking, DispOneRoute, cmd_routeDel, Walking, Apart
<1>2. PICK cmd, front, n : cmd \in Walking /\ LookUp(cmd, front, n)
    BY <1>1
<1> DEFINE met == {i \in DOMAIN Links : IF front # Outside THEN Links[i].of[1] = front
                                        ELSE n = Outside \/ Links[i].of[2] = n}
<1>3. CASE CanRead(lock, Me) /\ met # {}
  <2>1. user' = [cmd |-> cmd, nodes |-> <<First(met)>>] /\ lock' = With(lock, Me, "shared")
      BY <1>2, <1>3 DEF LookUp
  <2>2. met \subseteq DOMAIN Links /\ met # {}
      BY <1>3
  <2> HIDE DEF met
  <2>3. IsWalk(Links, <<First(met)>>)
      BY <2>2, FirstIs, WalkBegins, RouteParts
  <2>4. LockOK' /\ lock'[Me] = "shared"
      BY <2>1, LockChanges, RouteParts
  <2>5. user'.cmd = cmd /\ user'.nodes = <<First(met)>> /\ user' = [cmd |-> user'.cmd, nodes |-> user'.nodes]
      BY <2>1
  <2> QED BY <1>1, <1>2, <2>3, <2>4, <2>5, WalkStep
<1>4. CASE ~(CanRead(lock, Me) /\ met # {})
  <2>1. UNCHANGED <<user, lock>>
      BY <1>2, <1>4 DEF LookUp
  <2>2. user'.cmd \notin Walking /\ user.cmd \notin Walking
      BY <1>1, <2>1, ReadyIs DEF Walking
  <2>3. lock[Me] = "none" /\ DraftOK(sg_route') /\ focus = "route"
      BY <1>1, <2>2, RouteParts
  <2>4. CallOK(Pairs, "route", call', Links, "none") /\ UserOK(user', call', Links, excused', raced', sg_route')
      BY <1>1, <2>1, <2>2, <2>3, RouteParts DEF OwnIInv, Held
  <2> QED BY <1>1, <2>1, <2>2, <2>3, <2>4, CallChanges
<1> QED BY <1>3, <1>4

\* What the invariant says of a line that is looked up.
LEMMA WalkParts ==
    ASSUME OwnIInv, user.cmd \in {"del", "detail"}
    PROVE  /\ call.step = "idle" /\ IsWalk(Links, user.nodes) /\ user.cmd \in Walking
           /\ lock[Me] = "shared"
           /\ user = [cmd |-> user.cmd, nodes |-> user.nodes]
           /\ user.nodes \in Seq([id : Nat, of : Pairs]) /\ user.nodes # <<>>
BY DEF OwnIInv, UserOK, Walking, IsWalk

LEMMA FollowSound == ASSUME OwnIInv, RouteFollow PROVE OwnIInv'
<1> DEFINE n == Last(user.nodes).of[2]
           row == FirstAt(Links, n)
<1>1. /\ user.cmd \in {"del", "detail"} /\ ~Ended /\ Following # {}
      /\ user' = [user EXCEPT !.nodes = Append(@, First(Following))]
      /\ UNCHANGED <<sg_route, excused, raced, focus, stored, lock, call>>
    BY DEF RouteFollow, Apart
<1>2. n # Outside
    BY <1>1 DEF Ended
<1>3. First(Following) = row /\ \E i \in DOMAIN Links : Links[i].of[1] = n
    BY <1>1 DEF First, Following, FirstAt
<1>4. IsWalk(Links, Append(user.nodes, row))
    BY <1>1, <1>2, <1>3, WalkParts, RouteParts, WalkGrows
<1> DEFINE more == Append(user.nodes, row)
<1>5. user' = [user EXCEPT !.nodes = more]
    BY <1>1, <1>3
<1> HIDE DEF more, row, n
<1>6. user'.cmd = user.cmd /\ user'.nodes = more /\ user' = [cmd |-> user'.cmd, nodes |-> user'.nodes]
    BY <1>1, <1>5, WalkParts
<1>7. LockOK' /\ lock'[Me] = "shared"
    BY <1>1, RouteParts, WalkParts DEF LockOK
<1>8. IsWalk(Links, user'.nodes)
    BY <1>4, <1>6 DEF more, row, n
<1> QED BY <1>1, <1>6, <1>7, <1>8, WalkParts, WalkStep

\* The first statement is closed, and what was found is taken away or shown.
LEMMA FoundSound == ASSUME OwnIInv, RouteFound PROVE OwnIInv'
<1> DEFINE nodes == user.nodes
           ids == [i \in DOMAIN nodes |-> nodes[i].id]
           byId == {"id"}
<1>1. /\ user.cmd \in {"del", "detail"} /\ lock' = With(lock, Me, "none")
      /\ excused' = (excused \/ (user.cmd = "del" /\ {Head(nodes).of[1], Last(nodes).of[2]} # {Outside}))
      /\ IF user.cmd = "del"
         THEN /\ StartDelete("tmsdb_Delete_route", {"id"}, ids)
              /\ user' = [Ready EXCEPT !.cmd = "write"]
         ELSE user' = Ready /\ UNCHANGED call
      /\ UNCHANGED <<sg_route, raced, focus, stored>>
    BY DEF RouteFound, Apart
<1>2. /\ call.step = "idle" /\ IsWalk(Links, nodes)
      /\ nodes \in Seq([id : Nat, of : Pairs]) /\ nodes # <<>>
    BY <1>1, WalkParts
<1>3. /\ focus = "route" /\ RowsOK(Pairs, Links) /\ DraftOK(sg_route')
      /\ (~excused /\ ~raced => BalancedSet(Entries(Links)))
      /\ TablesOK(Pairs)' /\ Links' = Links
  <2>1. TablesOK(Pairs) /\ UNCHANGED <<focus, stored>>
      BY <1>1, RouteParts
  <2> QED BY <1>1, <1>2, <2>1, RouteParts, LinksStay
<1>4. LockOK' /\ lock'[Me] = "none"
    BY <1>1, LockChanges, RouteParts
<1>5. ASSUME CallOK(Pairs, "route", call', Links, "none"), user'.cmd \notin Walking,
             UserOK(user', call', Links, excused', raced', sg_route')
      PROVE  OwnIInv'
  <2>1. Held(user)' = "none"
      BY <1>4, <1>5 DEF Held
  <2> QED BY <1>1, <1>3, <1>4, <1>5, <2>1 DEF OwnIInv
<1>6. CASE user.cmd = "del"
  <2>1. StartDelete("tmsdb_Delete_route", byId, ids) /\ user' = [Ready EXCEPT !.cmd = "write"]
      BY <1>1, <1>6
  <2>2. user'.cmd = "write" /\ user' = [cmd |-> user'.cmd, nodes |-> user'.nodes]
      BY <2>1, CommandIs
  <2>3. DOMAIN ids = 1 .. Len(ids) /\ Len(ids) \in Nat \ {0}
    <3> DEFINE R == [id : Nat, of : Pairs]
    <3>1. nodes \in Seq(R) /\ nodes # <<>>
        BY <1>2
    <3> HIDE DEF R
    <3>2. DOMAIN nodes = 1 .. Len(nodes) /\ Len(nodes) \in Nat \ {0}
        BY <3>1
    <3>3. DOMAIN ids = 1 .. Len(nodes) /\ Len(ids) = Len(nodes)
        BY <3>2
    <3> QED BY <3>2, <3>3
  <2>4. PICK fn \in DOMAIN Functions : fn = "tmsdb_Delete_route"
      BY RouteFunctionsAre
  <2>5. byId \in Listed
      BY DEF Listed
  <2>6. byId \subseteq DOMAIN Functions[fn].where
      BY <2>4, RouteFunctionsAre
  <2>7. ASSUME ~excused'
        PROVE  nodes[1].of[1] = Outside /\ Last(nodes).of[2] = Outside
    <3>1. {Head(nodes).of[1], Last(nodes).of[2]} = {Outside}
        BY <1>1, <1>6, <2>7
    <3>2. Head(nodes) = nodes[1]
        BY <1>2
    <3> QED BY <3>1, <3>2
  <2>8. /\ CallOK(Pairs, "route", call', Links, "none") /\ call'.step = "delete"
        /\ call'.mask = byId /\ call'.list = ids
    <3> HIDE DEF ids, byId
    <3>1. /\ StartDelete(fn, byId, ids) /\ Functions[fn].kind = "delete" /\ Functions[fn].table = "route"
        BY <2>1, <2>4, RouteFunctionsAre
    <3> QED BY <1>3, <2>3, <2>6, <3>1, DeleteBegins
  <2>9. ~excused' /\ ~raced' => BalancedSet(Leaving(call', Links))
      BY <1>1, <1>2, <1>3, <2>7, <2>8, WalkDeleted
  <2> HIDE DEF byId, ids
  <2>10. UserOK(user', call', Links, excused', raced', sg_route')
      BY <1>1, <1>3, <2>2, <2>5, <2>8, <2>9 DEF UserOK, Walking
  <2> QED BY <1>5, <2>2, <2>8, <2>10 DEF Walking
<1>7. CASE user.cmd # "del"
  <2>1. user' = Ready /\ call' = call
      BY <1>1, <1>7
  <2>2. CallOK(Pairs, "route", call', Links, "none")
      BY <1>1, <1>2, <1>3, <2>1, WalkParts DEF OwnIInv, Held
  <2>3. UserOK(user', call', Links, excused', raced', sg_route')
      BY <1>1, <1>2, <1>3, <2>1, ReadyIs DEF UserOK, Walking
  <2> QED BY <1>5, <2>1, <2>2, <2>3, ReadyIs DEF Walking
<1> QED BY <1>6, <1>7

-----------------------------------------------------------------------------
(* The functions' steps, and the other thread's. *)

\* The list and the condition of a call do not change while it runs.
LEMMA CallKeeps ==
    ASSUME NEW c, NEW d, NEW step, NEW before, NEW rows, NEW next, NEW refused, NEW ret,
           Becomes(c, d, step, before, rows, next, refused, ret)
    PROVE  /\ d.step = step /\ d.list = c.list /\ d.mask = c.mask /\ d.fn = c.fn
           /\ \A now : Leaving(d, now) = Leaving(c, now)
<1>1. d.step = step /\ d.list = c.list /\ d.mask = c.mask /\ d.cond = c.cond /\ d.fn = c.fn
    BY DEF Becomes
<1>2. \A row : AskedBy("route", d, Len(d.list), row) <=> AskedBy("route", c, Len(c.list), row)
    BY <1>1, StillAsked
<1> QED BY <1>1, <1>2 DEF Leaving

\* Lines are stored in one piece.
LEMMA InsertLeaves ==
    ASSUME DbIInv(Pairs), focus = "route", stored[focus] = Links, Insert
    PROVE  /\ call'.step \in {"insert", "close", "returned"} /\ call'.list = call.list
           /\ \/ Links' = Links
              \/ Grown(Links, Links', call.list, Len(call.list)) /\ call.list \in Seq(Pairs)
<1>1. /\ IsCall(call) /\ call.step = "insert" /\ call.fn \in DOMAIN Functions
      /\ F = Functions[call.fn] /\ F.table = "route" /\ TablesOK(Pairs)
      /\ Inserting(Pairs, F, call, Links, lock[Me])
    BY DEF DbIInv, CallOK, Insert, F
<1>2. F.kind = "insert" /\ F.failed = "rollback"
    BY <1>1, SchemaAssumption DEF Inserting, AllOrNothing
<1>3. /\ Len(call.list) \in Nat \ {0} /\ call.list \in Seq(Pairs) /\ call.next \in 1 .. Len(call.list) + 1
      /\ Grown(Links, RowsOf(call, Links), call.list, call.next - 1)
  <2>1. /\ call.list \in Seq(Pairs) /\ call.list # <<>> /\ call.next \in 1 .. Len(call.list) + 1
        /\ Grown(Links, RowsOf(call, Links), call.list, call.next - 1)
      BY <1>1, <1>2 DEF Inserting
  <2> QED BY <2>1
<1>4. UNCHANGED stored => Links' = Links
    BY DEF Links
<1>5. CASE call.next <= Len(call.list) /\ InTransaction(Appended(Rows)) /\ UNCHANGED stored
  <2> DEFINE more == Appended(Rows)
  <2> HIDE DEF more
  <2>1. InTransaction(more)
      BY <1>5 DEF more
  <2>2. call'.step \in {"insert", "returned"} /\ call'.list = call.list
    <3>1. CASE CanReserve(lock, Me)
        BY <1>1, <2>1, <3>1 DEF InTransaction, Begun, IsCall
    <3>2. CASE ~CanReserve(lock, Me)
        BY <1>1, <2>1, <3>2 DEF InTransaction, Begun, IsCall
    <3> QED BY <3>1, <3>2
  <2> QED BY <1>4, <1>5, <2>2
<1>6. CASE call.next > Len(call.list) /\ Commit
  <2>1. call.next # 1 /\ call.next - 1 = Len(call.list)
      BY <1>3, <1>6
  <2>2. Grown(Links, call.rows, call.list, Len(call.list))
      BY <1>3, <2>1 DEF RowsOf
  <2>3. call'.step \in {"close", "returned"} /\ call'.list = call.list
      BY <1>1, <1>6 DEF Commit, Return, IsCall
  <2>4. Links' = Links \/ Links' = call.rows
    <3>1. CASE CanCommit(lock, Me)
      <4>1. stored' = [stored EXCEPT !["route"] = call.rows] /\ "route" \in DOMAIN stored
          BY <1>1, <1>6, <3>1 DEF Commit, TablesOK
      <4> QED BY <4>1 DEF Links
    <3>2. CASE ~CanCommit(lock, Me)
        BY <1>4, <1>6, <3>2 DEF Commit
    <3> QED BY <3>1, <3>2
  <2> QED BY <1>3, <2>2, <2>3, <2>4
<1>7. Transaction
    BY <1>2 DEF Transaction
<1> QED BY <1>5, <1>6, <1>7 DEF Insert

\* Lines are taken away in one piece.
LEMMA DeleteLeaves ==
    ASSUME DbIInv(Pairs), focus = "route", stored[focus] = Links, Delete, call.mask # NULL
    PROVE  /\ call'.step \in {"delete", "close", "returned"} /\ call'.mask = call.mask
           /\ \A now : Leaving(call', now) = Leaving(call, now)
           /\ \/ Links' = Links
              \/ call'.step = "returned" /\ Entries(Links') = Leaving(call, Links)
<1>1. /\ IsCall(call) /\ call.step = "delete" /\ call.fn \in DOMAIN Functions
      /\ F = Functions[call.fn] /\ F.table = "route" /\ TablesOK(Pairs)
      /\ Deleting(Pairs, F, call, Links, lock[Me])
    BY DEF DbIInv, CallOK, Delete, F
<1>2. F.kind = "delete" /\ F.failed = "rollback"
    BY <1>1, SchemaAssumption DEF Deleting
<1>3. /\ Len(call.list) \in Nat \ {0} /\ call.next \in 1 .. Len(call.list) + 1
      /\ Without("route", call, Links, RowsOf(call, Links), call.next - 1)
    BY <1>1 DEF Deleting
<1>4. UNCHANGED stored => Links' = Links
    BY DEF Links
<1>5. ASSUME call'.list = call.list, call'.mask = call.mask, call'.cond = call.cond
      PROVE  \A now : Leaving(call', now) = Leaving(call, now)
  <2>1. \A row : AskedBy("route", call', Len(call'.list), row) <=> AskedBy("route", call, Len(call.list), row)
      BY <1>5, StillAsked
  <2> QED BY <2>1 DEF Leaving
<1>6. CASE /\ call.next <= Len(call.list) /\ InTransaction(Remaining(Rows, call.list[call.next]))
           /\ UNCHANGED stored
  <2> DEFINE more == Remaining(Rows, call.list[call.next])
  <2> HIDE DEF more
  <2>1. InTransaction(more)
      BY <1>6 DEF more
  <2>2. /\ call'.step \in {"delete", "returned"} /\ call'.list = call.list /\ call'.mask = call.mask
        /\ call'.cond = call.cond
    <3>1. CASE CanReserve(lock, Me)
        BY <1>1, <2>1, <3>1 DEF InTransaction, Begun, IsCall
    <3>2. CASE ~CanReserve(lock, Me)
        BY <1>1, <2>1, <3>2 DEF InTransaction, Begun, IsCall
    <3> QED BY <3>1, <3>2
  <2> QED BY <1>4, <1>5, <1>6, <2>2
<1>7. CASE call.next > Len(call.list) /\ Commit
  <2>1. call.next # 1 /\ call.next - 1 = Len(call.list)
      BY <1>3, <1>7
  <2>2. Entries(call.rows) = Leaving(call, Links)
      BY <1>3, <2>1 DEF RowsOf, Without, Leaving
  <2>3. /\ call'.list = call.list /\ call'.mask = call.mask /\ call'.cond = call.cond
        /\ call'.step = IF CanCommit(lock, Me) THEN "returned" ELSE "close"
      BY <1>1, <1>7 DEF Commit, Return, IsCall
  <2>4. CASE CanCommit(lock, Me)
    <3>1. stored' = [stored EXCEPT !["route"] = call.rows] /\ "route" \in DOMAIN stored
        BY <1>1, <1>7, <2>4 DEF Commit, TablesOK
    <3>2. Links' = call.rows
        BY <3>1 DEF Links
    <3> QED BY <1>5, <2>2, <2>3, <2>4, <3>2
  <2>5. CASE ~CanCommit(lock, Me)
      BY <1>4, <1>5, <1>7, <2>3, <2>5 DEF Commit
  <2> QED BY <2>4, <2>5
<1>8. Transaction
    BY <1>2 DEF Transaction
<1> QED BY <1>6, <1>7, <1>8 DEF Delete

\* Which command a function runs for.
LEMMA CommandOf ==
    ASSUME OwnIInv
    PROVE  /\ call.step \in {"insert", "delete", "close"} => user.cmd = "write"
           /\ call.step \in {"select", "found"} => user.cmd \in {"go", "save", "page", "next"}
           /\ user.cmd \notin Walking \/ call.step = "idle"
BY DEF OwnIInv, UserOK, Walking

\* What a function leaves alone of the command.
Aside == UNCHANGED <<sg_route, user, excused>> /\ (raced => raced')

LEMMA InsertSound == ASSUME OwnIInv, Insert, Aside PROVE OwnIInv'
<1>1. /\ user.cmd = "write" /\ call.step = "insert" /\ user' = user /\ sg_route' = sg_route
      /\ excused' = excused /\ focus' = focus /\ (raced => raced')
    BY CommandOf DEF Insert, Aside
<1>2. /\ DbIInv(Pairs) /\ focus = "route" /\ stored[focus] = Links /\ RowsOK(Pairs, Links)
      /\ DraftOK(sg_route) /\ user = [cmd |-> user.cmd, nodes |-> user.nodes]
      /\ (~raced => IsLine(call.list)) /\ (~excused /\ ~raced => BalancedSet(Entries(Links)))
  <2>1. user.cmd \notin Walking
      BY <1>1 DEF Walking
  <2>2. UserOK(user, call, Links, excused, raced, sg_route)
      BY RouteParts
  <2>3. ~raced => IsLine(call.list)
      BY <1>1, <2>2 DEF UserOK
  <2> QED BY <2>1, <2>3, NoWalkDb, RouteParts
<1>3. DbIInv(Pairs)'
    BY <1>2, InsertStep
<1>4. RowsOK(Pairs, Links')
    BY <1>1, <1>2, <1>3 DEF DbIInv, TablesOK, Links
<1>5. /\ call'.step \in {"insert", "close", "returned"} /\ call'.list = call.list
      /\ \/ Links' = Links
         \/ Grown(Links, Links', call.list, Len(call.list)) /\ call.list \in Seq(Pairs)
    BY <1>2, InsertLeaves
<1>6. ~excused' /\ ~raced' => BalancedSet(Entries(Links'))
    BY <1>1, <1>2, <1>4, <1>5, LineStored
<1>7. UserOK(user', call', Links', excused', raced', sg_route')
    BY <1>1, <1>2, <1>5, <1>6 DEF UserOK, Walking
<1> QED BY <1>1, <1>2, <1>3, <1>7, NoWalkStep DEF Walking

LEMMA DeleteSound == ASSUME OwnIInv, Delete, Aside PROVE OwnIInv'
<1>1. /\ user.cmd = "write" /\ call.step = "delete" /\ user' = user /\ sg_route' = sg_route
      /\ excused' = excused /\ focus' = focus /\ (raced => raced')
    BY CommandOf DEF Delete, Aside
<1>2. /\ DbIInv(Pairs) /\ focus = "route" /\ stored[focus] = Links
      /\ DraftOK(sg_route) /\ user = [cmd |-> user.cmd, nodes |-> user.nodes]
      /\ call.mask \in Listed /\ call.mask # NULL
      /\ (~excused /\ ~raced => BalancedSet(Leaving(call, Links)))
      /\ (~excused /\ ~raced => BalancedSet(Entries(Links)))
  <2>1. user.cmd \notin Walking
      BY <1>1 DEF Walking
  <2>2. UserOK(user, call, Links, excused, raced, sg_route)
      BY RouteParts
  <2>3. call.mask \in Listed /\ (~excused /\ ~raced => BalancedSet(Leaving(call, Links)))
      BY <1>1, <2>2 DEF UserOK
  <2> QED BY <2>1, <2>3, NoWalkDb, RouteParts, ListedIs
<1>3. DbIInv(Pairs)'
    BY <1>2, DeleteStep
<1>4. /\ call'.step \in {"delete", "close", "returned"} /\ call'.mask = call.mask
      /\ \A now : Leaving(call', now) = Leaving(call, now)
      /\ \/ Links' = Links
         \/ call'.step = "returned" /\ Entries(Links') = Leaving(call, Links)
    BY <1>2, DeleteLeaves
<1>5. ~excused' /\ ~raced' => BalancedSet(Entries(Links'))
    BY <1>1, <1>2, <1>4
<1>6. call'.step = "delete" =>
        call'.mask \in Listed /\ (~excused' /\ ~raced' => BalancedSet(Leaving(call', Links')))
    BY <1>1, <1>2, <1>4
<1>7. UserOK(user', call', Links', excused', raced', sg_route')
    BY <1>1, <1>2, <1>4, <1>5, <1>6 DEF UserOK, Walking
<1> QED BY <1>1, <1>2, <1>3, <1>7, NoWalkStep DEF Walking

\* A function that selects, and a COMMIT that was refused.
LEMMA CallStepsSound ==
    ASSUME OwnIInv, Select \/ Finalize \/ Close, Aside
    PROVE  OwnIInv'
<1>1. /\ user' = user /\ sg_route' = sg_route /\ excused' = excused /\ UNCHANGED <<focus, stored>>
      /\ (raced => raced')
    BY DEF Aside, Select, Finalize, Close
<1>2. \/ user.cmd = "write" /\ call.step = "close"
      \/ user.cmd \in {"go", "save", "page", "next"} /\ call.step \in {"select", "found"}
    BY CommandOf DEF Select, Finalize, Close
<1>3. /\ DbIInv(Pairs) /\ focus = "route" /\ Links' = Links /\ DraftOK(sg_route)
      /\ UserOK(user, call, Links, excused, raced, sg_route) /\ IsCall(call)
  <2>1. user.cmd \notin Walking
      BY <1>2 DEF Walking
  <2> QED BY <1>1, <2>1, NoWalkDb, RouteParts DEF Links, DbIInv, CallOK
<1>4. DbIInv(Pairs)'
    BY <1>3, OtherCallSteps
<1>5. /\ call'.step \in {"found", "returned"} /\ call'.fn = call.fn
      /\ (call.step # "select" => call'.step = "returned")
    BY <1>3 DEF Select, Finalize, Close, Return, IsCall
<1>6. UserOK(user', call', Links', excused', raced', sg_route')
    BY <1>1, <1>2, <1>3, <1>5 DEF UserOK, Walking
<1> QED BY <1>1, <1>2, <1>3, <1>4, <1>6, NoWalkStep DEF Walking

\* The other thread, and steps of neither.
LEMMA OtherSound ==
    ASSUME OwnIInv, UNCHANGED routeVars, UNCHANGED <<focus, stored, call>>,
           lock' = lock \/ \E held : lock' = With(lock, Other, held)
    PROVE  OwnIInv'
<1>1. /\ user' = user /\ sg_route' = sg_route /\ excused' = excused /\ call' = call /\ focus' = focus
      /\ raced' = raced
    BY DEF routeVars
<1>2. TablesOK(Pairs)' /\ Links' = Links
    BY RouteParts, LinksStay
<1>3. LockOK' /\ lock'[Me] = lock[Me]
    BY RouteParts, LockChanges DEF LockOK
<1>4. Held(user)' = Held(user)
    BY <1>1, <1>3 DEF Held
<1> QED BY <1>1, <1>2, <1>3, <1>4 DEF OwnIInv

-----------------------------------------------------------------------------
(* The table and the commands at first.*)

LEMMA RouteInitSound == ASSUME Init, focus = "route", RouteInit(FALSE) PROVE OwnIInv
<1>1. /\ stored = [t \in DOMAIN tmsdb_CheckDb |-> IF t = focus THEN <<>> ELSE <<[id |-> 1, of |-> <<0, 0>>]>>]
      /\ lock = [t \in {Me, Other} |-> "none"] /\ call = Idle /\ focus \in DOMAIN tmsdb_CheckDb
      /\ user = Ready /\ sg_route = << <<Outside, Outside>> >> /\ excused = FALSE
    BY DbAssumption DEF Init, RouteInit
<1>2. Links = <<>>
    BY <1>1 DEF Links
<1>3. RowsOK(Pairs, <<>>) /\ RowsOK(Pairs, <<[id |-> 1, of |-> <<0, 0>>]>>)
  <2>1. RowsOK(Pairs, <<>>)
      BY DEF RowsOK, Rising
  <2> DEFINE row == [id |-> 1, of |-> <<0, 0>>]
  <2>2. row \in [id : Nat, of : Pairs]
      BY DEF Pairs, Outside
  <2>3. \A x, S : x \in S => <<x>> \in Seq(S) /\ Rising(<<x>>)
      BY DEF Rising
  <2> HIDE DEF row
  <2>4. RowsOK(Pairs, <<row>>)
      BY <2>2, <2>3 DEF RowsOK
  <2> QED BY <2>1, <2>4 DEF row
<1>4. TablesOK(Pairs)
  <2>1. \A t \in DOMAIN tmsdb_CheckDb : RowsOK(Pairs, stored[t])
      BY <1>1, <1>3
  <2>2. \A t \in Untouched : Len(stored[t]) = 1
      BY <1>1 DEF Untouched
  <2>3. stored = [t \in DOMAIN tmsdb_CheckDb |-> stored[t]]
      BY <1>1
  <2> QED BY <1>1, <2>1, <2>2, <2>3 DEF TablesOK
<1>5. LockOK /\ lock[Me] = "none"
    BY <1>1 DEF LockOK
<1>6. CallOK(Pairs, focus, call, Links, Held(user))
  <2>1. Held(user) = "none"
      BY <1>5 DEF Held
  <2> QED BY <1>1, <2>1, IdleCallOK
<1>7. DraftOK(sg_route)
  <2>1. <<>> \in Seq(Pairs)
      OBVIOUS
  <2>2. DraftOK(<< <<Outside, Outside>> >>)
      BY <2>1, DraftOf, NodesAre
  <2> QED BY <1>1, <2>2
<1>8. UserOK(user, call, Links, excused, raced, sg_route)
  <2>1. call.step = "idle" /\ BalancedSet(Entries(Links))
      BY <1>1, <1>2, NoneBalanced, Zenon DEF Idle
  <2> QED BY <1>1, <2>1, ReadyIs DEF UserOK, Walking
<1>9. user.cmd \notin Walking
    BY <1>1, ReadyIs DEF Walking
<1> QED BY <1>1, <1>4, <1>5, <1>6, <1>7, <1>8, <1>9 DEF OwnIInv

-----------------------------------------------------------------------------
(* The other thread's command (away). *)

\* What it holds for its command; with none, it may be busy elsewhere in the file.
AwayHeld(u, held) == IF u.cmd \in Walking \cup {"none"} THEN "none" ELSE held

AwayOK(u, c, held, rows, torn, race, line) ==
  /\ CallOK(Pairs, "route", c, rows, AwayHeld(u, held))
  /\ u.cmd \in Walking => held = "shared"
  /\ UserOK(u, c, rows, torn, race, line)

\* One of the two writes at most.
Writing == {"reserved", "pending"}
LocksOK(locks) ==
  /\ locks[Me] \in Locks /\ locks[Other] \in Locks
  /\ locks[Me] \notin Writing \/ locks[Other] \notin Writing

RouteIInv ==
  /\ OwnIInv /\ LocksOK(lock) /\ away = [call |-> away.call, user |-> away.user]
  /\ AwayOK(away.user, away.call, lock[Other], Links, excused, raced, sg_route)

\* A torn table, or a race, asks for less.
LEMMA AwayWeaker ==
    ASSUME NEW u, NEW c, NEW held, NEW rows, NEW torn, NEW race, NEW line,
           AwayOK(u, c, held, rows, torn, race, line),
           NEW torn2, torn => torn2, NEW race2, race => race2
    PROVE  AwayOK(u, c, held, rows, torn2, race2, line)
<1>1. UserOK(u, c, rows, torn, race, line)
    BY DEF AwayOK
<1>2. UserOK(u, c, rows, torn2, race2, line)
    BY <1>1 DEF UserOK
<1> QED BY <1>2 DEF AwayOK

\* A table without rows is not torn.
LEMMA AwayEmptied ==
    ASSUME NEW u, NEW c, NEW held, NEW rows, rows = <<>>, NEW torn, NEW race, NEW line,
           AwayOK(u, c, held, rows, torn, race, line), NEW torn2
    PROVE  AwayOK(u, c, held, rows, torn2, race, line)
<1>1. UserOK(u, c, rows, torn, race, line)
    BY DEF AwayOK
<1>2. Entries(rows) = {} /\ Leaving(c, rows) = {}
    BY DEF Entries, Leaving
<1>3. BalancedSet(Entries(rows)) /\ BalancedSet(Leaving(c, rows))
    BY <1>2, NoneBalanced
<1>4. UserOK(u, c, rows, torn2, race, line)
    BY <1>1, <1>3 DEF UserOK
<1> QED BY <1>4 DEF AwayOK

\* The line is edited while the other thread may be storing it.
LEMMA RereadIs ==
    ASSUME NEW c, IsCall(c), c.step = "insert", NEW d, d = Reread(c)
    PROVE  \E list : /\ d = [c EXCEPT !.list = list]
                     /\ list = [i \in DOMAIN c.list |->
                                  IF c.next <= i /\ i \in DOMAIN sg_route' THEN sg_route'[i] ELSE c.list[i]]
<1> DEFINE list == [i \in DOMAIN c.list |->
                      IF c.next <= i /\ i \in DOMAIN sg_route' THEN sg_route'[i] ELSE c.list[i]]
<1>1. d = [c EXCEPT !.list = list]
    BY DEF Reread
<1> QED BY <1>1

LEMMA AwayReread ==
    ASSUME NEW u, NEW c, NEW held, NEW rows, NEW torn, NEW race, NEW line,
           AwayOK(u, c, held, rows, torn, race, line), DraftOK(sg_route'),
           NEW race2, race => race2, Reread(c) # c => race2, u.cmd = "save" /\ sg_route' # line => race2
    PROVE  AwayOK(u, Reread(c), held, rows, torn, race2, sg_route')
<1>1. PICK d : d = Reread(c)
    OBVIOUS
<1>2. /\ CallOK(Pairs, "route", c, rows, AwayHeld(u, held)) /\ UserOK(u, c, rows, torn, race, line)
      /\ IsCall(c)
    BY DEF AwayOK, CallOK
<1>3. CASE c.step # "insert"
  <2>1. d = c
      BY <1>1, <1>3 DEF Reread
  <2>2. UserOK(u, c, rows, torn, race2, sg_route')
      BY <1>2, <1>3 DEF UserOK
  <2> QED BY <1>1, <2>1, <2>2 DEF AwayOK
<1>4. CASE c.step = "insert"
  <2>1. PICK list : /\ d = [c EXCEPT !.list = list]
                    /\ list = [i \in DOMAIN c.list |->
                                 IF c.next <= i /\ i \in DOMAIN sg_route' THEN sg_route'[i] ELSE c.list[i]]
      BY <1>1, <1>2, <1>4, RereadIs
  <2>2. /\ IsCall(d) /\ d.step = c.step /\ d.fn = c.fn /\ d.list = list /\ d.next = c.next
        /\ d.before = c.before /\ d.rows = c.rows /\ (d.refused <=> c.refused) /\ (d.disturbed <=> c.disturbed)
      BY <1>2, <2>1 DEF IsCall
  <2>3. Inserting(Pairs, Functions[c.fn], c, rows, AwayHeld(u, held)) /\ Functions[c.fn].table = "route"
        /\ c.fn \in DOMAIN Functions
      BY <1>2, <1>4 DEF CallOK
  <2>4. c.list \in Seq(Pairs) /\ c.list # <<>> /\ c.next \in 1 .. Len(c.list) + 1
        /\ Functions[c.fn].kind = "insert" /\ sg_route' \in Seq(Pairs)
      BY <2>3 DEF Inserting, DraftOK
  <2>5. list \in Seq(Pairs) /\ Len(list) = Len(c.list) /\ list # <<>> /\ Len(c.list) \in Nat
    <3>1. DOMAIN list = 1 .. Len(c.list) /\ Len(c.list) \in Nat
        BY <2>1, <2>4
    <3>2. \A i \in 1 .. Len(c.list) : list[i] \in Pairs
        BY <2>1, <2>4
    <3>3. list = [i \in 1 .. Len(c.list) |-> list[i]]
        BY <2>1, <3>1
    <3>4. list \in Seq(Pairs)
        BY <3>1, <3>2, <3>3
    <3>5. Len(list) = Len(c.list)
        BY <3>1, <3>4
    <3>6. Len(c.list) # 0
        BY <2>4
    <3> QED BY <3>1, <3>4, <3>5, <3>6
  <2>6. Functions[c.fn].failed = "rollback"
      BY <2>3, <2>4, SchemaAssumption DEF AllOrNothing
  <2>7. Grown(rows, RowsOf(c, rows), c.list, c.next - 1)
      BY <2>3, <2>6 DEF Inserting
  <2>8. \A i \in 1 .. c.next - 1 : list[i] = c.list[i]
    <3>1. \A i \in 1 .. c.next - 1 : i \in DOMAIN c.list /\ ~(c.next <= i)
        BY <2>4, <2>5
    <3> QED BY <2>1, <3>1
  <2>9. Grown(rows, RowsOf(c, rows), list, c.next - 1)
      BY <2>7, <2>8 DEF Grown
  <2>10. BeforeOf(d, rows) = BeforeOf(c, rows) /\ RowsOf(d, rows) = RowsOf(c, rows) /\ Working(d) = Working(c)
      BY <2>2 DEF BeforeOf, RowsOf, Working
  <2>11. Inserting(Pairs, Functions[c.fn], d, rows, AwayHeld(u, held))
      BY <2>2, <2>3, <2>4, <2>5, <2>6, <2>9, <2>10 DEF Inserting
  <2>12. CallOK(Pairs, "route", d, rows, AwayHeld(u, held))
      BY <1>4, <2>2, <2>3, <2>11 DEF CallOK
  <2>13. u.cmd = "write"
      BY <1>2, <1>4 DEF UserOK, Walking
  <2>14. ~race2 => IsLine(d.list)
      BY <1>1, <1>2, <1>4, <2>13 DEF UserOK
  <2>15. UserOK(u, d, rows, torn, race2, sg_route')
      BY <1>2, <1>4, <2>2, <2>13, <2>14 DEF UserOK, Walking
  <2> QED BY <1>1, <2>12, <2>15 DEF AwayOK
<1> QED BY <1>3, <1>4

\* What a list of numbers leaves.
LEMMA LeavingById ==
    ASSUME NEW c, c.mask = {"id"}, DOMAIN c.list = 1 .. Len(c.list), NEW rows
    PROVE  Leaving(c, rows) = Entries(rows) \ ById(rows, c.list)
<1>1. ASSUME NEW row
      PROVE  AskedBy("route", c, Len(c.list), row) <=> row.id \in ToSet(c.list)
  <2>1. \A i \in 1 .. Len(c.list) : AskedOf("route", c.cond, c.mask, row, c.list[i]) <=> row.id = c.list[i]
      BY DEF AskedOf
  <2> QED BY <2>1 DEF AskedBy, ToSet
<1>2. ById(rows, c.list) = {row \in Entries(rows) : row.id \in ToSet(c.list)}
    BY DEF ById, ToSet, Entries
<1> QED BY <1>1, <1>2 DEF Leaving

\* Of a balanced table a balanced part is still to be taken away when those rows are still there.
LEMMA StillLeaves ==
    ASSUME NEW c, c.mask \in Listed, DOMAIN c.list = 1 .. Len(c.list), Len(c.list) \in Nat \ {0},
           NEW rows, RowsOK(Pairs, rows), NEW later, RowsOK(Pairs, later),
           "id" \in c.mask => ById(later, c.list) = ById(rows, c.list),
           BalancedSet(Leaving(c, rows)), BalancedSet(Entries(rows)), BalancedSet(Entries(later))
    PROVE  BalancedSet(Leaving(c, later))
<1>1. CASE c.mask = {}
    BY <1>1, AllLeave
<1>2. CASE c.mask = {"id"}
  <2> DEFINE R == [id : Nat, of : Pairs]
             E == Entries(rows)
             D == Entries(later)
             B == ById(rows, c.list)
  <2>1. rows \in Seq(R) /\ later \in Seq(R)
      BY DEF RowsOK
  <2> HIDE DEF R
  <2>2. IsFiniteSet(E) /\ IsFiniteSet(D)
      BY <2>1, EntriesFinite
  <2>3. Leaving(c, rows) = E \ B /\ Leaving(c, later) = D \ B
      BY <1>2, LeavingById
  <2>4. B \subseteq E
      BY DEF ById, ToSet, Entries
  <2>5. ById(later, c.list) \subseteq D
      BY DEF ById, ToSet, Entries
  <2>6. B \subseteq D
      BY <1>2, <2>5
  <2>7. BalancedSet(E) /\ BalancedSet(D) /\ BalancedSet(E \ B)
      BY <2>3
  <2> HIDE DEF E, D, B
  <2>8. IsFiniteSet(B) /\ IsFiniteSet(E \ B) /\ IsFiniteSet(D \ B)
      BY <2>2, <2>4, FS_Subset
  <2>9. B \cap (E \ B) = {} /\ B \cup (E \ B) = E
      BY <2>4
  <2>10. BalancedSet(B)
      BY <2>7, <2>8, <2>9, BothBalanced
  <2>11. (D \ B) \cap B = {} /\ (D \ B) \cup B = D
      BY <2>6
  <2>12. BalancedSet(D \ B)
      BY <2>7, <2>8, <2>10, <2>11, BothBalanced
  <2> QED BY <2>3, <2>12
<1> QED BY <1>1, <1>2 DEF Listed

\* The table changes while the other thread holds nothing of the file.
LEMMA AwayDisturbed ==
    ASSUME NEW u, NEW c, NEW rows, RowsOK(Pairs, rows), NEW torn, NEW race, NEW line,
           AwayOK(u, c, "none", rows, torn, race, line), NEW later, RowsOK(Pairs, later),
           NEW race2, race => race2, ~torn /\ ~race2 => BalancedSet(Entries(later)),
           LookedUp(c) /\ ById(later, c.list) # ById(rows, c.list) => race2
    PROVE  AwayOK(u, Disturb(c), "none", later, torn, race2, line)
<1>1. PICK d : d = Disturb(c)
    OBVIOUS
<1>2. /\ AwayHeld(u, "none") = "none" /\ u.cmd \notin Walking
      /\ CallOK(Pairs, "route", c, rows, "none") /\ UserOK(u, c, rows, torn, race, line)
    BY DEF AwayOK, AwayHeld
<1>3. CallOK(Pairs, "route", d, later, "none")
    BY <1>1, <1>2, CallStable
<1>4. SameCall(c, d)
    BY <1>1, <1>2, CallDisturbed DEF CallOK
<1>5. ASSUME c.step = "delete", u.cmd = "write", ~torn, ~race2
      PROVE  BalancedSet(Leaving(d, later))
  <2>1. c.mask \in Listed /\ BalancedSet(Leaving(c, rows)) /\ BalancedSet(Entries(rows))
      BY <1>2, <1>5 DEF UserOK
  <2>2. Deleting(Pairs, Functions[c.fn], c, rows, "none")
      BY <1>2, <1>5 DEF CallOK
  <2>3. DOMAIN c.list = 1 .. Len(c.list) /\ Len(c.list) \in Nat \ {0} /\ c.next = 1
      BY <2>2 DEF Deleting, Working
  <2>4. "id" \in c.mask => ById(later, c.list) = ById(rows, c.list)
      BY <1>5, <2>3 DEF LookedUp
  <2>5. BalancedSet(Leaving(c, later))
      BY <1>5, <2>1, <2>3, <2>4, StillLeaves
  <2>6. \A row : AskedBy("route", d, Len(d.list), row) <=> AskedBy("route", c, Len(c.list), row)
      BY <1>4, StillAsked DEF SameCall
  <2>7. Leaving(d, later) = Leaving(c, later)
      BY <2>6 DEF Leaving
  <2> QED BY <2>5, <2>7
<1>6. UserOK(u, d, later, torn, race2, line)
    BY <1>2, <1>4, <1>5 DEF UserOK, SameCall
<1> QED BY <1>1, <1>2, <1>3, <1>6 DEF AwayOK

\* The table changes only where nobody else holds anything of the file.
LEMMA StoresAlone ==
    ASSUME RouteIInv, CallStep, stored' # stored
    PROVE  lock[Other] = "none" /\ RowsOK(Pairs, Links)
<1>1. /\ user.cmd = "write" /\ call.step \in {"insert", "delete"}
  <2>1. Insert \/ Delete
      BY DEF CallStep, Select, Finalize, Close
  <2> QED BY <2>1, CommandOf DEF RouteIInv, Insert, Delete
<1>2. /\ DbIInv(Pairs) /\ focus = "route" /\ stored[focus] = Links /\ RowsOK(Pairs, Links)
      /\ UserOK(user, call, Links, excused, raced, sg_route)
    BY <1>1, NoWalkDb, RouteParts DEF RouteIInv, Walking
<1>3. /\ IsCall(call) /\ call.fn \in DOMAIN Functions /\ F = Functions[call.fn] /\ F.table = "route"
      /\ LockOK /\ CallOK(Pairs, "route", call, Links, lock[Me])
    BY <1>1, <1>2 DEF DbIInv, LockOK, CallOK, F
<1>4. ASSUME Commit, call.next > Len(call.list), lock[Me] = Working(call), Len(call.list) \in Nat \ {0},
             call.next \in Nat
      PROVE  lock[Other] = "none"
  <2>1. CanCommit(lock, Me)
      BY <1>4 DEF Commit
  <2>2. lock[Me] = "reserved"
      BY <1>4 DEF Working
  <2>3. Other \in DOMAIN lock \ {Me}
      BY <1>3 DEF LockOK, Me, Other
  <2>4. lock[Other] # "shared"
      BY <2>1, <2>3 DEF CanCommit, Others
  <2> QED BY <2>2, <2>4 DEF RouteIInv, LocksOK, Writing, Locks
<1>5. CASE Insert
  <2>1. call.step = "insert" /\ Inserting(Pairs, F, call, Links, lock[Me])
      BY <1>3, <1>5 DEF Insert, CallOK
  <2>2. F.kind = "insert" /\ F.failed = "rollback"
      BY <1>3, <2>1, SchemaAssumption DEF Inserting, AllOrNothing
  <2>3. /\ lock[Me] = Working(call) /\ call.list \in Seq(Pairs) /\ call.list # <<>>
        /\ call.next \in 1 .. Len(call.list) + 1
      BY <2>1, <2>2 DEF Inserting
  <2>4. Len(call.list) \in Nat \ {0} /\ call.next \in Nat
      BY <2>3
  <2>5. Commit /\ call.next > Len(call.list)
      BY <1>5, <2>2 DEF Insert, Transaction
  <2> QED BY <1>2, <1>4, <2>3, <2>4, <2>5
<1>6. CASE Delete
  <2>1. call.step = "delete" /\ Deleting(Pairs, F, call, Links, lock[Me]) /\ call.mask # NULL
      BY <1>1, <1>2, <1>3, <1>6, ListedIs DEF Delete, CallOK, UserOK
  <2>2. F.kind = "delete" /\ F.failed = "rollback"
      BY <1>3, <2>1, SchemaAssumption DEF Deleting
  <2>3. lock[Me] = Working(call) /\ Len(call.list) \in Nat \ {0} /\ call.next \in 1 .. Len(call.list) + 1
      BY <2>1 DEF Deleting
  <2>4. Commit /\ call.next > Len(call.list)
      BY <1>6, <2>1, <2>2 DEF Delete, Transaction
  <2> QED BY <1>2, <1>4, <2>3, <2>4
<1> QED BY <1>5, <1>6 DEF CallStep, Select, Finalize, Close

\* A thread's lock on the file: it writes only where no other does.
Takes(locks, later) ==
  \/ later = locks
  \/ later = With(locks, Me, "none")
  \/ later = With(locks, Me, "shared")
  \/ later = With(locks, Me, "reserved") /\ CanReserve(locks, Me)
  \/ later = With(locks, Me, "pending") /\ locks[Me] = "reserved"

LEMMA TakesOK ==
    ASSUME LockOK, LocksOK(lock), Takes(lock, lock')
    PROVE  LocksOK(lock') /\ lock'[Other] = lock[Other]
<1>1. Me # Other /\ DOMAIN lock = {Me, Other}
    BY DEF LockOK, Me, Other
<1>2. \A held : /\ With(lock, Me, held)[Me] = held
                /\ With(lock, Me, held)[Other] = lock[Other]
    BY <1>1 DEF With
<1>3. CanReserve(lock, Me) => lock[Other] \notin Writing
    BY <1>1 DEF CanReserve, Others, Writing
<1> QED BY <1>2, <1>3 DEF LocksOK, Takes, Locks, Writing

\* The steps of a function.
LEMMA CallTakes ==
    ASSUME OwnIInv, Insert \/ Delete \/ Select \/ Finalize \/ Close
    PROVE  Takes(lock, lock')
<1>2. \A rows : InTransaction(rows) => Takes(lock, lock')
    BY DEF InTransaction, Takes
<1>3. ASSUME Commit, lock[Me] = "reserved"
      PROVE  Takes(lock, lock')
    BY <1>3 DEF Commit, Takes
<1>4. CASE Select \/ Finalize \/ Close
    BY <1>4 DEF Select, Finalize, Close, Takes
<1>5. ASSUME call.step \in {"insert", "delete"}
      PROVE  /\ call.fn \in DOMAIN Functions /\ F = Functions[call.fn] /\ F.table = "route"
             /\ CallOK(Pairs, "route", call, Links, lock[Me]) /\ UserOK(user, call, Links, excused, raced, sg_route)
             /\ user.cmd = "write"
  <2>1. user.cmd = "write"
      BY <1>5, CommandOf
  <2>2. /\ DbIInv(Pairs) /\ focus = "route" /\ stored[focus] = Links
        /\ UserOK(user, call, Links, excused, raced, sg_route)
      BY <2>1, NoWalkDb, RouteParts DEF Walking
  <2> QED BY <1>5, <2>1, <2>2 DEF DbIInv, CallOK, F
<1>6. CASE Insert
  <2>1. call.step = "insert"
      BY <1>6 DEF Insert
  <2>2. Inserting(Pairs, F, call, Links, lock[Me]) /\ F.table = "route" /\ call.fn \in DOMAIN Functions /\ F = Functions[call.fn]
      BY <1>5, <2>1 DEF CallOK
  <2>3. F.kind = "insert" /\ F.failed = "rollback"
      BY <2>2, SchemaAssumption DEF Inserting, AllOrNothing
  <2>4. /\ lock[Me] = Working(call) /\ call.list \in Seq(Pairs) /\ call.list # <<>>
        /\ call.next \in 1 .. Len(call.list) + 1
      BY <2>2, <2>3 DEF Inserting
  <2>5. Len(call.list) \in Nat \ {0} /\ call.next \in Nat
      BY <2>4
  <2>6. call.next > Len(call.list) => lock[Me] = "reserved"
      BY <2>4, <2>5 DEF Working
  <2> QED BY <1>2, <1>3, <1>6, <2>3, <2>6 DEF Insert, Transaction
<1>7. CASE Delete
  <2>1. call.step = "delete"
      BY <1>7 DEF Delete
  <2>2. /\ Deleting(Pairs, F, call, Links, lock[Me]) /\ F.table = "route"
        /\ call.fn \in DOMAIN Functions /\ F = Functions[call.fn] /\ call.mask # NULL
      BY <1>5, <2>1, ListedIs DEF CallOK, UserOK
  <2>3. F.kind = "delete" /\ F.failed = "rollback"
      BY <2>2, SchemaAssumption DEF Deleting
  <2>4. lock[Me] = Working(call) /\ Len(call.list) \in Nat \ {0} /\ call.next \in 1 .. Len(call.list) + 1
      BY <2>2 DEF Deleting
  <2>5. call.next > Len(call.list) => lock[Me] = "reserved"
      BY <2>4 DEF Working
  <2> QED BY <1>2, <1>3, <1>7, <2>2, <2>3, <2>5 DEF Delete, Transaction
<1> QED BY <1>4, <1>6, <1>7

-----------------------------------------------------------------------------
(* Every step keeps what holds of both threads. *)

\* A function's step, as the other thread sees it.
LEMMA CallStepSound == ASSUME RouteIInv, CallStep PROVE RouteIInv'
<1>1. /\ OwnIInv /\ LocksOK(lock) /\ LockOK /\ focus = "route" /\ stored[focus] = Links
      /\ AwayOK(away.user, away.call, lock[Other], Links, excused, raced, sg_route)
      /\ away = [call |-> away.call, user |-> away.user]
    BY RouteParts DEF RouteIInv
<1>2. Aside /\ (Insert \/ Delete \/ Select \/ Finalize \/ Close)
    BY DEF CallStep, Aside
<1>3. OwnIInv'
    BY <1>1, <1>2, InsertSound, DeleteSound, CallStepsSound
<1>4. LocksOK(lock') /\ lock'[Other] = lock[Other]
    BY <1>1, <1>2, CallTakes, TakesOK
<1>5. /\ sg_route' = sg_route /\ excused' = excused /\ (raced => raced')
    BY <1>2 DEF Aside
<1>6. CASE stored' = stored
  <2>1. away' = away /\ Links' = Links
      BY <1>6 DEF CallStep, Links
  <2>2. AwayOK(away.user, away.call, lock[Other], Links, excused, raced', sg_route)
      BY <1>1, <1>5, AwayWeaker
  <2> QED BY <1>1, <1>3, <1>4, <1>5, <2>1, <2>2 DEF RouteIInv
<1>7. CASE stored' # stored
  <2> DEFINE c == away.call
             u == away.user
  <2>1. lock[Other] = "none" /\ RowsOK(Pairs, Links)
      BY <1>7, StoresAlone
  <2>2. RowsOK(Pairs, Links') /\ (~excused' /\ ~raced' => BalancedSet(Entries(Links')))
    <3>1. TablesOK(Pairs)' /\ UserOK(user', call', Links', excused', raced', sg_route') /\ focus' = "route"
        BY <1>3 DEF OwnIInv
    <3> QED BY <3>1 DEF TablesOK, Links, UserOK
  <2>3. away' = [away EXCEPT !.call = Disturb(@)]
      BY <1>7 DEF CallStep
  <2>4. away'.user = u /\ away'.call = Disturb(c) /\ away' = [call |-> away'.call, user |-> away'.user]
      BY <1>1, <2>3
  <2>5. focus' = "route" /\ stored'[focus] = Links'
      BY <1>1, <1>3 DEF OwnIInv, Links
  <2>6. raced' = (raced \/ (LookedUp(c) /\ ById(Links', c.list) # ById(Links, c.list)))
      BY <1>1, <2>5 DEF CallStep
  <2>7. LookedUp(c) /\ ById(Links', c.list) # ById(Links, c.list) => raced'
      BY <2>6
  <2>8. AwayOK(u, c, "none", Links, excused, raced, sg_route)
      BY <1>1, <2>1
  <2> HIDE DEF c, u
  <2>9. ~excused /\ ~raced' => BalancedSet(Entries(Links'))
      BY <1>5, <2>2
  <2>10. AwayOK(u, Disturb(c), "none", Links', excused, raced', sg_route)
      BY <1>5, <2>1, <2>2, <2>7, <2>8, <2>9, AwayDisturbed
  <2> QED BY <1>3, <1>4, <1>5, <2>1, <2>4, <2>10 DEF RouteIInv
<1> QED BY <1>6, <1>7

\* The line is edited.
LEMMA EditStepSound == ASSUME RouteIInv, RouteNew \/ RouteAdd \/ cmd_insertRoute PROVE RouteIInv'
<1>1. /\ OwnIInv /\ LocksOK(lock)
      /\ AwayOK(away.user, away.call, lock[Other], Links, excused, raced, sg_route)
      /\ away = [call |-> away.call, user |-> away.user]
    BY DEF RouteIInv
<1>2. OwnIInv'
    BY <1>1, EditsSound
<1>3. Edits
    BY DEF RouteNew, RouteAdd, cmd_insertRoute
<1>4. /\ lock' = lock /\ stored' = stored /\ excused' = excused
      /\ away' = [away EXCEPT !.call = Reread(@)]
      /\ raced' = (raced \/ away' # away \/ (away.user.cmd = "save" /\ sg_route' # sg_route))
    BY <1>3 DEF Edits, Quiet
<1>5. /\ away'.user = away.user /\ away'.call = Reread(away.call)
      /\ away' = [call |-> away'.call, user |-> away'.user]
    BY <1>1, <1>4
<1>6. /\ raced => raced'
      /\ Reread(away.call) # away.call => raced'
      /\ away.user.cmd = "save" /\ sg_route' # sg_route => raced'
    BY <1>4, <1>5
<1>7. DraftOK(sg_route') /\ Links' = Links
    BY <1>2, <1>4 DEF OwnIInv, Links
<1>8. AwayOK(away.user, Reread(away.call), lock[Other], Links, excused, raced', sg_route')
    BY <1>1, <1>6, <1>7, AwayReread
<1> QED BY <1>1, <1>2, <1>4, <1>5, <1>7, <1>8 DEF RouteIInv

\* A command's other steps, which the other thread does not see.
LEMMA ApartSound ==
    ASSUME RouteIInv, OwnIInv', UNCHANGED <<away, raced, sg_route, stored>>, Takes(lock, lock'),
           (excused => excused') \/ Links = <<>>
    PROVE  RouteIInv'
<1>1. /\ OwnIInv /\ LocksOK(lock) /\ LockOK
      /\ AwayOK(away.user, away.call, lock[Other], Links, excused, raced, sg_route)
      /\ away = [call |-> away.call, user |-> away.user]
    BY RouteParts DEF RouteIInv
<1>2. LocksOK(lock') /\ lock'[Other] = lock[Other]
    BY <1>1, TakesOK
<1>3. AwayOK(away.user, away.call, lock[Other], Links, excused', raced, sg_route)
  <2>1. CASE excused => excused'
    <3>1. UserOK(away.user, away.call, Links, excused, raced, sg_route)
        BY <1>1 DEF AwayOK
    <3>2. UserOK(away.user, away.call, Links, excused', raced, sg_route)
        BY <2>1, <3>1 DEF UserOK
    <3> QED BY <1>1, <3>2 DEF AwayOK
  <2>2. CASE Links = <<>>
      BY <1>1, <2>2, AwayEmptied
  <2> QED BY <2>1, <2>2
<1>4. Links' = Links
    BY DEF Links
<1> QED BY <1>1, <1>2, <1>3, <1>4 DEF RouteIInv

LEMMA CommandSound ==
    ASSUME RouteIInv, \/ RouteGo \/ RouteChecked \/ RouteDelAll \/ RouteWritten
                      \/ RouteLookUp \/ RouteFollow \/ RouteFound \/ ListPage \/ ListShown
    PROVE  RouteIInv'
<1>1. OwnIInv
    BY DEF RouteIInv
<1>2. OwnIInv'
    BY <1>1, GoSound, CheckedSound, DelAllSound, WrittenSound, LookUpSound, FollowSound, FoundSound,
       ListsSound
<1>3. UNCHANGED <<away, raced, sg_route, stored>>
    BY DEF RouteGo, RouteChecked, RouteDelAll, RouteWritten, RouteLookUp, RouteFollow, RouteFound,
           ListPage, ListShown, Apart
<1>4. Takes(lock, lock')
  <2>1. RouteLookUp => Takes(lock, lock')
      BY DEF RouteLookUp, DispOneRoute, cmd_routeDel, LookUp, Takes
  <2>2. RouteFound => Takes(lock, lock')
      BY DEF RouteFound, Takes
  <2> QED BY <2>1, <2>2 DEF RouteGo, RouteChecked, RouteDelAll, RouteWritten, RouteFollow,
              ListPage, ListShown, Takes
<1>5. (excused => excused') \/ Links = <<>>
    BY DEF RouteGo, RouteChecked, RouteDelAll, RouteWritten, RouteLookUp, RouteFollow, RouteFound,
           ListPage, ListShown
<1> QED BY <1>2, <1>3, <1>4, <1>5, ApartSound

\* The other thread's turn comes.
LEMMA SwitchSound == ASSUME RouteIInv, Switch PROVE RouteIInv'
<1>1. /\ OwnIInv /\ LocksOK(lock) /\ LockOK /\ focus = "route" /\ TablesOK(Pairs) /\ DraftOK(sg_route)
      /\ AwayOK(away.user, away.call, lock[Other], Links, excused, raced, sg_route)
      /\ CallOK(Pairs, "route", call, Links, Held(user)) /\ (user.cmd \in Walking => lock[Me] = "shared")
      /\ UserOK(user, call, Links, excused, raced, sg_route)
    BY RouteParts DEF RouteIInv, OwnIInv
<1>2. /\ call' = away.call /\ user' = away.user /\ away' = [call |-> call, user |-> user]
      /\ (away.user = Ready => lock[Other] = "none")
      /\ UNCHANGED <<sg_route, excused, raced, focus, stored>>
    BY DEF Switch
<1>3. lock'[Me] = lock[Other] /\ lock'[Other] = lock[Me] /\ LockOK'
    BY <1>1 DEF Switch, LockOK, Me, Other
<1>4. LocksOK(lock')
    BY <1>1, <1>3 DEF LocksOK
<1>5. Links' = Links /\ TablesOK(Pairs)'
    BY <1>1, <1>2, LinksStay
<1>6. /\ CallOK(Pairs, "route", away.call, Links, AwayHeld(away.user, lock[Other]))
      /\ (away.user.cmd \in Walking => lock[Other] = "shared")
      /\ UserOK(away.user, away.call, Links, excused, raced, sg_route)
    BY <1>1 DEF AwayOK
<1>7. AwayHeld(away.user, lock[Other]) = Held(user)'
  <2>1. away.user.cmd = "none" => lock[Other] = "none"
      BY <1>2, <1>6 DEF UserOK
  <2> QED BY <1>2, <1>3, <2>1 DEF AwayHeld, Held
<1>8. OwnIInv'
    BY <1>1, <1>2, <1>3, <1>5, <1>6, <1>7 DEF OwnIInv
<1>9. CallOK(Pairs, "route", call, Links, AwayHeld(user, lock[Me]))
  <2>1. CASE user.cmd = "none"
    <3>1. call.step = "idle" /\ AwayHeld(user, lock[Me]) = "none"
        BY <1>1, <2>1 DEF UserOK, AwayHeld
    <3>2. Held(user) = "none"
        BY <1>1, <3>1 DEF CallOK
    <3> QED BY <1>1, <3>1, <3>2
  <2>2. CASE user.cmd # "none"
    <3>1. AwayHeld(user, lock[Me]) = Held(user)
        BY <2>2 DEF AwayHeld, Held
    <3> QED BY <1>1, <3>1
  <2> QED BY <2>1, <2>2
<1>10. AwayOK(user, call, lock[Me], Links, excused, raced, sg_route)
    BY <1>1, <1>9 DEF AwayOK
<1>11. away'.call = call /\ away'.user = user
    BY <1>2
<1> QED BY <1>2, <1>3, <1>4, <1>5, <1>8, <1>10, <1>11 DEF RouteIInv

\* The other thread, without a command here, on other tables of the file.
LEMMA ElsewhereSound == ASSUME RouteIInv, Elsewhere PROVE RouteIInv'
<1>1. /\ OwnIInv /\ LocksOK(lock) /\ LockOK /\ away = [call |-> away.call, user |-> away.user]
      /\ AwayOK(away.user, away.call, lock[Other], Links, excused, raced, sg_route)
      /\ away.user.cmd = "none"
    BY RouteParts, ReadyIs DEF RouteIInv, Elsewhere
<1>2. OtherLocks /\ UNCHANGED <<focus, stored, call>> /\ UNCHANGED routeVars
    BY DEF Elsewhere
<1>3. OwnIInv'
  <2>1. \E held : lock' = With(lock, Other, held)
      BY <1>2 DEF OtherLocks, OtherReads, OtherReserves, OtherCommits, OtherCloses
  <2> QED BY <1>1, <1>2, <2>1, OtherSound
<1>4. LocksOK(lock')
  <2>1. Me # Other /\ DOMAIN lock = {Me, Other}
      BY <1>1 DEF LockOK, Me, Other
  <2>2. \A held : /\ With(lock, Other, held)[Other] = held
                  /\ With(lock, Other, held)[Me] = lock[Me]
      BY <2>1 DEF With
  <2>3. CanReserve(lock, Other) => lock[Me] \notin Writing
      BY <2>1 DEF CanReserve, Others, Writing
  <2> QED BY <1>1, <1>2, <2>2, <2>3 DEF LocksOK, OtherLocks, OtherReads, OtherReserves, OtherCommits,
              OtherCloses, Locks, Writing
<1>5. Links' = Links /\ away' = away /\ sg_route' = sg_route /\ excused' = excused /\ raced' = raced
    BY <1>2 DEF Links, routeVars
<1>6. AwayOK(away.user, away.call, lock'[Other], Links, excused, raced, sg_route)
    BY <1>1 DEF AwayOK, AwayHeld, Walking
<1> QED BY <1>1, <1>3, <1>4, <1>5, <1>6 DEF RouteIInv

\* Nothing changes.
LEMMA RouteRests == ASSUME RouteIInv, UNCHANGED <<vars, routeVars>> PROVE RouteIInv'
<1>1. /\ UNCHANGED <<focus, stored, call, lock>> /\ UNCHANGED routeVars
    BY DEF vars
<1>2. OwnIInv'
    BY <1>1, OtherSound DEF RouteIInv
<1>3. /\ Links' = Links /\ away' = away /\ sg_route' = sg_route /\ excused' = excused /\ raced' = raced
      /\ lock' = lock
    BY <1>1 DEF Links, routeVars
<1> QED BY <1>2, <1>3 DEF RouteIInv

-----------------------------------------------------------------------------
(* Lines: the theorem. *)

RouteSteps == RouteNext \/ cmd_insertRoute \/ ListPage \/ ListShown \/ Switch \/ Elsewhere

LEMMA RouteNextSound == ASSUME RouteIInv, [RouteSteps]_<<vars, routeVars>> PROVE RouteIInv'
<1>1. CASE RouteNew \/ RouteAdd \/ cmd_insertRoute
    BY <1>1, EditStepSound
<1>2. CASE \/ RouteGo \/ RouteChecked \/ RouteDelAll \/ RouteWritten
           \/ RouteLookUp \/ RouteFollow \/ RouteFound \/ ListPage \/ ListShown
    BY <1>2, CommandSound
<1>3. CASE CallStep
    BY <1>3, CallStepSound
<1>4. CASE Switch
    BY <1>4, SwitchSound
<1>5. CASE Elsewhere
    BY <1>5, ElsewhereSound
<1>6. CASE UNCHANGED <<vars, routeVars>>
    BY <1>6, RouteRests
<1> QED BY <1>1, <1>2, <1>3, <1>4, <1>5, <1>6 DEF RouteSteps, RouteNext

LEMMA RouteBegins == ASSUME Init, focus = "route", RouteInit(FALSE) PROVE RouteIInv
<1>1. OwnIInv
    BY RouteInitSound
<1>2. /\ lock = [t \in {Me, Other} |-> "none"] /\ away = [call |-> Idle, user |-> Ready]
      /\ Links = <<>>
  <2>1. /\ stored = [t \in DOMAIN tmsdb_CheckDb |-> IF t = focus THEN <<>> ELSE <<[id |-> 1, of |-> <<0, 0>>]>>]
        /\ focus \in DOMAIN tmsdb_CheckDb
      BY DbAssumption DEF Init
  <2>2. Links = <<>>
      BY <2>1 DEF Links
  <2> QED BY <2>2 DEF Init, RouteInit
<1>3. LocksOK(lock) /\ lock[Other] = "none"
    BY <1>2 DEF LocksOK, Locks, Writing, Me, Other
<1>4. AwayOK(Ready, Idle, "none", Links, excused, raced, sg_route)
  <2>1. AwayHeld(Ready, "none") = "none"
      BY DEF AwayHeld
  <2>2. CallOK(Pairs, "route", Idle, Links, "none") /\ Idle.step = "idle"
      BY IdleCallOK, Zenon DEF Idle
  <2>3. UserOK(Ready, Idle, Links, excused, raced, sg_route)
      BY <1>2, <2>2, ReadyIs, NoneBalanced DEF UserOK, Walking
  <2>4. Ready.cmd \notin Walking
      BY ReadyIs DEF Walking
  <2> QED BY <2>1, <2>2, <2>3, <2>4 DEF AwayOK
<1>5. away.user = Ready /\ away.call = Idle
    BY <1>2
<1> QED BY <1>1, <1>2, <1>3, <1>4, <1>5 DEF RouteIInv

\* Between two commands the entries of the table are those the property counts.
LEMMA LinesFromInv == RouteIInv => LinesWhole
<1>1. SUFFICES ASSUME RouteIInv, ~excused, ~raced
               PROVE  \A n \in Modules : Cardinality({r \in ToSet(Links) : r.of[2] = n})
                                           = Cardinality({r \in ToSet(Links) : r.of[1] = n})
    BY DEF LinesWhole
<1>2. ToSet(Links) = Entries(Links)
    BY DEF ToSet, Entries
<1>3. BalancedSet(Entries(Links))
    BY <1>1, RouteParts DEF RouteIInv
<1> QED BY <1>2, <1>3 DEF BalancedSet

\* The command "route" of two threads, whatever each is asked for, in any order of their
\* steps and whichever statement the other's lock refuses: the invariant holds.
THEOREM RouteInvariant == RouteSpec => []RouteIInv
<1>1. Init /\ focus = "route" /\ RouteInit(FALSE) => RouteIInv
    BY RouteBegins
<1>2. RouteIInv /\ [RouteSteps]_<<vars, routeVars>> => RouteIInv'
    BY RouteNextSound
<1> QED BY <1>1, <1>2, PTL DEF RouteSpec, RouteSteps

\* cmd_route: no line is stored or taken away in part, for any set of modules, lines of any
\* length and any number of them, however the modules are shared and whatever two threads
\* store and take away, but for a line that one edits while the other stores it, or takes
\* away between the other's look and its deletion.
THEOREM LinesAreWhole == RouteSpec => []LinesWhole
<1> QED BY RouteInvariant, LinesFromInv, PTL

-----------------------------------------------------------------------------
(* Lists, page by page (TmsRoute). *)

\* A piece of the rows that are kept: all of them up to its last one, from its first one on.
Covers(P, rows, R, from, p) ==
  /\ RowsOK(P, p)
  /\ \A j \in DOMAIN p : \E i \in R : p[j] = rows[i]
  /\ p # <<>> =>
       \A i \in R : (from = 0 \/ p[1].id <= rows[i].id) /\ rows[i].id <= p[Len(p)].id
                      => \E j \in DOMAIN p : p[j] = rows[i]

LEMMA PieceCovers ==
    ASSUME NEW P, NEW rows, RowsOK(P, rows), NEW R, R \subseteq DOMAIN rows, NEW from \in Nat,
           NEW n \in Nat, NEW p, IsPiece([id : Nat, of : P], Kept(rows, R), from, n, p)
    PROVE  Covers(P, rows, R, from, p)
<1> DEFINE k == Kept(rows, R)
           S == [id : Nat, of : P]
<1>1. RowsOK(P, k) /\ Entries(k) = {rows[i] : i \in R}
    BY KeptRows
<1> HIDE DEF k
<1>2. k \in Seq(S) /\ Rising(k) /\ Len(k) \in Nat /\ DOMAIN k = 1 .. Len(k)
    BY <1>1 DEF RowsOK
<1>3. /\ p \in Seq(S) /\ Len(p) \in Nat /\ DOMAIN p = 1 .. Len(p)
      /\ \A i \in 1 .. Len(p) : from + i \in 1 .. Len(k) /\ p[i] = k[from + i]
    BY DEF IsPiece, k
<1>4. RowsOK(P, p)
  <2>1. SUFFICES ASSUME NEW i \in DOMAIN p, NEW j \in DOMAIN p, i < j
                 PROVE  p[i].id < p[j].id
      BY <1>3 DEF RowsOK, Rising
  <2>2. from + i \in DOMAIN k /\ from + j \in DOMAIN k /\ from + i < from + j
      BY <1>2, <1>3, <2>1, SMTT(30)
  <2> QED BY <1>2, <1>3, <2>2 DEF Rising
<1>5. ASSUME NEW j \in DOMAIN p
      PROVE  \E i \in R : p[j] = rows[i]
  <2>1. p[j] \in Entries(k)
      BY <1>2, <1>3 DEF Entries
  <2> QED BY <1>1, <2>1
<1>6. ASSUME p # <<>>, NEW i \in R, from = 0 \/ p[1].id <= rows[i].id, rows[i].id <= p[Len(p)].id
      PROVE  \E j \in DOMAIN p : p[j] = rows[i]
  <2>1. Len(p) # 0
      BY <1>3, <1>6
  <2>2. rows[i] \in Entries(k)
      BY <1>1
  <2>3. PICK q \in DOMAIN k : k[q] = rows[i]
      BY <2>2 DEF Entries
  <2>4. /\ from + 1 \in DOMAIN k /\ from + Len(p) \in DOMAIN k /\ q \in Nat /\ q >= 1
        /\ p[1] = k[from + 1] /\ p[Len(p)] = k[from + Len(p)]
      BY <1>2, <1>3, <2>1, <2>3
  <2>5. \A a \in DOMAIN k : k[a].id \in Nat
      BY <1>2, EntryOK
  <2>6. ~(q < from + 1)
    <3>1. SUFFICES ASSUME q < from + 1
                   PROVE  FALSE
        OBVIOUS
    <3>2. from # 0
        BY <2>4, <3>1
    <3>3. k[q].id < k[from + 1].id
        BY <1>2, <2>3, <2>4, <3>1 DEF Rising
    <3> QED BY <1>6, <2>3, <2>4, <2>5, <3>2, <3>3
  <2>7. ~(from + Len(p) < q)
    <3>1. SUFFICES ASSUME from + Len(p) < q
                   PROVE  FALSE
        OBVIOUS
    <3>2. k[from + Len(p)].id < k[q].id
        BY <1>2, <2>3, <2>4, <3>1 DEF Rising
    <3> QED BY <1>6, <2>3, <2>4, <2>5, <3>2
  <2>8. q - from \in 1 .. Len(p) /\ from + (q - from) = q
      BY <1>3, <2>4, <2>6, <2>7
  <2>9. p[q - from] = rows[i]
      BY <1>3, <2>3, <2>8
  <2> QED BY <1>3, <2>8, <2>9
<1> QED BY <1>4, <1>5, <1>6 DEF Covers

\* The rows that a list is to show, and the function that it asks.
OnList(t, row) == t = "route" => row.of[1] = Outside
ListOf(t) == IF t = "route" THEN cmd_routePage ELSE cmd_atbPage

\* The numbers that have been shown.
Numbers(list) == {list.seen[i] : i \in DOMAIN list.seen}

\* What is shown has rising numbers, up to the last.
ListOK(list) ==
  /\ list = [last |-> list.last, from |-> list.from, seen |-> list.seen, fresh |-> list.fresh, late |-> list.late]
  /\ list.last \in Nat /\ list.from \in Nat /\ list.seen \in Seq(Nat)
  /\ \A i \in DOMAIN list.seen : list.seen[i] <= list.last
  /\ \A i, j \in DOMAIN list.seen : i < j => list.seen[i] < list.seen[j]

\* Every row in its range has been shown, or was stored meanwhile.
Covered(t, list, rows) ==
  \A i \in DOMAIN rows :
    rows[i].id \in list.from .. list.last /\ OnList(t, rows[i]) => rows[i].id \in Numbers(list) \cup list.fresh

\* What a page is asked for with.
PageAsked(t, list, u, c) ==
  /\ c.fn = ListOf(t).fn /\ c.cond = <<Outside, Outside>> /\ c.answer = 0 /\ c.limit = PageLength /\ c.from \in Nat
  /\ u.cmd = "page" => c.mask = ListOf(t).mask
  /\ u.cmd = "next" => c.mask = ListOf(t).mask \cup {"id>"} /\ c.from = 0 /\ c.list[1] = list.last
  /\ c.step = "select" => c.found = <<>>

\* Of the rows to show, a page has all up to its last one, from its first one on or behind
\* the last page, but for those stored since.
PageFound(P, t, list, rows, u, c) ==
  /\ RowsOK(P, c.found)
  /\ u.cmd = "next" => \A j \in DOMAIN c.found : c.list[1] < c.found[j].id
  /\ c.found # <<>> =>
       \A i \in DOMAIN rows :
         /\ OnList(t, rows[i]) /\ rows[i].id <= c.found[Len(c.found)].id
         /\ IF u.cmd = "next" THEN c.list[1] < rows[i].id ELSE c.found[1].id <= rows[i].id
         => rows[i].id \in list.late \/ \E j \in DOMAIN c.found : c.found[j].id = rows[i].id

\* A thread that lists.
Lists == {"page", "next"}
PageOK(P, t, list, rows, u, c) ==
  u.cmd \in Lists =>
    /\ c.step \in {"select", "found", "returned"} /\ PageAsked(t, list, u, c)
    /\ c.step # "select" => PageFound(P, t, list, rows, u, c)

ListIInv(P) ==
  /\ ListOK(paged) /\ Covered(focus, paged, stored[focus])
  /\ PageOK(P, focus, paged, stored[focus], user, call)
  /\ PageOK(P, focus, paged, stored[focus], away.user, away.call)
  /\ user.cmd \notin Lists \/ away.user.cmd \notin Lists

\* A page bears that rows go, and rows that are noted come, while it is read.
LEMMA PageKept ==
    ASSUME NEW P, NEW t, NEW list, NEW rows, NEW u, NEW c, PageOK(P, t, list, rows, u, c),
           NEW v, NEW d, v.cmd \in Lists => v = u /\ (d = c \/ SameCall(c, d)),
           NEW after, after.last = list.last, list.late \subseteq after.late, NEW later,
           \A i \in DOMAIN later : later[i] \in Entries(rows) \/ (u.cmd \in Lists => later[i].id \in after.late)
    PROVE  PageOK(P, t, after, later, v, d)
<1>1. SUFFICES ASSUME v.cmd \in Lists
               PROVE  /\ d.step \in {"select", "found", "returned"} /\ PageAsked(t, after, v, d)
                      /\ d.step # "select" => PageFound(P, t, after, later, v, d)
    BY DEF PageOK
<1>2. /\ v = u /\ u.cmd \in Lists
      /\ d.step = c.step /\ d.fn = c.fn /\ d.mask = c.mask /\ d.cond = c.cond /\ d.list = c.list
      /\ d.found = c.found /\ d.from = c.from /\ d.limit = c.limit /\ d.answer = c.answer
    BY <1>1 DEF SameCall
<1>3. /\ c.step \in {"select", "found", "returned"} /\ PageAsked(t, list, u, c)
      /\ c.step # "select" => PageFound(P, t, list, rows, u, c)
    BY <1>2 DEF PageOK
<1>4. PageAsked(t, after, v, d)
    BY <1>2, <1>3 DEF PageAsked
<1>5. ASSUME c.step # "select", c.found # <<>>, NEW i \in DOMAIN later,
             OnList(t, later[i]), later[i].id <= c.found[Len(c.found)].id,
             IF u.cmd = "next" THEN c.list[1] < later[i].id ELSE c.found[1].id <= later[i].id
      PROVE  later[i].id \in after.late \/ \E j \in DOMAIN c.found : c.found[j].id = later[i].id
  <2>1. CASE later[i] \in Entries(rows)
    <3>1. PICK k \in DOMAIN rows : later[i] = rows[k]
        BY <2>1 DEF Entries
    <3>2. PageFound(P, t, list, rows, u, c)
        BY <1>3, <1>5
    <3>3. rows[k].id \in list.late \/ \E j \in DOMAIN c.found : c.found[j].id = rows[k].id
        BY <1>5, <3>1, <3>2 DEF PageFound
    <3> QED BY <3>1, <3>3
  <2>2. CASE later[i].id \in after.late
      BY <2>2
  <2> QED BY <1>2, <1>5, <2>1, <2>2
<1>6. d.step # "select" => PageFound(P, t, after, later, v, d)
    BY <1>2, <1>3, <1>5 DEF PageFound
<1> QED BY <1>2, <1>3, <1>4, <1>6

\* Neither the table nor the list changes.
LEMMA ListStays ==
    ASSUME NEW P, ListIInv(P), paged' = paged, focus' = focus, stored'[focus] = stored[focus],
           user'.cmd \in Lists => user' = user /\ call' = call,
           away'.user.cmd \in Lists => away'.user = away.user /\ away'.call = away.call
    PROVE  ListIInv(P)'
<1>1. /\ ListOK(paged) /\ Covered(focus, paged, stored[focus])
      /\ PageOK(P, focus, paged, stored[focus], user, call)
      /\ PageOK(P, focus, paged, stored[focus], away.user, away.call)
      /\ user.cmd \notin Lists \/ away.user.cmd \notin Lists
    BY DEF ListIInv
<1>2. PageOK(P, focus, paged, stored[focus], user', call')
    BY <1>1 DEF PageOK
<1>3. PageOK(P, focus, paged, stored[focus], away'.user, away'.call)
    BY <1>1 DEF PageOK
<1>4. user'.cmd \notin Lists \/ away'.user.cmd \notin Lists
    BY <1>1
<1> QED BY <1>1, <1>2, <1>3, <1>4 DEF ListIInv

\* What the assumption on the lists' functions says of the table's.
LEMMA ListOfIs ==
    ASSUME focus \in {"route", "a_trigger_b"}
    PROVE  /\ ListOf(focus).fn \in DOMAIN Functions /\ Functions[ListOf(focus).fn].kind = "select"
           /\ Functions[ListOf(focus).fn].into = "page" /\ Functions[ListOf(focus).fn].table = focus
           /\ ListOf(focus).mask \subseteq DOMAIN Functions[ListOf(focus).fn].where
           /\ focus = "route" => ListOf(focus).mask = {"frame_a", "slot_a", "type_a"}
           /\ focus = "a_trigger_b" => ListOf(focus).mask = {}
<1>1. cmd_routePage # cmd_atbPage
    BY DEF cmd_routePage, cmd_atbPage
<1>2. ListOf(focus) \in {cmd_routePage, cmd_atbPage}
    BY DEF ListOf
<1>3. focus = "route" => ListOf(focus) = cmd_routePage
    BY DEF ListOf
<1>4. focus = "a_trigger_b" => ListOf(focus) = cmd_atbPage
    BY DEF ListOf
<1>5. /\ ListOf(focus).fn \in DOMAIN Functions /\ Functions[ListOf(focus).fn].kind = "select"
      /\ Functions[ListOf(focus).fn].into = "page" /\ ListOf(focus).mask \subseteq DOMAIN Functions[ListOf(focus).fn].where
      /\ Functions[ListOf(focus).fn].table = IF ListOf(focus) = cmd_routePage THEN "route" ELSE "a_trigger_b"
    BY <1>2, ListFunctions
<1>6. cmd_routePage.mask = {"frame_a", "slot_a", "type_a"} /\ cmd_atbPage.mask = {}
    BY DEF cmd_routePage, cmd_atbPage
<1> QED BY <1>1, <1>3, <1>4, <1>5, <1>6

\* The page that a list asks for.
LEMMA PageIs ==
    ASSUME NEW P, DbIInv(P), focus \in {"route", "a_trigger_b"}, ListIInv(P),
           user.cmd \in {"page", "next"}, call.step = "select"
    PROVE  /\ RowsOK(P, Hits)
           /\ user.cmd = "next" => \A j \in DOMAIN Hits : call.list[1] < Hits[j].id
           /\ Hits # <<>> =>
                \A i \in DOMAIN stored[focus] :
                  /\ OnList(focus, stored[focus][i]) /\ stored[focus][i].id <= Hits[Len(Hits)].id
                  /\ IF user.cmd = "next" THEN call.list[1] < stored[focus][i].id
                     ELSE Hits[1].id <= stored[focus][i].id
                  => \E j \in DOMAIN Hits : Hits[j].id = stored[focus][i].id
<1> DEFINE rows == stored[focus]
           R == MetRows(rows, call)
           S == [id : Nat, of : P]
           n == Most(F, call, Len(Kept(rows, R)))
<1>1. /\ call.fn = ListOf(focus).fn /\ call.cond = <<Outside, Outside>> /\ call.answer = 0
      /\ call.limit = PageLength /\ call.from \in Nat
      /\ user.cmd = "page" => call.mask = ListOf(focus).mask
      /\ user.cmd = "next" => call.mask = ListOf(focus).mask \cup {"id>"} /\ call.from = 0
    BY DEF ListIInv, PageOK, Lists, PageAsked
<1>2. /\ F.into = "page" /\ F.table = focus /\ ListOf(focus).mask \subseteq DOMAIN F.where
    BY <1>1, ListOfIs DEF F
<1>3. Fits(F, call.mask)
    BY <1>1, <1>2 DEF Fits
<1>4. SelectOK(F, call)
    BY <1>1, <1>2, <1>3, RouteAssumption DEF SelectOK
<1>5. n \in Nat /\ IsPiece(S, Kept(rows, R), call.from, n, Hits)
    BY <1>4, HitsAre
<1>6. RowsOK(P, rows) /\ R \subseteq DOMAIN rows
    BY DEF DbIInv, TablesOK, MetRows
<1>7. NotCompared(focus, call.mask) = {}
    BY DEF NotCompared, LeftOut, Replaced
<1>8. ASSUME NEW i \in DOMAIN rows, OnList(focus, rows[i]), user.cmd = "next" => call.list[1] < rows[i].id
      PROVE  i \in R
  <2>1. ASSUME NEW m \in ListOf(focus).mask
        PROVE  m # "id" /\ Value(focus, rows[i].of, m) = Value(focus, call.cond, m)
    <3>1. focus = "route" /\ m \in {"frame_a", "slot_a", "type_a"}
        BY <2>1, ListOfIs
    <3>2. m \in ToSet(PortA)
        BY <3>1 DEF ToSet, PortA
    <3>3. Part(focus, m) = 1 /\ call.cond[1] = Outside /\ rows[i].of[1] = Outside
        BY <1>1, <1>8, <3>1, <3>2 DEF Part, OnList
    <3> HIDE DEF rows
    <3> QED BY <3>1, <3>3 DEF Value
  <2>2. call.mask \ {"id>", "NULL"} \subseteq ListOf(focus).mask
      BY <1>1
  <2>3. "id>" \in call.mask => user.cmd = "next"
    <3>1. "id>" \notin ListOf(focus).mask
        BY ListOfIs
    <3> QED BY <1>1, <3>1
  <2>4. "id>" \in call.mask => rows[i].id > call.list[1]
    <3>1. SUFFICES ASSUME "id>" \in call.mask
                   PROVE  rows[i].id > call.list[1]
        OBVIOUS
    <3>2. call.list[1] < rows[i].id
        BY <1>8, <2>3, <3>1
    <3>3. rows[i].id \in Nat
        BY <1>6, EntryOK DEF RowsOK
    <3>4. call.list[1] = paged.last /\ paged.last \in Nat
        BY <2>3, <3>1 DEF ListIInv, PageOK, Lists, PageAsked, ListOK
    <3> HIDE DEF rows
    <3> QED BY <3>2, <3>3, <3>4
  <2>5. AskedOf(focus, call.cond, call.mask, rows[i], call.list[1])
    <3> HIDE DEF rows
    <3> QED BY <2>1, <2>2, <2>4 DEF AskedOf
  <2>6. call.mask \ NotCompared(focus, call.mask) = call.mask
      BY <1>7
  <2> HIDE DEF rows
  <2> QED BY <2>5, <2>6 DEF MetRows
<1>9. ASSUME user.cmd = "next", NEW i \in R
      PROVE  call.list[1] < rows[i].id
  <2>1. "id>" \in call.mask \ NotCompared(focus, call.mask) /\ call.mask # NULL
      BY <1>1, <1>7, <1>9 DEF NULL
  <2>2. rows[i].id > call.list[1]
      BY <1>9, <2>1 DEF MetRows, AskedOf
  <2>3. rows[i].id \in Nat
      BY <1>6, EntryOK DEF RowsOK
  <2>4. call.list[1] = paged.last /\ paged.last \in Nat
      BY <1>9 DEF ListIInv, PageOK, Lists, PageAsked, ListOK
  <2> HIDE DEF rows
  <2> QED BY <2>2, <2>3, <2>4
<1> HIDE DEF rows, R, n
<1>10. /\ RowsOK(P, Hits)
       /\ \A j \in DOMAIN Hits : \E i \in R : Hits[j] = rows[i]
       /\ Hits # <<>> =>
            \A i \in R : (call.from = 0 \/ Hits[1].id <= rows[i].id) /\ rows[i].id <= Hits[Len(Hits)].id
                           => \E j \in DOMAIN Hits : Hits[j] = rows[i]
  <2>1. PICK from \in Nat : from = call.from
      BY <1>1
  <2>2. PICK number \in Nat : number = n
      BY <1>5
  <2>3. IsPiece([id : Nat, of : P], Kept(rows, R), from, number, Hits)
      BY <1>5, <2>1, <2>2
  <2>4. PICK t, places, page : t = rows /\ places = R /\ page = Hits
      OBVIOUS
  <2>5. RowsOK(P, t) /\ places \subseteq DOMAIN t /\ IsPiece([id : Nat, of : P], Kept(t, places), from, number, page)
      BY <1>6, <2>3, <2>4
  <2>6. Covers(P, t, places, from, page)
      BY <2>5, PieceCovers
  <2>7. Covers(P, rows, R, call.from, Hits)
      BY <2>1, <2>4, <2>6
  <2> QED BY <2>7 DEF Covers
<1>11. user.cmd = "next" => \A j \in DOMAIN Hits : call.list[1] < Hits[j].id
    BY <1>9, <1>10
<1>12. ASSUME Hits # <<>>, NEW i \in DOMAIN rows, OnList(focus, rows[i]), rows[i].id <= Hits[Len(Hits)].id,
              IF user.cmd = "next" THEN call.list[1] < rows[i].id ELSE Hits[1].id <= rows[i].id
       PROVE  \E j \in DOMAIN Hits : Hits[j].id = rows[i].id
  <2>1. i \in R
      BY <1>8, <1>12
  <2>2. call.from = 0 \/ Hits[1].id <= rows[i].id
      BY <1>1, <1>12
  <2> QED BY <1>10, <1>12, <2>1, <2>2
<1> QED BY <1>10, <1>11, <1>12 DEF rows

\* Rows that are shown come behind those that were.
Shown(list, found, shown) ==
  /\ ListOK(shown) /\ Numbers(shown) = Numbers(list) \cup {found[j].id : j \in DOMAIN found}
  /\ shown.last = found[Len(found)].id /\ shown.from = list.from /\ shown.fresh = list.fresh /\ shown.late = list.late

LEMMA ShownOK ==
    ASSUME NEW P, NEW list, ListOK(list), NEW found, RowsOK(P, found), found # <<>>,
           \A i \in DOMAIN list.seen : \A j \in DOMAIN found : list.seen[i] < found[j].id
    PROVE  Shown(list, found, _cb_Select_route_page_brief(list, found))
<1> DEFINE ids == [i \in DOMAIN found |-> found[i].id]
           seen == list.seen
           n == Len(seen)
           k == Len(found)
           both == seen \o ids
           shown == _cb_Select_route_page_brief(list, found)
<1>1. /\ found \in Seq([id : Nat, of : P]) /\ Rising(found)
      /\ list = [last |-> list.last, from |-> list.from, seen |-> seen, fresh |-> list.fresh, late |-> list.late]
      /\ list.from \in Nat /\ seen \in Seq(Nat)
      /\ \A i, j \in DOMAIN seen : i < j => seen[i] < seen[j]
    BY DEF RowsOK, ListOK
<1>2. n \in Nat /\ DOMAIN seen = 1 .. n /\ k \in Nat \ {0} /\ DOMAIN found = 1 .. k
  <2> HIDE DEF seen
  <2>1. Len(found) # 0
      BY <1>1
  <2> QED BY <1>1, <2>1
<1>3. \A j \in 1 .. k : found[j].id \in Nat
    BY <1>1, <1>2, EntryOK
<1>4. ids \in Seq(Nat) /\ Len(ids) = k
  <2>1. ids \in [1 .. k -> Nat]
      BY <1>2, <1>3
  <2> HIDE DEF ids, k
  <2> QED BY <1>2, <2>1
<1>5. /\ shown = [last |-> Last(found).id, from |-> list.from, seen |-> both, fresh |-> list.fresh, late |-> list.late]
      /\ Last(found) = found[k]
  <2> HIDE DEF seen, ids
  <2>1. list.seen = seen
      BY DEF seen
  <2>2. shown = [list EXCEPT !.last = Last(found).id, !.seen = @ \o ids]
      BY DEF _cb_Select_route_page_brief, ids
  <2> HIDE DEF shown
  <2>3. shown = [last |-> Last(found).id, from |-> list.from, seen |-> both, fresh |-> list.fresh, late |-> list.late]
      BY <1>1, <2>1, <2>2
  <2>4. Last(found) = found[k]
      BY DEF Last
  <2> QED BY <2>3, <2>4
<1>6. \A j \in 1 .. k : ids[j] = found[j].id
    BY <1>2
<1>7. \A i \in 1 .. n : \A j \in 1 .. k : seen[i] < found[j].id
    BY <1>2
<1>8. \A i, j \in 1 .. k : i < j => found[i].id < found[j].id
    BY <1>1, <1>2 DEF Rising
<1>9. \A i \in 1 .. n : seen[i] \in Nat
    BY <1>1, <1>2
<1> HIDE DEF seen, ids, k, n, shown
<1>10. both \in Seq(Nat) /\ Len(both) = n + k /\ DOMAIN both = 1 .. n + k
  <2>1. seen \in Seq(Nat) /\ ids \in Seq(Nat) /\ Len(seen) = n /\ Len(ids) = k
      BY <1>1, <1>4 DEF n, seen
  <2> QED BY <2>1
<1>11. \A i \in 1 .. n + k : both[i] = IF i <= n THEN seen[i] ELSE found[i - n].id
  <2>1. seen \in Seq(Nat) /\ ids \in Seq(Nat) /\ Len(seen) = n /\ Len(ids) = k
      BY <1>1, <1>4 DEF n, seen
  <2>2. \A i \in 1 .. Len(seen) + Len(ids) :
          (seen \o ids)[i] = IF i <= Len(seen) THEN seen[i] ELSE ids[i - Len(seen)]
    <3>1. seen \in Seq(Nat) /\ ids \in Seq(Nat)
        BY <2>1
    <3> QED BY <3>1
  <2>3. \A i \in 1 .. n + k : ~(i <= n) => i - n \in 1 .. k
      BY <1>2
  <2>4. \A i \in 1 .. n + k : both[i] = IF i <= n THEN seen[i] ELSE ids[i - n]
      BY <2>1, <2>2
  <2> QED BY <1>6, <2>3, <2>4
<1> HIDE DEF both
<1>12. \A i \in 1 .. n + k : both[i] <= found[k].id
  <2> TAKE i \in 1 .. n + k
  <2>1. CASE i <= n
    <3>1. i \in 1 .. n /\ k \in 1 .. k /\ both[i] = seen[i]
        BY <1>2, <1>11, <2>1
    <3>2. seen[i] < found[k].id /\ seen[i] \in Nat /\ found[k].id \in Nat
        BY <1>3, <1>7, <1>9, <3>1
    <3> QED BY <3>1, <3>2
  <2>2. CASE ~(i <= n)
    <3>1. i - n \in 1 .. k /\ k \in 1 .. k /\ both[i] = found[i - n].id
        BY <1>2, <1>11, <2>2
    <3>2. found[i - n].id \in Nat /\ found[k].id \in Nat
        BY <1>3, <3>1
    <3>3. CASE i - n = k
        BY <3>1, <3>2, <3>3
    <3>4. CASE i - n < k
        BY <1>8, <3>1, <3>2, <3>4
    <3> QED BY <1>2, <3>1, <3>3, <3>4
  <2> QED BY <2>1, <2>2
<1>13. \A i, j \in 1 .. n + k : i < j => both[i] < both[j]
  <2> TAKE i \in 1 .. n + k, j \in 1 .. n + k
  <2>1. SUFFICES ASSUME i < j
                 PROVE  both[i] < both[j]
      OBVIOUS
  <2>2. CASE j <= n
    <3>1. i \in 1 .. n /\ j \in 1 .. n /\ both[i] = seen[i] /\ both[j] = seen[j]
        BY <1>2, <1>11, <2>1, <2>2
    <3>2. seen[i] < seen[j]
        BY <1>1, <1>2, <2>1, <3>1
    <3> QED BY <3>1, <3>2
  <2>3. CASE i <= n /\ ~(j <= n)
    <3>1. i \in 1 .. n /\ j - n \in 1 .. k /\ both[i] = seen[i] /\ both[j] = found[j - n].id
        BY <1>2, <1>11, <2>1, <2>3
    <3> QED BY <1>7, <3>1
  <2>4. CASE ~(i <= n)
    <3>1. i - n \in 1 .. k /\ j - n \in 1 .. k /\ i - n < j - n
        BY <1>2, <2>1, <2>4
    <3>2. both[i] = found[i - n].id /\ both[j] = found[j - n].id
        BY <1>2, <1>11, <2>1, <2>4
    <3> QED BY <1>8, <3>1, <3>2
  <2> QED BY <2>2, <2>3, <2>4
<1>14. /\ shown.last = found[k].id /\ shown.from = list.from /\ shown.seen = both /\ shown.fresh = list.fresh /\ shown.late = list.late
       /\ shown = [last |-> shown.last, from |-> shown.from, seen |-> shown.seen, fresh |-> shown.fresh, late |-> shown.late]
    BY <1>5
<1>15. ListOK(shown)
  <2>1. found[k].id \in Nat
      BY <1>2, <1>3
  <2> QED BY <1>1, <1>10, <1>12, <1>13, <1>14, <2>1 DEF ListOK
<1>16. {both[i] : i \in 1 .. n + k} = {seen[i] : i \in 1 .. n} \cup {found[j].id : j \in 1 .. k}
  <2>1. ASSUME NEW i \in 1 .. n + k
        PROVE  both[i] \in {seen[a] : a \in 1 .. n} \cup {found[j].id : j \in 1 .. k}
    <3>1. CASE i <= n
      <4>1. i \in 1 .. n /\ both[i] = seen[i]
          BY <1>2, <1>11, <3>1
      <4> QED BY <4>1
    <3>2. CASE ~(i <= n)
      <4>1. i - n \in 1 .. k /\ both[i] = found[i - n].id
          BY <1>2, <1>11, <3>2
      <4> QED BY <4>1
    <3> QED BY <3>1, <3>2
  <2>2. ASSUME NEW i \in 1 .. n
        PROVE  seen[i] \in {both[a] : a \in 1 .. n + k}
    <3>1. i \in 1 .. n + k /\ i <= n
        BY <1>2
    <3>2. both[i] = seen[i]
        BY <1>11, <3>1
    <3> QED BY <3>1, <3>2
  <2>3. ASSUME NEW j \in 1 .. k
        PROVE  found[j].id \in {both[a] : a \in 1 .. n + k}
    <3>1. n + j \in 1 .. n + k /\ ~(n + j <= n) /\ (n + j) - n = j
        BY <1>2
    <3>2. both[n + j] = found[j].id
        BY <1>11, <3>1
    <3> QED BY <3>1, <3>2
  <2> QED BY <2>1, <2>2, <2>3
<1>17. Numbers(shown) = Numbers(list) \cup {found[j].id : j \in DOMAIN found}
    BY <1>2, <1>10, <1>14, <1>16 DEF Numbers, seen
<1> QED BY <1>14, <1>15, <1>17 DEF shown, k, Shown

\* What is noted of new rows.
LEMMA NotedIs ==
    ASSUME ListOK(paged), paged' = Noted
    PROVE  /\ ListOK(paged') /\ Numbers(paged') = Numbers(paged)
           /\ paged'.last = paged.last /\ paged'.from = paged.from
           /\ paged.fresh \subseteq paged'.fresh /\ paged.late \subseteq paged'.late
           /\ \A id \in New : /\ id <= paged.last => id \in paged'.fresh
                              /\ Listing => id \in paged'.late
           /\ stored' = stored => paged' = paged
<1>1. PICK fresh, late :
        /\ fresh = paged.fresh \cup {id \in New : id <= paged.last}
        /\ late = IF Listing THEN paged.late \cup New ELSE paged.late
    OBVIOUS
<1>2. paged' = [paged EXCEPT !.fresh = fresh, !.late = late]
    BY <1>1 DEF Noted
<1>3. paged = [last |-> paged.last, from |-> paged.from, seen |-> paged.seen, fresh |-> paged.fresh, late |-> paged.late]
    BY DEF ListOK
<1>4. /\ paged' = [last |-> paged'.last, from |-> paged'.from, seen |-> paged'.seen, fresh |-> paged'.fresh, late |-> paged'.late]
      /\ paged'.last = paged.last /\ paged'.from = paged.from /\ paged'.seen = paged.seen
      /\ paged'.fresh = fresh /\ paged'.late = late
    BY <1>2, <1>3
<1>5. ListOK(paged') /\ Numbers(paged') = Numbers(paged)
    BY <1>4 DEF ListOK, Numbers
<1>6. \A id \in New : (id <= paged.last => id \in fresh) /\ (Listing => id \in late)
    BY <1>1
<1>7. ASSUME stored' = stored
      PROVE  paged' = paged
  <2>1. New = {}
      BY <1>7 DEF New
  <2>2. fresh = paged.fresh /\ late = paged.late
      BY <1>1, <2>1
  <2> QED BY <1>3, <1>4, <2>2
<1> QED BY <1>1, <1>4, <1>5, <1>6, <1>7

\* Rows are stored or taken away, not by a thread that lists.
LEMMA ListWritten ==
    ASSUME NEW P, ListIInv(P), paged' = Noted, focus' = focus,
           user' = user, user.cmd \in Lists => call' = call \/ SameCall(call, call'),
           away'.user = away.user,
           away.user.cmd \in Lists => away'.call = away.call \/ SameCall(away.call, away'.call)
    PROVE  ListIInv(P)'
<1>1. /\ ListOK(paged) /\ Covered(focus, paged, stored[focus])
      /\ PageOK(P, focus, paged, stored[focus], user, call)
      /\ PageOK(P, focus, paged, stored[focus], away.user, away.call)
      /\ user.cmd \notin Lists \/ away.user.cmd \notin Lists
    BY DEF ListIInv
<1>2. /\ ListOK(paged') /\ Numbers(paged') = Numbers(paged)
      /\ paged'.last = paged.last /\ paged'.from = paged.from
      /\ paged.fresh \subseteq paged'.fresh /\ paged.late \subseteq paged'.late
      /\ \A id \in New : (id <= paged.last => id \in paged'.fresh) /\ (Listing => id \in paged'.late)
    BY <1>1, NotedIs
<1>3. \A i \in DOMAIN stored'[focus] : stored'[focus][i] \in Entries(stored[focus]) \/ stored'[focus][i].id \in New
    BY DEF New, ToSet, Entries
<1>4. Covered(focus, paged', stored'[focus])
  <2>1. SUFFICES ASSUME NEW i \in DOMAIN stored'[focus], stored'[focus][i].id \in paged'.from .. paged'.last,
                        OnList(focus, stored'[focus][i])
                 PROVE  stored'[focus][i].id \in Numbers(paged') \cup paged'.fresh
      BY DEF Covered
  <2>2. CASE stored'[focus][i] \in Entries(stored[focus])
    <3>1. PICK j \in DOMAIN stored[focus] : stored'[focus][i] = stored[focus][j]
        BY <2>2 DEF Entries
    <3>2. stored[focus][j].id \in paged.from .. paged.last /\ OnList(focus, stored[focus][j])
        BY <1>2, <2>1, <3>1
    <3>3. stored[focus][j].id \in Numbers(paged) \cup paged.fresh
        BY <1>1, <3>2 DEF Covered
    <3> QED BY <1>2, <3>1, <3>3
  <2>3. CASE stored'[focus][i].id \in New
    <3>1. paged.from \in Nat /\ paged.last \in Nat
        BY <1>1 DEF ListOK
    <3>2. stored'[focus][i].id <= paged.last
        BY <1>2, <2>1, <3>1
    <3> QED BY <1>2, <2>3, <3>2
  <2> QED BY <1>3, <2>2, <2>3
<1>5. user.cmd \in Lists \/ away.user.cmd \in Lists => Listing
    BY DEF Listing, Lists
<1>6. \A i \in DOMAIN stored'[focus] : stored'[focus][i] \in Entries(stored[focus])
                                       \/ (Listing => stored'[focus][i].id \in paged'.late)
    BY <1>2, <1>3
<1> HIDE DEF Listing
<1>7. PageOK(P, focus, paged', stored'[focus], user', call')
  <2>1. \A i \in DOMAIN stored'[focus] : stored'[focus][i] \in Entries(stored[focus])
                                         \/ (user.cmd \in Lists => stored'[focus][i].id \in paged'.late)
      BY <1>5, <1>6
  <2>2. PICK list, rows, u, c, v, d, after, later :
          /\ list = paged /\ rows = stored[focus] /\ u = user /\ c = call
          /\ v = user' /\ d = call' /\ after = paged' /\ later = stored'[focus]
      OBVIOUS
  <2>3. /\ PageOK(P, focus, list, rows, u, c) /\ (v.cmd \in Lists => v = u /\ (d = c \/ SameCall(c, d)))
        /\ after.last = list.last /\ list.late \subseteq after.late
        /\ \A i \in DOMAIN later : later[i] \in Entries(rows) \/ (u.cmd \in Lists => later[i].id \in after.late)
      BY <1>1, <1>2, <2>1, <2>2
  <2>4. PageOK(P, focus, after, later, v, d)
      BY <2>3, PageKept
  <2> QED BY <2>2, <2>4
<1>8. PageOK(P, focus, paged', stored'[focus], away'.user, away'.call)
  <2>1. \A i \in DOMAIN stored'[focus] : stored'[focus][i] \in Entries(stored[focus])
                                         \/ (away.user.cmd \in Lists => stored'[focus][i].id \in paged'.late)
      BY <1>5, <1>6
  <2>2. PICK list, rows, u, c, v, d, after, later :
          /\ list = paged /\ rows = stored[focus] /\ u = away.user /\ c = away.call
          /\ v = away'.user /\ d = away'.call /\ after = paged' /\ later = stored'[focus]
      OBVIOUS
  <2>3. /\ PageOK(P, focus, list, rows, u, c) /\ (v.cmd \in Lists => v = u /\ (d = c \/ SameCall(c, d)))
        /\ after.last = list.last /\ list.late \subseteq after.late
        /\ \A i \in DOMAIN later : later[i] \in Entries(rows) \/ (u.cmd \in Lists => later[i].id \in after.late)
      BY <1>1, <1>2, <2>1, <2>2
  <2>4. PageOK(P, focus, after, later, v, d)
      BY <2>3, PageKept
  <2> QED BY <2>2, <2>4
<1>9. user'.cmd \notin Lists \/ away'.user.cmd \notin Lists
    BY <1>1
<1> QED BY <1>2, <1>4, <1>7, <1>8, <1>9 DEF ListIInv

\* A page is asked for.
LEMMA ListBegins ==
    ASSUME NEW P, ListIInv(P), focus \in {"route", "a_trigger_b"}, ListPage
    PROVE  /\ ListIInv(P)' /\ user'.cmd \in Lists /\ UNCHANGED <<focus, stored, lock, away>>
           /\ user = Ready /\ call.step = "idle"
           /\ IsCall(call') /\ call'.step = "select" /\ call'.fn = ListOf(focus).fn
<1>1. /\ user = Ready /\ call.step = "idle" /\ UNCHANGED <<paged, focus, stored, lock, away>>
      /\ (\E from \in 0 .. 1 : PageOf("page", 0, from)) \/ PageOf("next", paged.last, 0)
      /\ away.user.cmd \notin Lists
    BY DEF ListPage, Asking, Apart, Lists
<1>2. PICK cmd, id, from :
        /\ PageOf(cmd, id, from) /\ from \in Nat
        /\ cmd = "page" \/ (cmd = "next" /\ id = paged.last /\ from = 0)
    BY <1>1
<1>3. user'.cmd = cmd
    BY <1>2, CommandIs DEF PageOf
<1> DEFINE mask == IF cmd = "next" THEN ListOf(focus).mask \cup {"id>"} ELSE ListOf(focus).mask
<1>4. StartPage(ListOf(focus).fn, mask, <<Outside, Outside>>, id, from, PageLength)
    BY <1>2 DEF PageOf, ListOf
<1> HIDE DEF mask
<1>5. /\ IsCall(call') /\ call'.step = "select" /\ call'.fn = ListOf(focus).fn /\ call'.mask = mask
      /\ call'.cond = <<Outside, Outside>> /\ call'.from = from /\ call'.limit = PageLength
      /\ call'.answer = 0 /\ call'.found = <<>> /\ call'.list[1] = id
    BY <1>4, PageStarts
<1>6. PageAsked(focus, paged, user', call')
    BY <1>2, <1>3, <1>5 DEF PageAsked, mask
<1>7. PageOK(P, focus, paged, stored[focus], user', call')
    BY <1>5, <1>6 DEF PageOK
<1>8. /\ ListOK(paged) /\ Covered(focus, paged, stored[focus])
      /\ PageOK(P, focus, paged, stored[focus], away.user, away.call)
    BY DEF ListIInv
<1>9. ListIInv(P)'
    BY <1>1, <1>7, <1>8 DEF ListIInv
<1>10. user'.cmd \in Lists
    BY <1>2, <1>3 DEF Lists
<1> QED BY <1>1, <1>5, <1>9, <1>10

\* A page is found, or not, and passed on.
LEMMA ListFound ==
    ASSUME NEW P, DbIInv(P), focus \in {"route", "a_trigger_b"}, ListIInv(P),
           user.cmd \in Lists, Select \/ Finalize, UNCHANGED <<user, paged, away>>
    PROVE  ListIInv(P)'
<1>1. /\ IsCall(call) /\ UNCHANGED <<focus, stored>> /\ call.step \in {"select", "found"}
      /\ PageAsked(focus, paged, user, call)
      /\ call.step # "select" => PageFound(P, focus, paged, stored[focus], user, call)
      /\ call.step = "select" => call.found = <<>>
    BY DEF DbIInv, CallOK, ListIInv, PageOK, PageAsked, Select, Finalize
<1>2. /\ call'.step \in {"found", "returned"} /\ call'.fn = call.fn /\ call'.cond = call.cond
      /\ call'.answer = call.answer /\ call'.limit = call.limit /\ call'.from = call.from
      /\ call'.mask = call.mask /\ call'.list = call.list
      /\ call'.found = call.found \/ (call.step = "select" /\ call'.found = Hits)
  <2>1. \A r : Return(r) =>
          /\ call'.step = "returned" /\ call'.fn = call.fn /\ call'.cond = call.cond
          /\ call'.answer = call.answer /\ call'.limit = call.limit /\ call'.from = call.from
          /\ call'.mask = call.mask /\ call'.list = call.list /\ call'.found = call.found
      BY <1>1 DEF Return, IsCall
  <2>2. CASE Finalize
      BY <2>1, <2>2 DEF Finalize
  <2>3. CASE Select
    <3>1. CASE call' = [call EXCEPT !.step = "returned", !.ret = Result(<<>>), !.refused = TRUE]
        BY <1>1, <3>1 DEF IsCall
    <3>2. CASE call' = [call EXCEPT !.step = "found", !.found = Hits]
      <4>1. call.step = "select"
          BY <2>3 DEF Select
      <4> QED BY <1>1, <3>2, <4>1 DEF IsCall
    <3> QED BY <2>1, <2>3, <3>1, <3>2 DEF Select
  <2> QED BY <2>2, <2>3
<1>3. PageAsked(focus, paged, user, call')
    BY <1>1, <1>2 DEF PageAsked
<1>4. PageFound(P, focus, paged, stored[focus], user, call')
  <2>1. CASE call.step # "select"
      BY <1>1, <1>2, <2>1 DEF PageFound
  <2>2. CASE call.step = "select" /\ call'.found = Hits
    <3>1. user.cmd \in {"page", "next"}
        BY DEF Lists
    <3> QED BY <1>2, <2>2, <3>1, PageIs DEF PageFound
  <2>3. CASE call.step = "select" /\ call'.found = <<>>
    <3>1. RowsOK(P, <<>>)
        BY DEF RowsOK, Rising
    <3> QED BY <2>3, <3>1 DEF PageFound
  <2> QED BY <1>1, <1>2, <2>1, <2>2, <2>3
<1>5. PageOK(P, focus, paged, stored[focus], user, call')
    BY <1>2, <1>3, <1>4 DEF PageOK
<1>6. /\ ListOK(paged) /\ Covered(focus, paged, stored[focus])
      /\ PageOK(P, focus, paged, stored[focus], away.user, away.call)
      /\ user.cmd \notin Lists \/ away.user.cmd \notin Lists
    BY DEF ListIInv
<1> QED BY <1>1, <1>5, <1>6 DEF ListIInv

\* A page is shown.
LEMMA ListGrows ==
    ASSUME NEW P, ListIInv(P), ListShown
    PROVE  ListIInv(P)'
<1>1. /\ user.cmd \in {"page", "next"} /\ call.step = "returned" /\ call' = Idle /\ user' = Ready
      /\ UNCHANGED <<focus, stored, away>>
      /\ PageAsked(focus, paged, user, call) /\ PageFound(P, focus, paged, stored[focus], user, call)
    BY DEF ListShown, Apart, ListIInv, PageOK, Lists
<1>2. user'.cmd \notin Lists /\ away'.user.cmd \notin Lists
    BY <1>1, ReadyIs DEF ListIInv, Lists
<1>3. ListOK(paged) /\ Covered(focus, paged, stored[focus])
    BY DEF ListIInv
<1> DEFINE begun == IF user.cmd = "next" THEN [paged EXCEPT !.fresh = @ \cup paged.late]
                    ELSE [Unlisted EXCEPT !.from = Head(call.found).id, !.fresh = paged.late]
           now == IF call.found = <<>> THEN paged ELSE _cb_Select_route_page_brief(begun, call.found)
<1>4. paged' = [now EXCEPT !.late = {}]
    BY DEF ListShown
<1> HIDE DEF now
<1>5. ASSUME ListOK(now), Covered(focus, now, stored[focus])
      PROVE  ListIInv(P)'
  <2>1. PICK list : list = now
      OBVIOUS
  <2>2. list = [last |-> list.last, from |-> list.from, seen |-> list.seen, fresh |-> list.fresh, late |-> list.late]
      BY <1>5, <2>1 DEF ListOK
  <2>3. paged' = [list EXCEPT !.late = {}]
      BY <1>4, <2>1
  <2>4. /\ paged' = [last |-> paged'.last, from |-> paged'.from, seen |-> paged'.seen, fresh |-> paged'.fresh, late |-> paged'.late]
        /\ paged'.last = list.last /\ paged'.from = list.from /\ paged'.seen = list.seen /\ paged'.fresh = list.fresh
      BY <2>2, <2>3
  <2>5. ListOK(paged') /\ Covered(focus, paged', stored[focus])
      BY <1>5, <2>1, <2>4 DEF ListOK, Covered, Numbers
  <2>6. PageOK(P, focus', paged', stored'[focus'], user', call') /\ PageOK(P, focus', paged', stored'[focus'], away'.user, away'.call)
      BY <1>2 DEF PageOK
  <2> QED BY <1>1, <1>2, <2>5, <2>6 DEF ListIInv
<1>6. CASE call.found = <<>>
  <2>1. now = paged
      BY <1>6 DEF now
  <2> QED BY <1>3, <1>5, <2>1
<1>7. CASE call.found # <<>>
  <2> DEFINE found == call.found
             rows == stored[focus]
             base == begun
  <2>1. now = _cb_Select_route_page_brief(base, found)
      BY <1>7 DEF now
  <2>2. /\ RowsOK(P, found) /\ found # <<>>
        /\ user.cmd = "next" => \A j \in DOMAIN found : call.list[1] < found[j].id
        /\ \A i \in DOMAIN rows :
             /\ OnList(focus, rows[i]) /\ rows[i].id <= found[Len(found)].id
             /\ IF user.cmd = "next" THEN call.list[1] < rows[i].id ELSE found[1].id <= rows[i].id
             => rows[i].id \in paged.late \/ \E j \in DOMAIN found : found[j].id = rows[i].id
    <3>1. call.found # <<>> /\ PageFound(P, focus, paged, stored[focus], user, call)
        BY <1>1, <1>7
    <3> QED BY <3>1 DEF PageFound
  <2> HIDE DEF rows
  <2>3. /\ found \in Seq([id : Nat, of : P]) /\ Len(found) \in Nat \ {0} /\ DOMAIN found = 1 .. Len(found)
        /\ \A j \in DOMAIN found : found[j].id \in Nat
    <3>1. found \in Seq([id : Nat, of : P])
        BY <2>2 DEF RowsOK
    <3>2. \A j \in DOMAIN found : found[j].id \in Nat
        BY <3>1, EntryOK
    <3> HIDE DEF found
    <3>3. Len(found) # 0
        BY <2>2, <3>1
    <3> QED BY <3>1, <3>2, <3>3
  <2>4. /\ ListOK(base) /\ paged.late \subseteq base.fresh
        /\ user.cmd = "page" => base.last = 0 /\ base.from = found[1].id /\ base.seen = <<>>
        /\ user.cmd = "next" => /\ base.last = paged.last /\ base.from = paged.from /\ base.seen = paged.seen
                                /\ paged.fresh \subseteq base.fresh
    <3>1. CASE user.cmd = "page"
      <4>1. Head(found) = found[1] /\ user.cmd # "next"
          BY <2>3, <3>1
      <4>2. base = [last |-> 0, from |-> found[1].id, seen |-> <<>>, fresh |-> paged.late, late |-> {}]
          BY <4>1 DEF Unlisted
      <4>3. found[1].id \in Nat
          BY <2>3
      <4> HIDE DEF base, found
      <4> QED BY <4>1, <4>2, <4>3 DEF ListOK
    <3>2. CASE user.cmd = "next"
      <4>1. base = [paged EXCEPT !.fresh = paged.fresh \cup paged.late]
          BY <3>2
      <4>2. paged = [last |-> paged.last, from |-> paged.from, seen |-> paged.seen, fresh |-> paged.fresh, late |-> paged.late]
          BY <1>3 DEF ListOK
      <4> HIDE DEF base, found
      <4>3. /\ base = [last |-> base.last, from |-> base.from, seen |-> base.seen, fresh |-> base.fresh, late |-> base.late]
            /\ base.last = paged.last /\ base.from = paged.from /\ base.seen = paged.seen
            /\ base.fresh = paged.fresh \cup paged.late
          BY <4>1, <4>2
      <4> QED BY <1>3, <3>2, <4>3 DEF ListOK
    <3> QED BY <1>1, <3>1, <3>2
  <2>5. user.cmd = "next" => call.list[1] = paged.last
      BY <1>1 DEF PageAsked
  <2>6. ListOK(base)
      BY <2>4
  <2> HIDE DEF base, found
  <2>7. \A i \in DOMAIN base.seen : \A j \in DOMAIN found : base.seen[i] < found[j].id
    <3>1. CASE user.cmd = "page"
        BY <2>4, <3>1
    <3>2. CASE user.cmd = "next"
      <4>1. SUFFICES ASSUME NEW i \in DOMAIN base.seen, NEW j \in DOMAIN found
                     PROVE  base.seen[i] < found[j].id
          OBVIOUS
      <4>2. base.seen[i] <= base.last /\ base.last < found[j].id
          BY <2>2, <2>4, <2>5, <2>6, <3>2 DEF ListOK
      <4>3. base.seen[i] \in Nat /\ base.last \in Nat /\ found[j].id \in Nat
        <5>1. base.seen \in Seq(Nat) /\ base.last \in Nat
            BY <2>6 DEF ListOK
        <5> QED BY <2>3, <5>1
      <4> QED BY <4>2, <4>3
    <3> QED BY <1>1, <3>1, <3>2
  <2>8. /\ ListOK(now) /\ Numbers(now) = Numbers(base) \cup {found[j].id : j \in DOMAIN found}
        /\ now.last = found[Len(found)].id /\ now.from = base.from /\ now.fresh = base.fresh
    <3>1. PICK list : list = base
        OBVIOUS
    <3>2. PICK page : page = found
        OBVIOUS
    <3>3. /\ ListOK(list) /\ RowsOK(P, page) /\ page # <<>>
          /\ \A i \in DOMAIN list.seen : \A j \in DOMAIN page : list.seen[i] < page[j].id
        BY <2>2, <2>6, <2>7, <3>1, <3>2
    <3>4. Shown(list, page, _cb_Select_route_page_brief(list, page))
        BY <3>3, ShownOK
    <3>5. Shown(base, found, now)
        BY <2>1, <3>1, <3>2, <3>4
    <3> QED BY <3>5 DEF Shown
  <2>9. Covered(focus, now, rows)
    <3>1. SUFFICES ASSUME NEW i \in DOMAIN rows, rows[i].id \in now.from .. now.last, OnList(focus, rows[i])
                   PROVE  rows[i].id \in Numbers(now) \cup now.fresh
        BY DEF Covered
    <3>2. rows[i].id \in base.from .. found[Len(found)].id
        BY <2>8, <3>1
    <3>3. base.from \in Nat /\ base.last \in Nat /\ found[Len(found)].id \in Nat
      <4>1. Len(found) \in DOMAIN found
          BY <2>3
      <4> QED BY <2>3, <2>6, <4>1 DEF ListOK
    <3>4. base.from <= rows[i].id /\ rows[i].id <= found[Len(found)].id /\ rows[i].id \in Int
        BY <3>2, <3>3
    <3>5. ASSUME IF user.cmd = "next" THEN call.list[1] < rows[i].id ELSE found[1].id <= rows[i].id
          PROVE  rows[i].id \in Numbers(now) \cup now.fresh
      <4>1. rows[i].id \in paged.late \/ \E j \in DOMAIN found : found[j].id = rows[i].id
          BY <2>2, <3>1, <3>4, <3>5
      <4> QED BY <2>4, <2>8, <4>1
    <3>6. CASE user.cmd = "page"
        BY <2>4, <3>4, <3>5, <3>6
    <3>7. CASE user.cmd = "next" /\ base.last < rows[i].id
        BY <2>4, <2>5, <3>5, <3>7
    <3>8. CASE user.cmd = "next" /\ ~(base.last < rows[i].id)
      <4>1. rows[i].id \in paged.from .. paged.last
          BY <2>4, <3>3, <3>4, <3>8
      <4>2. rows[i].id \in Numbers(paged) \cup paged.fresh
          BY <1>3, <3>1, <4>1 DEF Covered, rows
      <4>3. Numbers(paged) = Numbers(base)
          BY <2>4, <3>8 DEF Numbers
      <4> QED BY <2>4, <2>8, <3>8, <4>2, <4>3
    <3> QED BY <1>1, <3>6, <3>7, <3>8
  <2> QED BY <1>5, <2>8, <2>9 DEF rows
<1> QED BY <1>6, <1>7

\* What the invariant says of a list between two commands.
LEMMA ListedFromInv ==
    ASSUME NEW P, ListIInv(P)
    PROVE  ListedWhole
<1>1. SUFFICES ASSUME user = Ready, call.step = "idle"
               PROVE  /\ \A r \in ToSet(stored[focus]) :
                           \/ r.id \notin paged.from .. paged.last \/ r.id \in ToSet(paged.seen) \cup paged.fresh
                           \/ focus = "route" /\ r.of[1] # Outside
                      /\ IsInjective(paged.seen)
    BY DEF ListedWhole
<1>2. ListOK(paged) /\ Covered(focus, paged, stored[focus])
    BY DEF ListIInv
<1>3. Numbers(paged) = ToSet(paged.seen)
    BY DEF Numbers, ToSet
<1>4. ASSUME NEW r \in ToSet(stored[focus])
      PROVE  \/ r.id \notin paged.from .. paged.last \/ r.id \in ToSet(paged.seen) \cup paged.fresh
             \/ focus = "route" /\ r.of[1] # Outside
  <2>1. PICK i \in DOMAIN stored[focus] : r = stored[focus][i]
      BY <1>4 DEF ToSet
  <2>2. OnList(focus, r) \/ (focus = "route" /\ r.of[1] # Outside)
      BY DEF OnList
  <2> QED BY <1>2, <1>3, <2>1, <2>2 DEF Covered
<1>5. IsInjective(paged.seen)
  <2> DEFINE seen == paged.seen
  <2>1. seen \in Seq(Nat) /\ \A i, j \in DOMAIN seen : i < j => seen[i] < seen[j]
      BY <1>2 DEF ListOK
  <2> HIDE DEF seen
  <2>2. DOMAIN seen = 1 .. Len(seen) /\ Len(seen) \in Nat /\ \A i \in DOMAIN seen : seen[i] \in Nat
      BY <2>1
  <2>3. ASSUME NEW i \in DOMAIN seen, NEW j \in DOMAIN seen, seen[i] = seen[j]
        PROVE  i = j
    <3>1. i \in Nat /\ j \in Nat /\ seen[i] \in Nat /\ seen[j] \in Nat
        BY <2>2
    <3>2. ~(i < j) /\ ~(j < i)
        BY <2>1, <2>3, <3>1
    <3> QED BY <3>1, <3>2
  <2>4. IsInjective(seen)
      BY <2>3 DEF IsInjective
  <2> QED BY <2>4 DEF seen
<1> QED BY <1>4, <1>5

\* The list of lines, while two threads' commands go on: the commands that list nothing.
LEMMA RouteListRests ==
    ASSUME RouteIInv, ListIInv(Pairs),
           \/ RouteGo \/ RouteChecked \/ RouteDelAll \/ RouteWritten
           \/ RouteLookUp \/ RouteFollow \/ RouteFound
    PROVE  ListIInv(Pairs)'
<1>1. UNCHANGED <<paged, focus, stored>> /\ UNCHANGED away
    BY DEF RouteGo, RouteChecked, RouteDelAll, RouteWritten, RouteLookUp, RouteFollow, RouteFound, Apart
<1>2. user = [cmd |-> user.cmd, nodes |-> user.nodes]
    BY RouteParts DEF RouteIInv
<1>3. CASE RouteGo \/ RouteDelAll
  <2>1. \E cmd \in {"go", "save", "write"} : user' = [Ready EXCEPT !.cmd = cmd]
      BY <1>3 DEF RouteGo, RouteDelAll
  <2>2. user'.cmd \in {"go", "save", "write"}
      BY <2>1, CommandIs
  <2> QED BY <1>1, <2>2, ListStays DEF Lists
<1>4. CASE RouteChecked \/ RouteWritten
  <2>1. user' = Ready \/ user' = [user EXCEPT !.cmd = "write"]
      BY <1>4 DEF RouteChecked, RouteWritten
  <2>2. user'.cmd \in {"none", "write"}
      BY <1>2, <2>1, ReadyIs
  <2> QED BY <1>1, <2>2, ListStays DEF Lists
<1>5. CASE RouteLookUp
  <2>1. user'.cmd \in {"detail", "del"} \/ (user' = user /\ call' = call)
    <3>1. ASSUME NEW cmd, NEW front, NEW n, LookUp(cmd, front, n)
          PROVE  user' = user \/ user'.cmd = cmd
      <4> DEFINE met == {i \in DOMAIN Links : IF front # Outside THEN Links[i].of[1] = front
                                              ELSE n = Outside \/ Links[i].of[2] = n}
                 nodes == <<First(met)>>
      <4>1. user' = [cmd |-> cmd, nodes |-> nodes] \/ user' = user
          BY <3>1 DEF LookUp
      <4> HIDE DEF nodes
      <4> QED BY <4>1
    <3>2. call' = call
        BY <1>5 DEF RouteLookUp
    <3> QED BY <1>5, <3>1, <3>2 DEF RouteLookUp, DispOneRoute, cmd_routeDel
  <2> QED BY <1>1, <2>1, ListStays DEF Lists
<1>6. CASE RouteFollow \/ RouteFound
  <2>1. user.cmd \in {"del", "detail"}
      BY <1>6 DEF RouteFollow, RouteFound
  <2>2. user' = [user EXCEPT !.nodes = Append(@, First(Following))] \/ user' = [Ready EXCEPT !.cmd = "write"] \/ user' = Ready
      BY <1>6 DEF RouteFollow, RouteFound
  <2>3. user'.cmd \in {"del", "detail", "write", "none"}
      BY <1>2, <2>1, <2>2, ReadyIs, CommandIs
  <2> QED BY <1>1, <2>3, ListStays DEF Lists
<1> QED BY <1>3, <1>4, <1>5, <1>6

\* The line is edited, which no list reads; and the other thread elsewhere in the file.
LEMMA RouteListEdits ==
    ASSUME RouteIInv, ListIInv(Pairs),
           RouteNew \/ RouteAdd \/ cmd_insertRoute \/ Elsewhere \/ UNCHANGED <<vars, routeVars>>
    PROVE  ListIInv(Pairs)'
<1>1. away = [call |-> away.call, user |-> away.user]
    BY DEF RouteIInv
<1>2. CASE RouteNew \/ RouteAdd \/ cmd_insertRoute
  <2>1. UNCHANGED <<focus, stored, call, user, paged>> /\ away' = [away EXCEPT !.call = Reread(@)]
      BY <1>2 DEF RouteNew, RouteAdd, cmd_insertRoute, Edits, Quiet
  <2>2. away'.user = away.user /\ away'.call = Reread(away.call)
      BY <1>1, <2>1
  <2>3. away.user.cmd \in Lists => away.call.step # "insert"
      BY DEF ListIInv, PageOK
  <2>4. away.user.cmd \in Lists => away'.call = away.call
      BY <2>2, <2>3 DEF Reread
  <2> QED BY <2>1, <2>2, <2>4, ListStays
<1>3. CASE Elsewhere \/ UNCHANGED <<vars, routeVars>>
  <2>1. UNCHANGED <<focus, stored, call, user, paged, away>>
      BY <1>3 DEF Elsewhere, vars, routeVars
  <2> QED BY <2>1, ListStays
<1> QED BY <1>2, <1>3

\* A thread's turn comes.
LEMMA RouteListSwitches ==
    ASSUME ListIInv(Pairs), Switch
    PROVE  ListIInv(Pairs)'
<1>1. /\ call' = away.call /\ user' = away.user /\ away'.call = call /\ away'.user = user
      /\ UNCHANGED <<paged, focus, stored>>
    BY DEF Switch
<1> QED BY <1>1 DEF ListIInv

\* The functions of the table.
LEMMA RouteListCalls ==
    ASSUME RouteIInv, ListIInv(Pairs), CallStep
    PROVE  ListIInv(Pairs)'
<1>1. /\ OwnIInv /\ focus = "route" /\ focus \in {"route", "a_trigger_b"} /\ ListOK(paged)
      /\ away = [call |-> away.call, user |-> away.user] /\ IsCall(away.call)
    BY RouteParts DEF RouteIInv, ListIInv, AwayOK, CallOK
<1>2. /\ UNCHANGED user /\ paged' = Noted /\ focus' = focus
      /\ away' = IF stored' = stored THEN away ELSE [away EXCEPT !.call = Disturb(@)]
    BY DEF CallStep, Insert, Delete, Select, Finalize, Close
<1>3. CASE user.cmd \in Lists
  <2>1. Select \/ Finalize
    <3>1. call.step \in {"select", "found", "returned"}
        BY <1>3 DEF ListIInv, PageOK
    <3> QED BY <3>1 DEF CallStep, Insert, Delete, Close
  <2>2. UNCHANGED <<user, paged, away>>
    <3>1. stored' = stored
        BY <2>1 DEF Select, Finalize
    <3> QED BY <1>1, <1>2, <3>1, NotedIs
  <2>3. DbIInv(Pairs)
      BY <1>1, <1>3, NoWalkDb DEF Lists, Walking
  <2> QED BY <1>1, <1>3, <2>1, <2>2, <2>3, ListFound
<1>4. CASE user.cmd \notin Lists
  <2>1. CASE stored' = stored
    <3>1. away' = away
        BY <1>2, <2>1
    <3> QED BY <1>2, <1>4, <3>1, ListWritten
  <2>2. CASE stored' # stored
    <3>1. away' = [away EXCEPT !.call = Disturb(@)]
        BY <1>2, <2>2
    <3>2. away'.user = away.user /\ away'.call = Disturb(away.call)
        BY <1>1, <3>1
    <3>3. SameCall(away.call, away'.call)
        BY <1>1, <3>2, CallDisturbed
    <3> QED BY <1>2, <1>4, <3>2, <3>3, ListWritten
  <2> QED BY <2>1, <2>2
<1> QED BY <1>3, <1>4

LEMMA RouteListKeeps ==
    ASSUME RouteIInv, ListIInv(Pairs), [RouteSteps]_<<vars, routeVars>>
    PROVE  ListIInv(Pairs)'
<1>1. focus \in {"route", "a_trigger_b"}
    BY RouteParts DEF RouteIInv
<1>2. CASE \/ RouteGo \/ RouteChecked \/ RouteDelAll \/ RouteWritten
           \/ RouteLookUp \/ RouteFollow \/ RouteFound
    BY <1>2, RouteListRests
<1>3. CASE RouteNew \/ RouteAdd \/ cmd_insertRoute \/ Elsewhere \/ UNCHANGED <<vars, routeVars>>
    BY <1>3, RouteListEdits
<1>4. CASE Switch
    BY <1>4, RouteListSwitches
<1>5. CASE CallStep
    BY <1>5, RouteListCalls
<1>6. CASE ListPage
    BY <1>1, <1>6, ListBegins
<1>7. CASE ListShown
    BY <1>7, ListGrows
<1>8. CASE RouteSteps
    BY <1>2, <1>3, <1>4, <1>5, <1>6, <1>7, <1>8 DEF RouteSteps, RouteNext
<1>9. CASE UNCHANGED <<vars, routeVars>>
    BY <1>3, <1>9
<1> QED BY <1>8, <1>9

\* No page has been shown yet.
LEMMA ListStarts ==
    ASSUME NEW P, Init, RouteInit(FALSE)
    PROVE  ListIInv(P)
<1>1. /\ user = Ready /\ paged = Unlisted /\ away = [call |-> Idle, user |-> Ready]
      /\ focus \in DOMAIN tmsdb_CheckDb
      /\ stored = [t \in DOMAIN tmsdb_CheckDb |-> IF t = focus THEN <<>> ELSE <<[id |-> 1, of |-> <<0, 0>>]>>]
    BY DbAssumption DEF Init, RouteInit
<1>2. stored[focus] = <<>>
    BY <1>1
<1>3. ListOK(Unlisted)
    BY DEF ListOK, Unlisted
<1>4. Covered(focus, paged, <<>>)
    BY DEF Covered
<1>5. user.cmd \notin Lists /\ away.user.cmd \notin Lists
    BY <1>1, ReadyIs DEF Lists
<1> QED BY <1>1, <1>2, <1>3, <1>4, <1>5 DEF ListIInv, PageOK

\* cmd_route, "list page": the pages of a list leave no line out and repeat none, for any
\* number of lines and pages of any length, though two threads store and take away others
\* between two pages and while one is read.
THEOREM ListsAreWhole == RouteSpec => []ListedWhole
<1>1. Init /\ focus = "route" /\ RouteInit(FALSE) => ListIInv(Pairs)
    BY ListStarts, Zenon
<1>2. RouteIInv /\ ListIInv(Pairs) /\ [RouteSteps]_<<vars, routeVars>> => ListIInv(Pairs)'
    BY RouteListKeeps
<1>3. ListIInv(Pairs) => ListedWhole
    BY ListedFromInv
<1> QED BY <1>1, <1>2, <1>3, RouteInvariant, PTL DEF RouteSpec, RouteSteps

-----------------------------------------------------------------------------
(* The list of triggers. *)

\* A page's function runs only for the command that asked for it.
TriggerIInv ==
  /\ DbIInv(Patterns) /\ focus = "a_trigger_b" /\ ListIInv(Patterns)
  /\ user = Ready \/ user.cmd \in Lists
  /\ user = Ready => call.step \notin {"select", "found"}
  /\ away = [call |-> away.call, user |-> away.user] /\ away.user = Ready

\* What happens on the table of triggers.
TriggerSteps == TriggerNext \/ ListPage \/ ListShown

\* What the invariant says of the command.
LEMMA TriggerParts ==
    ASSUME TriggerIInv
    PROVE  /\ focus \in {"route", "a_trigger_b"} /\ ListOK(paged) /\ IsCall(call)
           /\ user = Ready => user.cmd \notin Lists
           /\ away.user.cmd \notin Lists
           /\ call.step \notin {"select", "found", "returned"} => user = Ready
           /\ call.step \in {"select", "found"} => user.cmd \in Lists
BY ReadyIs DEF TriggerIInv, ListIInv, PageOK, Lists, DbIInv, CallOK

\* A step by which no page is read or shown.
LEMMA TriggerListed ==
    ASSUME TriggerIInv, focus' = focus, user' = user, away'.user = away.user,
           \/ paged' = paged /\ stored' = stored /\ (user.cmd \in Lists => call' = call)
           \/ paged' = Noted /\ (user.cmd \in Lists => call' = call \/ SameCall(call, call'))
    PROVE  ListIInv(Patterns)'
<1>1. ListIInv(Patterns) /\ away.user.cmd \notin Lists
    BY TriggerParts DEF TriggerIInv
<1>2. CASE paged' = paged /\ stored' = stored /\ (user.cmd \in Lists => call' = call)
    BY <1>1, <1>2, ListStays
<1>3. CASE paged' = Noted /\ (user.cmd \in Lists => call' = call \/ SameCall(call, call'))
    BY <1>1, <1>3, ListWritten
<1> QED BY <1>2, <1>3

\* A function's step.
LEMMA TriggerCalls == ASSUME TriggerIInv, CallStep PROVE TriggerIInv'
<1>1. /\ focus = "a_trigger_b" /\ focus \in {"route", "a_trigger_b"} /\ ListOK(paged) /\ IsCall(call)
      /\ user = Ready => user.cmd \notin Lists
      /\ away.user.cmd \notin Lists
      /\ call.step \notin {"select", "found", "returned"} => user = Ready
      /\ call.step \in {"select", "found"} => user.cmd \in Lists
      /\ DbIInv(Patterns) /\ ListIInv(Patterns)
      /\ away = [call |-> away.call, user |-> away.user] /\ away.user = Ready
    BY TriggerParts DEF TriggerIInv
<1>2. /\ user' = user /\ paged' = Noted /\ focus' = focus
      /\ away' = IF stored' = stored THEN away ELSE [away EXCEPT !.call = Disturb(@)]
    BY DEF CallStep, Insert, Delete, Select, Finalize, Close
<1>3. away' = [call |-> away'.call, user |-> away'.user] /\ away'.user = away.user
    BY <1>1, <1>2
<1>4. DbIInv(Patterns)'
    BY <1>1, InsertStep, DeleteStep, OtherCallSteps DEF CallStep
<1>5. CASE Insert \/ Delete \/ Close
  <2>1. user = Ready /\ user.cmd \notin Lists
      BY <1>1, <1>5 DEF Insert, Delete, Close
  <2>2. call'.step \notin {"select", "found"}
      BY <1>1, <1>5, NotSelecting
  <2>3. ListIInv(Patterns)'
      BY <1>2, <1>3, <2>1, TriggerListed
  <2> QED BY <1>1, <1>2, <1>3, <1>4, <2>1, <2>2, <2>3 DEF TriggerIInv
<1>6. CASE Select \/ Finalize
  <2>1. user.cmd \in Lists /\ user # Ready
      BY <1>1, <1>6 DEF Select, Finalize
  <2>2. UNCHANGED <<user, paged, away>>
    <3>1. stored' = stored
        BY <1>6 DEF Select, Finalize
    <3> QED BY <1>1, <1>2, <3>1, NotedIs
  <2>3. ListIInv(Patterns)'
      BY <1>1, <1>6, <2>1, <2>2, ListFound
  <2> QED BY <1>1, <1>2, <1>3, <1>4, <2>1, <2>3 DEF TriggerIInv
<1> QED BY <1>5, <1>6 DEF CallStep

\* The other thread's: it disturbs a call, but not what a list asks or has found.
LEMMA TriggerOthers ==
    ASSUME TriggerIInv, OtherStep, paged' = Noted, UNCHANGED <<user, away>>
    PROVE  TriggerIInv'
<1>1. /\ focus = "a_trigger_b" /\ DbIInv(Patterns) /\ IsCall(call)
      /\ user = Ready \/ user.cmd \in Lists
      /\ user = Ready => call.step \notin {"select", "found"}
      /\ away = [call |-> away.call, user |-> away.user] /\ away.user = Ready
    BY TriggerParts DEF TriggerIInv
<1>2. focus' = focus /\ (call' = call \/ call' = Disturb(call))
    BY DEF OtherStep, OtherWrites
<1>3. call' = call \/ SameCall(call, call')
    BY <1>1, <1>2, CallDisturbed
<1>4. DbIInv(Patterns)'
    BY <1>1, OtherKeeps
<1>5. ListIInv(Patterns)'
    BY <1>2, <1>3, TriggerListed
<1>6. call'.step = call.step
    BY <1>3 DEF SameCall
<1> QED BY <1>1, <1>2, <1>4, <1>5, <1>6 DEF TriggerIInv

\* Whatever the user and the two threads do next.
LEMMA TriggerNextSound == ASSUME TriggerIInv, [TriggerSteps]_<<vars, routeVars>> PROVE TriggerIInv'
<1>1. /\ focus = "a_trigger_b" /\ focus \in {"route", "a_trigger_b"}
      /\ user = Ready => user.cmd \notin Lists
      /\ call.step \notin {"select", "found", "returned"} => user = Ready
      /\ call.step \in {"select", "found"} => user.cmd \in Lists
      /\ DbIInv(Patterns) /\ ListIInv(Patterns) /\ (user = Ready \/ user.cmd \in Lists)
      /\ (user = Ready => call.step \notin {"select", "found"})
      /\ away = [call |-> away.call, user |-> away.user] /\ away.user = Ready
    BY TriggerParts DEF TriggerIInv
<1>2. CASE UNCHANGED <<vars, routeVars>>
  <2>1. UNCHANGED <<focus, stored, call, user, paged, away>> /\ UNCHANGED vars
      BY <1>2 DEF vars, routeVars
  <2>2. ListIInv(Patterns)'
      BY <2>1, TriggerListed
  <2>3. DbIInv(Patterns)'
      BY <1>1, <2>1, DbInductive
  <2> QED BY <1>1, <2>1, <2>2, <2>3 DEF TriggerIInv
<1>3. CASE user = Ready /\ (CallInsert \/ CallDelete \/ Done) /\ UNCHANGED routeVars
  <2>1. UNCHANGED <<focus, stored, user, paged, away>>
      BY <1>3 DEF CallInsert, CallDelete, Done, routeVars
  <2>2. DbIInv(Patterns)'
      BY <1>1, <1>3, CallsStart, OtherCallSteps
  <2>3. call'.step \notin {"select", "found"}
      BY <1>1, <1>3, NotSelecting
  <2>4. ListIInv(Patterns)'
      BY <1>1, <1>3, <2>1, TriggerListed
  <2> QED BY <1>1, <1>3, <2>1, <2>2, <2>3, <2>4 DEF TriggerIInv
<1>4. CASE CallStep
    BY <1>4, TriggerCalls
<1>5. CASE OtherStep /\ paged' = Noted /\ UNCHANGED <<sg_route, user, away, excused, raced>>
    BY <1>5, TriggerOthers
<1>6. CASE ListPage
  <2>1. /\ ListIInv(Patterns)' /\ user'.cmd \in Lists /\ UNCHANGED <<focus, stored, lock, away>>
        /\ user = Ready /\ call.step = "idle"
        /\ IsCall(call') /\ call'.step = "select" /\ call'.fn = ListOf(focus).fn
      BY <1>1, <1>6, ListBegins
  <2>2. /\ ListOf(focus).fn \in DOMAIN Functions /\ Functions[ListOf(focus).fn].kind = "select"
        /\ Functions[ListOf(focus).fn].table = focus
      BY <1>1, ListOfIs
  <2>3. CallOK(Patterns, focus, call', stored[focus], "none")
      BY <2>1, <2>2 DEF CallOK
  <2>4. lock[Me] = "none"
      BY <1>1, <2>1 DEF DbIInv, CallOK
  <2>5. DbIInv(Patterns)'
      BY <1>1, <2>1, <2>3, <2>4, CallBegins
  <2>6. user' # Ready
      BY <2>1, ReadyIs DEF Lists
  <2> QED BY <1>1, <2>1, <2>5, <2>6 DEF TriggerIInv
<1>7. CASE ListShown
  <2>1. Done /\ UNCHANGED <<focus, stored, away>> /\ user' = Ready
      BY <1>7 DEF ListShown, Done, Apart
  <2>2. DbIInv(Patterns)' /\ call'.step \notin {"select", "found"}
      BY <1>1, <2>1, OtherCallSteps, NotSelecting
  <2>3. ListIInv(Patterns)'
      BY <1>1, <1>7, ListGrows
  <2> QED BY <1>1, <2>1, <2>2, <2>3 DEF TriggerIInv
<1> QED BY <1>2, <1>3, <1>4, <1>5, <1>6, <1>7 DEF TriggerSteps, TriggerNext

\* cmd_atb, "list page": nor do the pages of the list of triggers.
THEOREM TriggerListsAreWhole == TriggerSpec => []ListedWhole
<1>1. Init /\ focus = "a_trigger_b" /\ RouteInit(FALSE) => TriggerIInv
  <2>1. SUFFICES ASSUME Init, focus = "a_trigger_b", RouteInit(FALSE)
                 PROVE  TriggerIInv
      OBVIOUS
  <2>2. DbIInv(Patterns) /\ ListIInv(Patterns)
      BY <2>1, DbInitial, ListStarts, Zenon
  <2>3. user = Ready /\ call = Idle /\ away = [call |-> Idle, user |-> Ready]
      BY <2>1 DEF Init, RouteInit
  <2>4. Idle.step = "idle"
      BY DEF Idle
  <2>5. away = [call |-> away.call, user |-> away.user] /\ away.user = Ready
      BY <2>3
  <2> QED BY <2>1, <2>2, <2>3, <2>4, <2>5 DEF TriggerIInv
<1>2. TriggerIInv /\ [TriggerSteps]_<<vars, routeVars>> => TriggerIInv'
    BY TriggerNextSound
<1>3. TriggerIInv => ListedWhole
    BY ListedFromInv DEF TriggerIInv
<1> QED BY <1>1, <1>2, <1>3, PTL DEF TriggerSpec, TriggerSteps

-----------------------------------------------------------------------------
(* Rows of a file (ListFile). *)

Chars == {"char", "line feed"}

\* The line feeds among the first n.
FeedsUpto(f, n) == {i \in Feeds(f) : i <= n}

\* Where a row begins, and that a file does not have it.
RowBegins(f, row, start) ==
  /\ start \in 0 .. Len(f) /\ Cardinality(FeedsUpto(f, start)) = row - 1
  /\ start # 0 => start \in Feeds(f)
NoRow(f, row) == Cardinality(Feeds(f)) < row - 1

NoFeedIn(f, from, to) == \A i \in Feeds(f) : ~(from < i /\ i <= to)

\* As far as the file goes.
Within(f, n) == IF n < Len(f) THEN n ELSE Len(f)

\* A row that ends without a line feed may be looked for beyond the end of the file.
LastBlock(f, start, end) ==
  /\ \E n \in Nat : end = start + n * Block
  /\ end > Len(f) => end - Block < Len(f)

StartOK(r) ==
  /\ r.row >= 2 /\ r.at = Within(r.file, r.start)
  /\ Cardinality(FeedsUpto(r.file, r.at)) = r.asked - r.row

EndOK(r) ==
  \/ NoRow(r.file, r.asked) /\ r.at = r.start /\ r.end = r.start /\ r.start >= Len(r.file)
  \/ /\ RowBegins(r.file, r.asked, r.start) /\ r.at = Within(r.file, r.end)
     /\ NoFeedIn(r.file, r.start, r.at) /\ LastBlock(r.file, r.start, r.end)

RowEnds(f, start, end) ==
  /\ end < Len(f) => end + 1 \in Feeds(f)
  /\ NoFeedIn(f, start, end)
  /\ end >= Len(f) => LastBlock(f, start, end)

ShowOK(r) ==
  \/ NoRow(r.file, r.asked) /\ r.end = r.start /\ r.shown = <<>>
  \/ /\ RowBegins(r.file, r.asked, r.start) /\ RowEnds(r.file, r.start, r.end)
     /\ r.at = r.start + Len(r.shown) /\ r.at <= r.end /\ r.at <= Len(r.file)
     /\ \A i \in 1 .. Len(r.shown) : r.shown[i] = r.file[r.start + i]

Cells == Chars \cup {"preset", "NUL"}

Readings ==
  [step : {"none", "start", "end", "show", "returned"}, file : Seq(Chars), asked : Int,
   row : Int, at : Nat, start : Nat, end : Nat, strout : [1 .. Room -> Cells], shown : Seq(Chars),
   stray : Seq([len : Nat, byte : Cells \cup {"beyond"}]), spoiled : BOOLEAN, ret : {0, -1}]

ReadingOK(r) ==
  /\ r \in Readings
  /\ r.step \in {"start", "end"} => r.shown = <<>>
  /\ r.step \in {"start", "end", "show"} => r.ret = 0 /\ r.asked >= 1
  /\ r.step = "start" => StartOK(r)
  /\ r.step = "end" => EndOK(r)
  /\ r.step = "show" => ShowOK(r)
  /\ r.step = "returned" => r.shown = RowOf(r.file, r.asked) /\ (r.ret = -1 <=> r.shown = <<>>)

FileIInv == ReadingOK(reading)

\* What fread() gets from a place on.
IsBlock(f, at, n, block) ==
  /\ block \in Seq(Chars)
  /\ Len(block) = IF at >= Len(f) THEN 0 ELSE IF at + n < Len(f) THEN n ELSE Len(f) - at
  /\ \A i \in 1 .. Len(block) : at + i \in 1 .. Len(f) /\ block[i] = f[at + i]

LEMMA FreadIs ==
    ASSUME reading.file \in Seq(Chars), reading.at \in Nat, NEW n \in Nat
    PROVE  IsBlock(reading.file, reading.at, n, Fread(n))
<1> DEFINE f == reading.file
           a == reading.at
           e == IF a + n < Len(f) THEN a + n ELSE Len(f)
<1>1. f \in Seq(Chars) /\ a \in Nat /\ Fread(n) = SubSeq(f, a + 1, e)
    BY DEF Fread
<1> HIDE DEF f, a
<1>2. IsPiece(Chars, f, a, n, SubSeq(f, a + 1, e))
    BY <1>1, PieceIs
<1> HIDE DEF e
<1>3. IsBlock(f, a, n, SubSeq(f, a + 1, e))
    BY <1>2 DEF IsPiece, IsBlock
<1> QED BY <1>1, <1>3 DEF f, a

LEMMA FeedsAre ==
    ASSUME NEW f \in Seq(Chars), NEW n \in Nat
    PROVE  /\ Len(f) \in Nat /\ Feeds(f) \subseteq 1 .. Len(f) /\ FeedsUpto(f, n) \subseteq Feeds(f)
           /\ IsFiniteSet(Feeds(f)) /\ Cardinality(Feeds(f)) \in Nat
           /\ IsFiniteSet(FeedsUpto(f, n)) /\ Cardinality(FeedsUpto(f, n)) \in Nat
           /\ n >= Len(f) => FeedsUpto(f, n) = Feeds(f)
<1>1. Len(f) \in Nat /\ Feeds(f) \subseteq 1 .. Len(f) /\ FeedsUpto(f, n) \subseteq Feeds(f)
  <2>1. Len(f) \in Nat /\ DOMAIN f = 1 .. Len(f)
      OBVIOUS
  <2>2. Feeds(f) \subseteq DOMAIN f
      BY Zenon DEF Feeds
  <2>3. FeedsUpto(f, n) \subseteq Feeds(f)
      BY DEF FeedsUpto
  <2> QED BY <2>1, <2>2, <2>3
<1>2. IsFiniteSet(Feeds(f)) /\ IsFiniteSet(FeedsUpto(f, n))
  <2>1. IsFiniteSet(1 .. Len(f))
      BY <1>1, FS_Interval
  <2> QED BY <1>1, <2>1, FS_Subset
<1>3. n >= Len(f) => FeedsUpto(f, n) = Feeds(f)
    BY <1>1 DEF FeedsUpto
<1> QED BY <1>1, <1>2, <1>3, FS_CardinalityType

\* The n-th line feed is there, is the n-th, and the only one.
LEMMA FeedAtIs ==
    ASSUME NEW f \in Seq(Chars), NEW n \in 1 .. Cardinality(Feeds(f))
    PROVE  /\ FeedAt(f, n) \in Feeds(f) /\ Cardinality(FeedsUpto(f, FeedAt(f, n))) = n
           /\ \A i \in Feeds(f) : Cardinality(FeedsUpto(f, i)) = n => i = FeedAt(f, n)
<1>1. Len(f) \in Nat /\ Feeds(f) \subseteq 1 .. Len(f) /\ Cardinality(Feeds(f)) \in Nat
    BY FeedsAre
<1>2. \A i : Ordinal(Feeds(f), i) = Cardinality(FeedsUpto(f, i))
    BY DEF Ordinal, FeedsUpto
<1>3. \E i \in Feeds(f) : Ordinal(Feeds(f), i) = n
    BY <1>1, OrdinalExists
<1>4. FeedAt(f, n) \in Feeds(f) /\ Ordinal(Feeds(f), FeedAt(f, n)) = n
    BY <1>3 DEF FeedAt, Ordinal
<1>5. ASSUME NEW i \in Feeds(f), NEW j \in Feeds(f), Ordinal(Feeds(f), i) = Ordinal(Feeds(f), j)
      PROVE  i = j
  <2>1. i \in Nat /\ j \in Nat
      BY <1>1
  <2>2. ~(i < j)
    <3>1. SUFFICES ASSUME i < j PROVE FALSE
        OBVIOUS
    <3> QED BY <1>1, <1>5, <3>1, OrdinalGrows
  <2>3. ~(j < i)
    <3>1. SUFFICES ASSUME j < i PROVE FALSE
        OBVIOUS
    <3> QED BY <1>1, <1>5, <3>1, OrdinalGrows
  <2> QED BY <2>1, <2>2, <2>3
<1> QED BY <1>2, <1>4, <1>5

\* Of the line feeds up to a place in a block, those before the block and those in it.
LEMMA CountBlock ==
    ASSUME NEW f \in Seq(Chars), NEW at \in Nat, NEW n \in Nat, NEW block, IsBlock(f, at, n, block),
           NEW p \in 0 .. Len(block)
    PROVE  Cardinality(FeedsUpto(f, at + p))
             = Cardinality(FeedsUpto(f, at)) + Cardinality(FeedsUpto(block, p))
<1> DEFINE A == FeedsUpto(f, at)
           B == FeedsUpto(block, p)
           C == FeedsUpto(f, at + p) \ A
           shift == [i \in B |-> at + i]
<1>1. block \in Seq(Chars) /\ Len(block) \in Nat /\ p \in Nat
    BY DEF IsBlock
<1>2. IsFiniteSet(A) /\ IsFiniteSet(B) /\ A \subseteq Feeds(f) /\ Feeds(f) \subseteq 1 .. Len(f)
      /\ Len(f) \in Nat /\ B \subseteq Feeds(block) /\ Feeds(block) \subseteq 1 .. Len(block)
    BY <1>1, FeedsAre
<1>3. \A i \in 1 .. Len(block) : i \in B <=> at + i \in C
  <2>1. SUFFICES ASSUME NEW i \in 1 .. Len(block) PROVE i \in B <=> at + i \in C
      OBVIOUS
  <2>2. at + i \in 1 .. Len(f) /\ block[i] = f[at + i] /\ DOMAIN block = 1 .. Len(block) /\ DOMAIN f = 1 .. Len(f)
      BY <1>1, <2>1 DEF IsBlock
  <2>3. i \in Nat /\ (i <= p <=> at + i <= at + p) /\ ~(at + i <= at)
      BY <1>1, <2>1
  <2> QED BY <2>2, <2>3, Zenon DEF FeedsUpto, Feeds
<1>4. \A y \in C : \E i \in B : at + i = y
  <2>1. SUFFICES ASSUME NEW y \in C PROVE \E i \in B : at + i = y
      OBVIOUS
  <2>2. y \in 1 .. Len(f) /\ y <= at + p /\ ~(y <= at)
      BY <1>2, <2>1 DEF FeedsUpto
  <2>3. y - at \in 1 .. Len(block) /\ at + (y - at) = y
      BY <1>1, <1>2, <2>2
  <2> QED BY <1>3, <2>1, <2>3
<1>5. shift \in [B -> C] /\ (\A x, y \in B : shift[x] = shift[y] => x = y) /\ (\A y \in C : \E x \in B : shift[x] = y)
  <2>1. \A i \in B : i \in 1 .. Len(block) /\ i \in Nat
      BY <1>1, <1>2
  <2>2. \A i \in B : at + i \in C
      BY <1>3, <2>1
  <2> HIDE DEF B, C
  <2>3. shift \in [B -> C] /\ \A i \in B : shift[i] = at + i
      BY <2>2
  <2>4. \A x, y \in B : at + x = at + y => x = y
      BY <2>1
  <2> QED BY <1>4, <2>3, <2>4
<1>6. A \cap C = {} /\ A \cup C = FeedsUpto(f, at + p)
  <2>1. \A i \in Feeds(f) : i <= at => i <= at + p
      BY <1>1, <1>2
  <2> QED BY <2>1 DEF FeedsUpto
<1> HIDE DEF A, B, C, shift
<1>7. IsFiniteSet(C) /\ Cardinality(C) = Cardinality(B)
    BY <1>2, <1>5, SameCount
<1>8. Cardinality(A \cup C) = Cardinality(A) + Cardinality(C)
    BY <1>2, <1>6, <1>7, CountBoth
<1> QED BY <1>6, <1>7, <1>8 DEF A, B

LEMMA BeginIs ==
    ASSUME NEW f \in Seq(Chars), NEW row \in Int, NEW start, RowBegins(f, row, start)
    PROVE  /\ start \in Nat /\ start <= Len(f) /\ row \in Nat \ {0} /\ row - 1 <= Cardinality(Feeds(f))
           /\ row = 1 <=> start = 0
           /\ row # 1 => start \in Feeds(f) /\ FeedAt(f, row - 1) = start
<1>1. /\ start \in Nat /\ start <= Len(f) /\ Len(f) \in Nat /\ Cardinality(FeedsUpto(f, start)) = row - 1
      /\ start # 0 => start \in Feeds(f)
    BY DEF RowBegins
<1>2. /\ Feeds(f) \subseteq 1 .. Len(f) /\ FeedsUpto(f, start) \subseteq Feeds(f)
      /\ IsFiniteSet(Feeds(f)) /\ Cardinality(Feeds(f)) \in Nat
      /\ IsFiniteSet(FeedsUpto(f, start)) /\ Cardinality(FeedsUpto(f, start)) \in Nat
    BY <1>1, FeedsAre
<1>3. row \in Nat \ {0}
    BY <1>1, <1>2
<1>4. Cardinality(FeedsUpto(f, start)) <= Cardinality(Feeds(f))
    BY <1>2, FS_Subset
<1>5. start # 0 => start \in Feeds(f) /\ start \in FeedsUpto(f, start)
    BY <1>1 DEF FeedsUpto
<1>6. start = 0 => FeedsUpto(f, start) = {}
    BY <1>2 DEF FeedsUpto
<1>7. row = 1 <=> start = 0
    BY <1>1, <1>2, <1>5, <1>6, FS_EmptySet
<1>8. row # 1 => row - 1 \in 1 .. Cardinality(Feeds(f))
    BY <1>1, <1>2, <1>3, <1>4
<1> QED BY <1>1, <1>2, <1>3, <1>4, <1>5, <1>7, <1>8, FeedAtIs

\* The row from its beginning to the next line feed.
LEMMA RowIs ==
    ASSUME NEW f \in Seq(Chars), NEW row \in Int, NEW start, RowBegins(f, row, start),
           NEW end \in Nat, start <= end, end < Len(f), end + 1 \in Feeds(f), NoFeedIn(f, start, end)
    PROVE  RowOf(f, row) = SubSeq(f, start + 1, end)
<1>1. /\ start \in Nat /\ row \in Nat \ {0} /\ (row = 1 <=> start = 0)
      /\ row # 1 => FeedAt(f, row - 1) = start
    BY BeginIs
<1>2. Cardinality(FeedsUpto(f, start)) = row - 1
    BY DEF RowBegins
<1>3. /\ Len(f) \in Nat /\ Feeds(f) \subseteq 1 .. Len(f)
      /\ IsFiniteSet(Feeds(f)) /\ Cardinality(Feeds(f)) \in Nat
      /\ IsFiniteSet(FeedsUpto(f, start)) /\ FeedsUpto(f, end + 1) \subseteq Feeds(f)
  <2>1. end + 1 \in Nat
      OBVIOUS
  <2>2. FeedsUpto(f, end + 1) \subseteq Feeds(f)
      BY <2>1, FeedsAre
  <2> QED BY <1>1, <2>2, FeedsAre
<1>4. end + 1 \in Feeds(f)
    OBVIOUS
<1>5. FeedsUpto(f, end + 1) = FeedsUpto(f, start) \cup {end + 1} /\ end + 1 \notin FeedsUpto(f, start)
  <2>1. \A i \in Feeds(f) : i <= end + 1 <=> i <= start \/ i = end + 1
    <3>1. SUFFICES ASSUME NEW i \in Feeds(f) PROVE i <= end + 1 <=> i <= start \/ i = end + 1
        OBVIOUS
    <3>2. i \in Nat /\ ~(start < i /\ i <= end)
        BY <1>3, <3>1 DEF NoFeedIn
    <3> QED BY <1>1, <3>2
  <2>2. ~(end + 1 <= start)
      BY <1>1
  <2> QED BY <1>4, <2>1, <2>2 DEF FeedsUpto
<1>6. Cardinality(FeedsUpto(f, end + 1)) = row
  <2>1. Cardinality(FeedsUpto(f, start) \cup {end + 1}) = Cardinality(FeedsUpto(f, start)) + 1
      BY <1>3, <1>5, FS_AddElement
  <2>2. Cardinality(FeedsUpto(f, end + 1)) = (row - 1) + 1
      BY <1>2, <1>5, <2>1
  <2> QED BY <1>1, <2>2
<1>7. row <= Cardinality(Feeds(f))
    BY <1>3, <1>6, FS_Subset
<1>8. row \in 1 .. Cardinality(Feeds(f)) /\ row \in 1 .. Cardinality(Feeds(f)) + 1 /\ row # Cardinality(Feeds(f)) + 1
    BY <1>1, <1>3, <1>7
<1>9. FeedAt(f, row) = end + 1 /\ FeedAt(f, row) - 1 = end
    BY <1>4, <1>6, <1>8, FeedAtIs
<1>10. (IF row = 1 THEN 1 ELSE FeedAt(f, row - 1) + 1) = start + 1
    BY <1>1
<1> QED BY <1>8, <1>9, <1>10 DEF RowOf

\* The last row goes to the end of the file.
LEMMA LastRowIs ==
    ASSUME NEW f \in Seq(Chars), NEW row \in Int, NEW start, RowBegins(f, row, start),
           NoFeedIn(f, start, Len(f))
    PROVE  /\ Cardinality(Feeds(f)) = row - 1
           /\ RowOf(f, row) = SubSeq(f, start + 1, Len(f))
<1>1. /\ start \in Nat /\ row \in Nat \ {0} /\ (row = 1 <=> start = 0)
      /\ row # 1 => FeedAt(f, row - 1) = start
    BY BeginIs
<1>2. Cardinality(FeedsUpto(f, start)) = row - 1
    BY DEF RowBegins
<1>3. Len(f) \in Nat /\ Feeds(f) \subseteq 1 .. Len(f)
    BY <1>1, FeedsAre
<1>4. FeedsUpto(f, start) = Feeds(f)
  <2>1. \A i \in Feeds(f) : i <= start
      BY <1>1, <1>3 DEF NoFeedIn
  <2> QED BY <2>1 DEF FeedsUpto
<1>5. row = Cardinality(Feeds(f)) + 1 /\ row \in 1 .. Cardinality(Feeds(f)) + 1
    BY <1>1, <1>2, <1>4
<1>6. (IF row = 1 THEN 1 ELSE FeedAt(f, row - 1) + 1) = start + 1
    BY <1>1
<1> QED BY <1>2, <1>4, <1>5, <1>6 DEF RowOf

\* A row that the file does not have.
LEMMA NoRowIs ==
    ASSUME NEW f \in Seq(Chars), NEW row \in Int, NoRow(f, row) \/ row < 1
    PROVE  RowOf(f, row) = <<>>
<1>1. row \notin 1 .. Cardinality(Feeds(f)) + 1
  <2>1. Cardinality(Feeds(f)) \in Nat
      BY FeedsAre
  <2> QED BY <2>1 DEF NoRow
<1> QED BY <1>1 DEF RowOf

\* The fields of the state.
LEMMA ReadingHas ==
    ASSUME FileIInv
    PROVE  /\ reading.file \in Seq(Chars) /\ Len(reading.file) \in Nat /\ reading.asked \in Int
           /\ reading.row \in Int /\ reading.at \in Nat /\ reading.start \in Nat /\ reading.end \in Nat
           /\ reading.shown \in Seq(Chars) /\ Len(reading.shown) \in Nat
           /\ Block \in Nat \ {0} /\ Preset \in Nat \ {0} /\ Room \in Nat \ {0}
           /\ Block < Preset /\ Preset < Room
<1>1. reading \in Readings
    BY DEF FileIInv, ReadingOK
<1>2. /\ reading.file \in Seq(Chars) /\ reading.asked \in Int
      /\ reading.row \in Int /\ reading.at \in Nat /\ reading.start \in Nat /\ reading.end \in Nat
      /\ reading.shown \in Seq(Chars)
    BY <1>1 DEF Readings
<1>3. Len(reading.file) \in Nat /\ Len(reading.shown) \in Nat
    BY <1>2
<1>4. /\ Block \in Nat \ {0} /\ Preset \in Nat \ {0} /\ Room \in Nat \ {0}
      /\ Block < Preset /\ Preset < Room
    BY FileAssumption, Zenon
<1> QED BY <1>2, <1>3, <1>4

\* With a block read, the other fields are as they were.
IsRead(r) ==
  /\ r \in Readings
  /\ r.step = reading.step /\ r.file = reading.file /\ r.asked = reading.asked /\ r.row = reading.row
  /\ r.at = reading.at /\ r.start = reading.start /\ r.end = reading.end
  /\ r.shown = reading.shown /\ r.stray = reading.stray /\ r.spoiled = reading.spoiled /\ r.ret = reading.ret

LEMMA ReadIs ==
    ASSUME FileIInv, NEW block \in Seq(Chars)
    PROVE  /\ Overwritten(block) \in [1 .. Room -> Cells]
           /\ IsRead([reading EXCEPT !.strout = Overwritten(block)])
<1>1. reading \in Readings /\ reading.strout \in [1 .. Room -> Cells] /\ Room \in Nat
    BY ReadingHas DEF FileIInv, ReadingOK, Readings
<1>2. ASSUME NEW i \in 1 .. Room
      PROVE  (IF i <= Len(block) THEN block[i] ELSE reading.strout[i]) \in Cells
  <2>1. i <= Len(block) => i \in 1 .. Len(block)
      BY <1>1
  <2> QED BY <1>1, <2>1 DEF Cells
<1>3. Overwritten(block) \in [1 .. Room -> Cells]
    BY <1>2 DEF Overwritten
<1> QED BY <1>1, <1>3 DEF Readings, IsRead

\* strout at first.
Blank == [i \in 1 .. Room |-> IF i <= Preset THEN "preset" ELSE "NUL"]

LEMMA BlankIs == Blank \in [1 .. Room -> Cells] /\ <<>> \in Seq([len : Nat, byte : Cells \cup {"beyond"}])
BY DEF Blank, Cells

LEMMA ListfileSound == ASSUME FileIInv, cmd_listfile PROVE FileIInv'
<1>1. PICK f \in Files, row \in FileRows :
        reading' = [NotReading EXCEPT !.file = f, !.asked = row, !.row = row, !.ret = IF row < 1 THEN -1 ELSE 0,
                      !.step = IF row < 1 THEN "returned" ELSE IF row = 1 THEN "end" ELSE "start"]
    BY Zenon DEF cmd_listfile
<1>2. f \in Seq(Chars) /\ row \in Int /\ Len(f) \in Nat /\ Block \in Nat
  <2>1. f \in Seq(Chars)
      BY FileAssumption, Zenon DEF Chars
  <2>2. row \in Int /\ Block \in Nat
      BY FileAssumption, Zenon
  <2> QED BY <2>1, <2>2
<1>3. /\ reading' \in Readings
      /\ reading'.step = IF row < 1 THEN "returned" ELSE IF row = 1 THEN "end" ELSE "start"
      /\ reading'.ret = IF row < 1 THEN -1 ELSE 0
      /\ reading'.file = f /\ reading'.asked = row /\ reading'.row = row /\ reading'.at = 0
      /\ reading'.start = 0 /\ reading'.end = 0 /\ reading'.shown = <<>>
      /\ reading'.strout = Blank /\ reading'.stray = <<>> /\ reading'.spoiled = FALSE
  <2> DEFINE ret == IF row < 1 THEN -1 ELSE 0
             step == IF row < 1 THEN "returned" ELSE IF row = 1 THEN "end" ELSE "start"
  <2>1. ret \in {0, -1} /\ step \in {"returned", "end", "start"} /\ <<>> \in Seq(Chars)
      OBVIOUS
  <2>2. reading' = [NotReading EXCEPT !.file = f, !.asked = row, !.row = row, !.ret = ret, !.step = step]
      BY <1>1
  <2> HIDE DEF ret, step
  <2>3. reading' = [step |-> step, file |-> f, asked |-> row, row |-> row, at |-> 0, start |-> 0, end |-> 0,
                    strout |-> Blank, shown |-> <<>>, stray |-> <<>>, spoiled |-> FALSE, ret |-> ret]
      BY <2>2 DEF NotReading, Blank
  <2>4. reading' \in Readings
      BY <1>2, <2>1, <2>3, BlankIs DEF Readings
  <2> QED BY <2>3, <2>4 DEF ret, step
<1>4. /\ FeedsUpto(f, 0) = {} /\ Within(f, 0) = 0 /\ NoFeedIn(f, 0, 0)
      /\ LastBlock(f, 0, 0)
  <2>1. \A i \in Feeds(f) : ~(i <= 0) /\ ~(0 < i /\ i <= 0)
    <3>1. Feeds(f) \subseteq 1 .. Len(f)
        BY <1>2, FeedsAre
    <3> QED BY <1>2, <3>1
  <2>2. 0 = 0 + 0 * Block /\ 0 \in Nat /\ ~(0 > Len(f))
      BY <1>2
  <2> QED BY <1>2, <2>1, <2>2 DEF FeedsUpto, Within, NoFeedIn, LastBlock
<1>5. Cardinality(FeedsUpto(f, 0)) = 0
    BY <1>4, FS_EmptySet
<1>6. CASE row < 1
  <2>1. RowOf(f, row) = <<>>
      BY <1>2, <1>6, NoRowIs
  <2>2. reading'.step = "returned" /\ reading'.ret = -1
      BY <1>3, <1>6
  <2> QED BY <1>3, <2>1, <2>2 DEF FileIInv, ReadingOK
<1>7. CASE row = 1
  <2>1. reading'.step = "end" /\ reading'.ret = 0
      BY <1>3, <1>7
  <2>2. RowBegins(f, row, 0)
      BY <1>2, <1>5, <1>7 DEF RowBegins
  <2>3. EndOK(reading')
      BY <1>3, <1>4, <2>2 DEF EndOK
  <2> QED BY <1>3, <1>7, <2>1, <2>3 DEF FileIInv, ReadingOK
<1>8. CASE row > 1
  <2>1. reading'.step = "start" /\ reading'.ret = 0 /\ row >= 2
      BY <1>2, <1>3, <1>8
  <2>2. row - row = 0
      BY <1>2
  <2>3. StartOK(reading')
      BY <1>3, <1>4, <1>5, <2>1, <2>2 DEF StartOK
  <2> QED BY <1>2, <1>3, <2>1, <2>3 DEF FileIInv, ReadingOK
<1> QED BY <1>2, <1>6, <1>7, <1>8

LEMMA FindStartSound == ASSUME FileIInv, FindStart PROVE FileIInv'
<1> DEFINE f == reading.file
           at == reading.at
           block == Fread(Block)
           feeds == Cardinality(Feeds(block))
           p == FeedAt(block, reading.row - 1)
           read == [reading EXCEPT !.strout = Overwritten(block)]
<1>1. /\ f \in Seq(Chars) /\ Len(f) \in Nat /\ reading.asked \in Int /\ reading.row \in Int /\ at \in Nat
      /\ reading.start \in Nat /\ reading.end \in Nat /\ Block \in Nat \ {0}
    BY ReadingHas
<1>2. /\ reading.step = "start" /\ reading.shown = <<>> /\ reading.ret = 0 /\ reading.asked >= 1
      /\ reading.row >= 2 /\ at = Within(f, reading.start)
      /\ Cardinality(FeedsUpto(f, at)) = reading.asked - reading.row
    BY DEF FindStart, FileIInv, ReadingOK, StartOK
<1>3. IsBlock(f, at, Block, block)
    BY <1>1, FreadIs
<1>4. reading' = IF block = <<>> THEN [reading EXCEPT !.step = "end", !.at = reading.start, !.end = reading.start]
                 ELSE IF feeds < reading.row - 1
                      THEN [read EXCEPT !.row = @ - feeds, !.start = @ + Block, !.at = @ + Len(block)]
                      ELSE [read EXCEPT !.step = "end", !.start = reading.start + p, !.at = reading.start + p,
                                        !.end = reading.start + p]
    BY DEF FindStart, Begins
<1>5. reading \in Readings
    BY DEF FileIInv, ReadingOK
<1> HIDE DEF f, at, block, feeds, p
<1>6. block \in Seq(Chars) /\ Len(block) \in Nat /\ Len(block) \in 0 .. Len(block)
    BY <1>3 DEF IsBlock
<1>7. feeds \in Nat /\ FeedsUpto(block, Len(block)) = Feeds(block) /\ Feeds(block) \subseteq 1 .. Len(block)
    BY <1>6, FeedsAre DEF feeds
<1>r. IsRead(read)
    BY <1>6, ReadIs
<1> HIDE DEF read
<1>8. CASE block = <<>>
  <2>1. reading' = [reading EXCEPT !.step = "end", !.at = reading.start, !.end = reading.start]
      BY <1>4, <1>8
  <2>2. Len(block) = 0
      BY <1>8
  <2>3. at >= Len(f) /\ reading.start >= Len(f)
    <3>1. 0 = IF at >= Len(f) THEN 0 ELSE IF at + Block < Len(f) THEN Block ELSE Len(f) - at
        BY <1>3, <2>2 DEF IsBlock
    <3>2. at >= Len(f)
        BY <1>1, <3>1
    <3>3. at = IF reading.start < Len(f) THEN reading.start ELSE Len(f)
        BY <1>2 DEF Within
    <3> QED BY <1>1, <3>2, <3>3
  <2>4. FeedsUpto(f, at) = Feeds(f)
      BY <1>1, <2>3, FeedsAre
  <2>5. NoRow(f, reading.asked)
      BY <1>1, <1>2, <2>4 DEF NoRow
  <2>6. /\ reading' \in Readings
        /\ reading'.step = "end" /\ reading'.shown = <<>> /\ reading'.ret = 0 /\ reading'.asked >= 1
        /\ reading'.file = f /\ reading'.asked = reading.asked /\ reading'.at = reading.start
        /\ reading'.start = reading.start /\ reading'.end = reading.start
    <3>1. reading' \in Readings
        BY <1>1, <1>5, <2>1 DEF Readings
    <3>2. /\ reading'.step = "end" /\ reading'.shown = reading.shown /\ reading'.ret = reading.ret
          /\ reading'.file = reading.file /\ reading'.asked = reading.asked /\ reading'.at = reading.start
          /\ reading'.start = reading.start /\ reading'.end = reading.start
        BY <1>5, <2>1 DEF Readings
    <3> QED BY <1>2, <3>1, <3>2 DEF f
  <2>7. EndOK(reading')
      BY <2>3, <2>5, <2>6 DEF EndOK
  <2> QED BY <2>6, <2>7 DEF FileIInv, ReadingOK
<1>9. CASE block # <<>>
  <2>1. Len(block) # 0
      BY <1>6, <1>9
  <2>2. at < Len(f) /\ at = reading.start
      BY <1>1, <1>2, <1>3, <2>1 DEF IsBlock, Within
  <2>3. CASE feeds < reading.row - 1
    <3>1. reading' = [read EXCEPT !.row = @ - feeds, !.start = @ + Block, !.at = @ + Len(block)]
        BY <1>4, <1>9, <2>3
    <3>2. /\ reading' \in Readings
          /\ reading'.step = "start" /\ reading'.shown = <<>> /\ reading'.ret = 0
          /\ reading'.file = f /\ reading'.asked = reading.asked /\ reading'.row = reading.row - feeds
          /\ reading'.at = at + Len(block) /\ reading'.start = reading.start + Block
      <4>1. reading.row - feeds \in Int /\ reading.start + Block \in Nat /\ reading.at + Len(block) \in Nat
          BY <1>1, <1>6, <1>7, SMTT(30) DEF at
      <4>2. reading' \in Readings
          BY <1>r, <3>1, <4>1 DEF Readings, IsRead
      <4>3. /\ reading'.row = reading.row - feeds /\ reading'.start = reading.start + Block
            /\ reading'.at = reading.at + Len(block) /\ reading'.step = reading.step
            /\ reading'.shown = reading.shown /\ reading'.ret = reading.ret
            /\ reading'.file = reading.file /\ reading'.asked = reading.asked
          BY <1>r, <3>1 DEF Readings, IsRead
      <4> QED BY <1>2, <4>2, <4>3 DEF f, at
    <3>3. reading.row - feeds >= 2
        BY <1>1, <1>7, <2>3
    <3>4. at + Len(block) = Within(f, reading.start + Block)
        BY <1>1, <1>3, <2>2 DEF IsBlock, Within
    <3>5. Cardinality(FeedsUpto(f, at + Len(block))) = (reading.asked - reading.row) + feeds
      <4>1. Cardinality(FeedsUpto(f, at + Len(block)))
              = Cardinality(FeedsUpto(f, at)) + Cardinality(FeedsUpto(block, Len(block)))
          BY <1>1, <1>3, <1>6, CountBlock
      <4> QED BY <1>2, <1>7, <4>1 DEF feeds
    <3>6. (reading.asked - reading.row) + feeds = reading.asked - (reading.row - feeds)
        BY <1>1, <1>7
    <3>7. StartOK(reading')
        BY <3>2, <3>3, <3>4, <3>5, <3>6 DEF StartOK
    <3> QED BY <1>2, <3>2, <3>7 DEF FileIInv, ReadingOK
  <2>4. CASE ~(feeds < reading.row - 1)
    <3>1. reading' = [read EXCEPT !.step = "end", !.start = reading.start + p, !.at = reading.start + p,
                                  !.end = reading.start + p]
        BY <1>4, <1>9, <2>4
    <3>2. reading.row - 1 \in 1 .. feeds
        BY <1>1, <1>2, <1>7, <2>4
    <3>3. p \in Feeds(block) /\ Cardinality(FeedsUpto(block, p)) = reading.row - 1
        BY <1>6, <3>2, FeedAtIs DEF p, feeds
    <3>4. p \in 1 .. Len(block) /\ p \in 0 .. Len(block) /\ p \in Nat
        BY <1>6, <1>7, <3>3
    <3>5. at + p \in 1 .. Len(f) /\ at + p \in 0 .. Len(f) /\ at + p \in Feeds(f)
      <4>1. at + p \in 1 .. Len(f) /\ block[p] = f[at + p]
          BY <1>3, <3>4 DEF IsBlock
      <4>2. block[p] = "line feed"
          BY <3>3, Zenon DEF Feeds
      <4>3. at + p \in DOMAIN f
          BY <1>1, <4>1
      <4>4. at + p \in Feeds(f)
          BY <4>1, <4>2, <4>3, Zenon DEF Feeds
      <4> QED BY <1>1, <4>1, <4>4
    <3>6. Cardinality(FeedsUpto(f, at + p)) = reading.asked - 1
      <4>1. Cardinality(FeedsUpto(f, at + p))
              = Cardinality(FeedsUpto(f, at)) + Cardinality(FeedsUpto(block, p))
          BY <1>1, <1>3, <3>4, CountBlock
      <4>2. (reading.asked - reading.row) + (reading.row - 1) = reading.asked - 1
          BY <1>1
      <4> QED BY <1>2, <3>3, <4>1, <4>2
    <3>7. RowBegins(f, reading.asked, at + p)
        BY <3>5, <3>6 DEF RowBegins
    <3>8. /\ reading' \in Readings
          /\ reading'.step = "end" /\ reading'.shown = <<>> /\ reading'.ret = 0
          /\ reading'.file = f /\ reading'.asked = reading.asked
          /\ reading'.at = at + p /\ reading'.start = at + p /\ reading'.end = at + p
      <4>1. reading.start + p \in Nat /\ reading.start + p = at + p
          BY <1>1, <2>2, <3>4
      <4>2. reading' \in Readings
          BY <1>r, <3>1, <4>1 DEF Readings, IsRead
      <4>3. /\ reading'.step = "end" /\ reading'.start = reading.start + p /\ reading'.at = reading.start + p
            /\ reading'.end = reading.start + p /\ reading'.shown = reading.shown
            /\ reading'.ret = reading.ret /\ reading'.file = reading.file /\ reading'.asked = reading.asked
          BY <1>r, <3>1 DEF Readings, IsRead
      <4> QED BY <1>2, <4>1, <4>2, <4>3 DEF f
    <3>9. /\ at + p = Within(f, at + p) /\ NoFeedIn(f, at + p, at + p)
          /\ LastBlock(f, at + p, at + p)
      <4>1. at + p \in Nat /\ at + p <= Len(f)
          BY <1>1, <3>5
      <4>2. \A i \in Feeds(f) : ~(at + p < i /\ i <= at + p)
        <5>1. Feeds(f) \subseteq 1 .. Len(f)
            BY <1>1, FeedsAre
        <5> QED BY <1>1, <4>1, <5>1
      <4>3. at + p = (at + p) + 0 * Block /\ 0 \in Nat /\ ~(at + p > Len(f))
          BY <1>1, <4>1
      <4> QED BY <1>1, <4>1, <4>2, <4>3 DEF Within, NoFeedIn, LastBlock
    <3>10. EndOK(reading')
        BY <3>7, <3>8, <3>9 DEF EndOK
    <3> QED BY <1>2, <3>8, <3>10 DEF FileIInv, ReadingOK
  <2> QED BY <2>3, <2>4
<1> QED BY <1>8, <1>9

\* How far the blocks that were counted lead.
LEMMA BlocksLead ==
    ASSUME NEW start \in Nat, NEW end \in Nat, NEW n \in Nat, NEW block \in Nat, end = start + n * block
    PROVE  end >= start /\ end + block = start + (n + 1) * block
<1>1. n * block \in Nat
    OBVIOUS
<1>2. (n + 1) * block = n * block + block
    OBVIOUS
<1> QED BY <1>1, <1>2

\* In a block no line feed comes before the first.
LEMMA FirstFeed ==
    ASSUME NEW block \in Seq(Chars), Feeds(block) # {}
    PROVE  FeedAt(block, 1) \in Feeds(block) /\ \A i \in Feeds(block) : FeedAt(block, 1) <= i
<1> DEFINE p == FeedAt(block, 1)
           R == Feeds(block)
<1>1. Len(block) \in Nat /\ R \subseteq 1 .. Len(block) /\ IsFiniteSet(R) /\ Cardinality(R) \in Nat
    BY FeedsAre
<1>2. Cardinality(R) # 0
    BY <1>1, FS_EmptySet
<1>3. 1 \in 1 .. Cardinality(R)
    BY <1>1, <1>2
<1>4. p \in R /\ Cardinality(FeedsUpto(block, p)) = 1
    BY <1>3, FeedAtIs
<1>5. Ordinal(R, p) = 1
    BY <1>4 DEF Ordinal, FeedsUpto
<1> HIDE DEF p, R
<1>6. ASSUME NEW i \in R PROVE p <= i
  <2>1. i \in Nat /\ p \in Nat
      BY <1>1, <1>4
  <2>2. ASSUME i < p PROVE FALSE
    <3>1. Ordinal(R, i) < Ordinal(R, p)
        BY <1>1, <1>4, <2>2, OrdinalGrows
    <3>2. Ordinal(R, i) \in 1 .. Cardinality(R)
        BY <1>1, OrdinalRange
    <3> QED BY <1>1, <1>5, <3>1, <3>2
  <2> QED BY <2>1, <2>2
<1> QED BY <1>4, <1>6 DEF p, R

\* The line feeds of a file behind a place are those of the block read there, as far as it goes.
LEMMA BlockFeeds ==
    ASSUME NEW f \in Seq(Chars), NEW at \in Nat, NEW n \in Nat, NEW block, IsBlock(f, at, n, block)
    PROVE  \A i \in 1 .. Len(block) : i \in Feeds(block) <=> at + i \in Feeds(f)
<1>1. SUFFICES ASSUME NEW i \in 1 .. Len(block)
               PROVE  i \in Feeds(block) <=> at + i \in Feeds(f)
    OBVIOUS
<1>2. at + i \in 1 .. Len(f) /\ block[i] = f[at + i] /\ block \in Seq(Chars)
    BY DEF IsBlock
<1>3. i \in DOMAIN block /\ at + i \in DOMAIN f
    BY <1>2
<1> QED BY <1>2, <1>3, Zenon DEF Feeds

LEMMA FindEndSound == ASSUME FileIInv, FindEnd PROVE FileIInv'
<1> DEFINE f == reading.file
           at == reading.at
           start == reading.start
           end == reading.end
           block == Fread(Block)
           p == FeedAt(block, 1)
           read == [reading EXCEPT !.strout = Overwritten(block)]
<1>1. /\ f \in Seq(Chars) /\ Len(f) \in Nat /\ reading.asked \in Int /\ at \in Nat
      /\ start \in Nat /\ end \in Nat /\ Block \in Nat \ {0}
    BY ReadingHas
<1>2. /\ reading.step = "end" /\ reading.shown = <<>> /\ reading.ret = 0 /\ reading.asked >= 1
      /\ \/ NoRow(f, reading.asked) /\ at = start /\ end = start /\ start >= Len(f)
         \/ /\ RowBegins(f, reading.asked, start) /\ at = Within(f, end)
            /\ NoFeedIn(f, start, at) /\ LastBlock(f, start, end)
    BY DEF FindEnd, FileIInv, ReadingOK, EndOK
<1>3. IsBlock(f, at, Block, block)
    BY <1>1, FreadIs
<1>4. reading' = IF Feeds(block) # {} THEN [read EXCEPT !.step = "show", !.at = start, !.end = @ + p - 1]
                 ELSE IF block = <<>> THEN [reading EXCEPT !.step = "show", !.at = start]
                 ELSE [read EXCEPT !.end = @ + Block, !.at = @ + Len(block)]
    BY DEF FindEnd
<1>5. reading \in Readings
    BY DEF FileIInv, ReadingOK
<1>6. f = reading.file /\ at = reading.at /\ start = reading.start /\ end = reading.end
    OBVIOUS
<1> HIDE DEF f, at, start, end, block, p
<1>7. block \in Seq(Chars) /\ Len(block) \in Nat /\ Feeds(block) \subseteq 1 .. Len(block)
  <2>1. block \in Seq(Chars)
      BY <1>3 DEF IsBlock
  <2> QED BY <2>1, FeedsAre
<1>r. IsRead(read)
    BY <1>7, ReadIs
<1> HIDE DEF read
<1>8. Feeds(f) \subseteq 1 .. Len(f)
    BY <1>1, FeedsAre
<1>9. Len(block) # 0 => at < Len(f)
    BY <1>1, <1>3 DEF IsBlock
<1>10. Len(block) = 0 => at >= Len(f)
    BY <1>1, <1>3, SMTT(30) DEF IsBlock
<1>5a. RowBegins(f, reading.asked, start) => start <= Len(f)
    BY <1>1, BeginIs
<1>12. LastBlock(f, start, end) => end >= start
  <2>1. SUFFICES ASSUME LastBlock(f, start, end) PROVE end >= start
      OBVIOUS
  <2>2. PICK n \in Nat : end = start + n * Block
      BY <2>1 DEF LastBlock
  <2> QED BY <1>1, <2>2, BlocksLead
<1>13. CASE Feeds(block) # {}
  <2>1. p \in Feeds(block) /\ (\A i \in Feeds(block) : p <= i) /\ p \in 1 .. Len(block)
      BY <1>7, <1>13, FirstFeed DEF p
  <2>2. Len(block) # 0 /\ p \in Nat \ {0}
      BY <1>7, <2>1
  <2>3. /\ at < Len(f) /\ RowBegins(f, reading.asked, start) /\ at = end /\ at >= start
        /\ NoFeedIn(f, start, at)
      BY <1>1, <1>2, <1>9, <1>12, <2>2 DEF Within
  <2>4. end + p - 1 \in Nat /\ (end + p - 1) + 1 = at + p
      BY <1>1, <2>2, <2>3
  <2>5. reading' = [read EXCEPT !.step = "show", !.at = start, !.end = @ + p - 1]
      BY <1>4, <1>13
  <2>6. /\ reading' \in Readings /\ reading'.step = "show" /\ reading'.ret = 0
        /\ reading'.file = f /\ reading'.asked = reading.asked /\ reading'.at = start
        /\ reading'.start = start /\ reading'.end = end + p - 1 /\ reading'.shown = <<>>
    <3>1. reading' \in Readings
        BY <1>1, <1>r, <1>6, <2>4, <2>5 DEF Readings, IsRead
    <3>2. /\ reading'.step = "show" /\ reading'.shown = reading.shown /\ reading'.ret = reading.ret
          /\ reading'.file = reading.file /\ reading'.asked = reading.asked /\ reading'.at = start
          /\ reading'.start = reading.start /\ reading'.end = reading.end + p - 1
        BY <1>r, <2>5 DEF Readings, IsRead
    <3> QED BY <1>2, <1>6, <3>1, <3>2
  <2>7. at + p \in Feeds(f) /\ at + p <= Len(f)
      BY <1>1, <1>3, <1>8, <2>1, BlockFeeds
  <2>8. NoFeedIn(f, start, end + p - 1)
    <3>1. SUFFICES ASSUME NEW i \in Feeds(f), start < i, i <= end + p - 1 PROVE FALSE
        BY DEF NoFeedIn
    <3>2. i \in Nat /\ ~(i <= at)
        BY <1>8, <2>3, <3>1 DEF NoFeedIn
    <3>3. i - at \in 1 .. Len(block) /\ at + (i - at) = i /\ i - at < p
        BY <1>1, <1>7, <2>1, <2>2, <2>3, <3>1, <3>2
    <3>4. i - at \in Feeds(block)
        BY <1>1, <1>3, <3>1, <3>3, BlockFeeds
    <3> QED BY <1>1, <2>1, <2>2, <3>2, <3>3, <3>4
  <2>9. RowEnds(f, start, end + p - 1)
    <3>1. ~(end + p - 1 >= Len(f))
        BY <1>1, <2>2, <2>3, <2>7
    <3> QED BY <2>4, <2>7, <2>8, <3>1 DEF RowEnds
  <2>10. ShowOK(reading')
    <3>1. start = start + Len(<<>>) /\ start <= end + p - 1 /\ start <= Len(f) /\ 1 .. Len(<<>>) = {}
        BY <1>1, <1>5a, <2>2, <2>3
    <3> QED BY <2>3, <2>6, <2>9, <3>1 DEF ShowOK
  <2> QED BY <1>2, <2>6, <2>10 DEF FileIInv, ReadingOK
<1>14. CASE Feeds(block) = {} /\ block = <<>>
  <2>1. reading' = [reading EXCEPT !.step = "show", !.at = start]
      BY <1>4, <1>14
  <2>2. /\ reading' \in Readings /\ reading'.step = "show" /\ reading'.ret = 0
        /\ reading'.file = f /\ reading'.asked = reading.asked /\ reading'.at = start
        /\ reading'.start = start /\ reading'.end = end /\ reading'.shown = <<>>
    <3>1. reading' \in Readings
        BY <1>1, <1>5, <2>1 DEF Readings
    <3>2. /\ reading'.step = "show" /\ reading'.shown = reading.shown /\ reading'.ret = reading.ret
          /\ reading'.file = reading.file /\ reading'.asked = reading.asked /\ reading'.at = start
          /\ reading'.start = reading.start /\ reading'.end = reading.end
        BY <1>5, <2>1 DEF Readings
    <3> QED BY <1>2, <1>6, <3>1, <3>2
  <2>3. at >= Len(f)
      BY <1>10, <1>14
  <2>4. CASE NoRow(f, reading.asked) /\ end = start
    <3>1. ShowOK(reading')
        BY <2>2, <2>4 DEF ShowOK
    <3> QED BY <1>2, <2>2, <3>1 DEF FileIInv, ReadingOK
  <2>5. CASE /\ RowBegins(f, reading.asked, start) /\ at = Within(f, end)
             /\ NoFeedIn(f, start, at) /\ LastBlock(f, start, end)
    <3>1. at = Len(f) /\ end >= Len(f) /\ end >= start /\ start <= Len(f)
        BY <1>1, <1>5a, <1>12, <2>3, <2>5 DEF Within
    <3>2. NoFeedIn(f, start, end)
      <4>1. \A i \in Feeds(f) : i <= at
          BY <1>1, <1>8, <3>1
      <4> QED BY <2>5, <4>1 DEF NoFeedIn
    <3>3. ~(end < Len(f))
        BY <1>1, <3>1
    <3>4. RowEnds(f, start, end)
        BY <2>5, <3>2, <3>3 DEF RowEnds
    <3>5. start = start + Len(<<>>) /\ start <= end /\ 1 .. Len(<<>>) = {}
        BY <1>1, <3>1
    <3>6. ShowOK(reading')
        BY <2>2, <2>5, <3>1, <3>4, <3>5 DEF ShowOK
    <3> QED BY <1>2, <2>2, <3>6 DEF FileIInv, ReadingOK
  <2> QED BY <1>2, <2>4, <2>5
<1>15. CASE Feeds(block) = {} /\ block # <<>>
  <2>1. Len(block) # 0
      BY <1>7, <1>15
  <2>2. /\ at < Len(f) /\ RowBegins(f, reading.asked, start) /\ at = end
        /\ NoFeedIn(f, start, at) /\ LastBlock(f, start, end)
      BY <1>1, <1>2, <1>9, <2>1 DEF Within
  <2>3. reading' = [read EXCEPT !.end = @ + Block, !.at = @ + Len(block)]
      BY <1>4, <1>15
  <2>4. /\ reading' \in Readings /\ reading'.step = "end" /\ reading'.ret = 0
        /\ reading'.file = f /\ reading'.asked = reading.asked /\ reading'.at = at + Len(block)
        /\ reading'.start = start /\ reading'.end = end + Block /\ reading'.shown = <<>>
    <3>1. reading.end + Block \in Nat /\ reading.at + Len(block) \in Nat
        BY <1>1, <1>6, <1>7
    <3>2. reading' \in Readings
        BY <1>r, <2>3, <3>1 DEF Readings, IsRead
    <3>3. /\ reading'.step = reading.step /\ reading'.shown = reading.shown /\ reading'.ret = reading.ret
          /\ reading'.file = reading.file /\ reading'.asked = reading.asked
          /\ reading'.at = reading.at + Len(block)
          /\ reading'.start = reading.start /\ reading'.end = reading.end + Block
        BY <1>r, <2>3 DEF Readings, IsRead
    <3> QED BY <1>2, <1>6, <3>2, <3>3
  <2>5. at + Len(block) = Within(f, end + Block)
      BY <1>1, <1>3, <2>2 DEF IsBlock, Within
  <2>6. NoFeedIn(f, start, at + Len(block))
    <3>1. SUFFICES ASSUME NEW i \in Feeds(f), start < i, i <= at + Len(block) PROVE FALSE
        BY DEF NoFeedIn
    <3>2. i \in Nat /\ ~(i <= at)
        BY <1>8, <2>2, <3>1 DEF NoFeedIn
    <3>3. i - at \in 1 .. Len(block) /\ at + (i - at) = i
        BY <1>1, <1>7, <3>1, <3>2
    <3>4. i - at \in Feeds(block)
        BY <1>1, <1>3, <3>1, <3>3, BlockFeeds
    <3> QED BY <1>15, <3>4
  <2>7. LastBlock(f, start, end + Block)
    <3>1. PICK n \in Nat : end = start + n * Block
        BY <2>2 DEF LastBlock
    <3>2. end + Block = start + (n + 1) * Block /\ n + 1 \in Nat
        BY <1>1, <3>1, BlocksLead
    <3>3. (end + Block) - Block < Len(f)
        BY <1>1, <2>2
    <3> QED BY <3>2, <3>3 DEF LastBlock
  <2>8. EndOK(reading')
      BY <2>2, <2>4, <2>5, <2>6, <2>7 DEF EndOK
  <2> QED BY <1>2, <2>4, <2>8 DEF FileIInv, ReadingOK
<1> QED BY <1>13, <1>14, <1>15

\* A row that has been shown to its end.
LEMMA ShownIsRow ==
    ASSUME NEW f \in Seq(Chars), NEW row \in Int, NEW start, NEW end \in Nat, NEW shown \in Seq(Chars),
           RowBegins(f, row, start), RowEnds(f, start, end), start + Len(shown) = end, end <= Len(f),
           \A i \in 1 .. Len(shown) : shown[i] = f[start + i]
    PROVE  shown = RowOf(f, row)
<1>1. start \in Nat /\ start <= Len(f) /\ Len(f) \in Nat /\ Len(shown) \in Nat /\ start <= end
  <2>1. start \in Nat /\ start <= Len(f)
      BY BeginIs
  <2>2. Len(f) \in Nat /\ Len(shown) \in Nat
      OBVIOUS
  <2> QED BY <2>1, <2>2
<1>2. RowOf(f, row) = SubSeq(f, start + 1, end)
  <2>1. CASE end < Len(f)
    <3>1. end + 1 \in Feeds(f) /\ NoFeedIn(f, start, end)
        BY <2>1 DEF RowEnds
    <3> QED BY <1>1, <2>1, <3>1, RowIs, SMTT(30)
  <2>2. CASE end = Len(f)
    <3>1. NoFeedIn(f, start, Len(f))
        BY <2>2 DEF RowEnds
    <3> QED BY <2>2, <3>1, LastRowIs
  <2> QED BY <1>1, <2>1, <2>2
<1>3. CASE Len(shown) = 0
  <2>1. SubSeq(f, start + 1, end) = <<>> /\ shown = <<>>
      BY <1>1, <1>3
  <2> QED BY <1>2, <2>1
<1>4. CASE Len(shown) # 0
  <2>1. start + 1 \in 1 .. Len(f) /\ end \in 1 .. Len(f) /\ start + 1 <= end
      BY <1>1, <1>4
  <2>2. /\ SubSeq(f, start + 1, end) \in Seq(Chars) /\ Len(SubSeq(f, start + 1, end)) = Len(shown)
        /\ \A i \in 1 .. Len(shown) : SubSeq(f, start + 1, end)[i] = f[start + i]
      BY <1>1, <2>1
  <2> DEFINE part == SubSeq(f, start + 1, end)
  <2>3. part \in Seq(Chars) /\ Len(part) = Len(shown) /\ \A i \in 1 .. Len(shown) : part[i] = shown[i]
      BY <2>2
  <2> HIDE DEF part
  <2>4. part = shown
      BY <2>3
  <2> QED BY <1>2, <2>4 DEF part
<1> QED BY <1>3, <1>4

LEMMA ShowSound == ASSUME FileIInv, Show PROVE FileIInv'
<1> DEFINE f == reading.file
           at == reading.at
           start == reading.start
           end == reading.end
           shown == reading.shown
           rest == reading.end - reading.start - Len(reading.shown)
           n == IF rest > Room THEN Room ELSE rest
           block == Fread(n)
<1>1. /\ f \in Seq(Chars) /\ Len(f) \in Nat /\ reading.asked \in Int /\ at \in Nat
      /\ start \in Nat /\ end \in Nat /\ Room \in Nat \ {0} /\ shown \in Seq(Chars) /\ Len(shown) \in Nat
    BY ReadingHas
<1>2. /\ reading.step = "show" /\ reading.ret = 0 /\ reading.asked >= 1
      /\ \/ NoRow(f, reading.asked) /\ end = start /\ shown = <<>>
         \/ /\ RowBegins(f, reading.asked, start) /\ RowEnds(f, start, end)
            /\ at = start + Len(shown) /\ at <= end /\ at <= Len(f)
            /\ \A i \in 1 .. Len(shown) : shown[i] = f[start + i]
    BY DEF Show, FileIInv, ReadingOK, ShowOK
<1>3. \/ rest = 0 /\ reading' = [reading EXCEPT !.step = "returned", !.ret = IF end = start THEN -1 ELSE 0]
      \/ rest # 0 /\ block = <<>> /\ reading' = [reading EXCEPT !.strout = Terminated(@, 0)]
      \/ rest # 0 /\ \E byte \in Cells \cup {"beyond"} : reading' = Printed(block, byte)
  <2>1. CASE rest # 0 /\ block # <<>>
    <3>1. \E byte \in IF Len(block) < Room THEN {Overwritten(block)[Len(block) + 1]} ELSE Beyond :
             reading' = Printed(block, byte)
        BY <2>1 DEF Show
    <3>2. n \in Nat => block \in Seq(Chars)
        BY <1>1, FreadIs DEF IsBlock
    <3>3. n \in Nat
      <4>1. CASE NoRow(f, reading.asked) /\ end = start /\ shown = <<>>
        <5>1. Len(shown) = 0
            BY <4>1
        <5> QED BY <1>1, <2>1, <4>1, <5>1
      <4>2. CASE at = start + Len(shown) /\ at <= end
        <5>1. rest \in Nat
            BY <1>1, <4>2
        <5> HIDE DEF rest
        <5> QED BY <1>1, <5>1
      <4> QED BY <1>2, <4>1, <4>2
    <3>4. Len(block) \in Nat /\ Overwritten(block) \in [1 .. Room -> Cells]
      <4>1. block \in Seq(Chars)
          BY <3>2, <3>3
      <4> HIDE DEF block
      <4>2. Len(block) \in Nat
          BY <4>1
      <4>3. Overwritten(block) \in [1 .. Room -> Cells]
          BY <4>1, ReadIs, Zenon
      <4> QED BY <4>2, <4>3
    <3> HIDE DEF block
    <3>5. Len(block) < Room => Overwritten(block)[Len(block) + 1] \in Cells
        BY <1>1, <3>4
    <3> QED BY <2>1, <3>1, <3>5 DEF Beyond, Cells
  <2> QED BY <2>1 DEF Show
<1>4. reading \in Readings
    BY DEF FileIInv, ReadingOK
<1>5. f = reading.file /\ at = reading.at /\ start = reading.start /\ end = reading.end /\ shown = reading.shown
    OBVIOUS
<1>5a. rest = end - start - Len(shown) /\ at \in Nat /\ start \in Nat /\ end \in Nat /\ Len(shown) \in Nat
    BY <1>1
<1>6. n \in Nat => IsBlock(f, at, n, block)
    BY <1>1, FreadIs
<1> HIDE DEF f, at, start, end, shown, block
<1>7. ASSUME end = start \/ rest = 0
      PROVE  shown = RowOf(f, reading.asked) /\ (end # start => shown # <<>>) /\ (end = start => shown = <<>>)
  <2>1. CASE NoRow(f, reading.asked) /\ end = start /\ shown = <<>>
      BY <1>1, <2>1, NoRowIs
  <2>2. CASE /\ RowBegins(f, reading.asked, start) /\ RowEnds(f, start, end)
             /\ at = start + Len(shown) /\ at <= end /\ at <= Len(f)
             /\ \A i \in 1 .. Len(shown) : shown[i] = f[start + i]
    <3>1. start + Len(shown) = end /\ end <= Len(f)
        BY <1>5a, <1>7, <2>2
    <3>2. shown = RowOf(f, reading.asked)
        BY <1>1, <2>2, <3>1, ShownIsRow
    <3>3. end = start <=> Len(shown) = 0
        BY <1>1, <3>1
    <3> QED BY <1>1, <3>2, <3>3
  <2> QED BY <1>2, <2>1, <2>2
<1>8. CASE rest = 0
  <2>1. reading' = [reading EXCEPT !.step = "returned", !.ret = IF end = start THEN -1 ELSE 0]
      BY <1>3, <1>8
  <2>2. /\ reading' \in Readings /\ reading'.step = "returned" /\ reading'.ret = IF end = start THEN -1 ELSE 0
        /\ reading'.file = reading.file /\ reading'.asked = reading.asked /\ reading'.shown = reading.shown
      BY <1>4, <2>1 DEF Readings
  <2> QED BY <1>5, <1>7, <1>8, <2>2 DEF FileIInv, ReadingOK
<1>9. CASE rest # 0 /\ block = <<>> /\ reading' = [reading EXCEPT !.strout = Terminated(@, 0)]
  <2>1. /\ reading.strout \in [1 .. Room -> Cells]
        /\ Terminated(reading.strout, 0) \in [1 .. Room -> Cells]
    <3>1. reading.strout \in [1 .. Room -> Cells]
        BY <1>4 DEF Readings
    <3> QED BY <3>1 DEF Terminated, Cells
  <2>2. /\ reading' \in Readings /\ reading'.step = "show" /\ reading'.ret = reading.ret
        /\ reading'.file = reading.file /\ reading'.asked = reading.asked /\ reading'.at = reading.at
        /\ reading'.start = reading.start /\ reading'.end = reading.end /\ reading'.shown = reading.shown
      BY <1>2, <1>4, <1>9, <2>1 DEF Readings
  <2>3. ShowOK(reading')
      BY <1>2, <1>5, <2>2 DEF ShowOK
  <2> QED BY <1>2, <2>2, <2>3 DEF FileIInv, ReadingOK
<1>10. CASE rest # 0 /\ \E byte \in Cells \cup {"beyond"} : reading' = Printed(block, byte)
  <2>1. /\ RowBegins(f, reading.asked, start) /\ RowEnds(f, start, end)
        /\ at = start + Len(shown) /\ at <= end /\ at <= Len(f)
        /\ \A i \in 1 .. Len(shown) : shown[i] = f[start + i]
    <3>1. CASE NoRow(f, reading.asked) /\ end = start /\ shown = <<>>
      <4>1. Len(shown) = 0
          BY <3>1
      <4> QED BY <1>5a, <1>10, <3>1, <4>1
    <3> QED BY <1>2, <3>1
  <2>2. n \in Nat /\ at + n <= end
    <3> HIDE DEF rest
    <3>1. rest \in Nat /\ at + rest = end
      <4>1. at = start + Len(shown) /\ at <= end
          BY <2>1
      <4> QED BY <1>5a, <4>1
    <3>2. n \in Nat /\ n <= rest
        BY <1>1, <3>1
    <3> QED BY <1>1, <3>1, <3>2
  <2>3. IsBlock(f, at, n, block)
      BY <1>6, <2>2
  <2> HIDE DEF n
  <2>4. block \in Seq(Chars) /\ Len(block) \in Nat /\ at + Len(block) <= Len(f) /\ at + Len(block) <= end
        /\ \A i \in 1 .. Len(block) : block[i] = f[at + i]
    <3>1. block \in Seq(Chars) /\ \A i \in 1 .. Len(block) : block[i] = f[at + i]
        BY <2>3 DEF IsBlock
    <3>2. Len(block) = IF at >= Len(f) THEN 0 ELSE IF at + n < Len(f) THEN n ELSE Len(f) - at
        BY <2>3 DEF IsBlock
    <3>3. Len(block) \in Nat
        BY <3>1
    <3>4. Len(block) <= n /\ (Len(block) = 0 \/ at + Len(block) <= Len(f))
      <4>1. at <= Len(f) /\ n \in Nat /\ at \in Nat /\ Len(f) \in Nat
          BY <1>1, <2>1, <2>2
      <4>2. CASE at >= Len(f)
          BY <3>2, <4>1, <4>2
      <4>3. CASE ~(at >= Len(f)) /\ at + n < Len(f)
          BY <3>2, <4>1, <4>3
      <4>4. CASE ~(at >= Len(f)) /\ ~(at + n < Len(f))
          BY <3>2, <4>1, <4>4
      <4> QED BY <4>2, <4>3, <4>4
    <3>5. at + Len(block) <= Len(f)
        BY <1>1, <2>1, <3>3, <3>4
    <3>6. at + Len(block) <= end
        BY <1>1, <2>2, <3>3, <3>4
    <3> QED BY <3>1, <3>3, <3>5, <3>6
  <2>5. PICK byte \in Cells \cup {"beyond"} : reading' = Printed(block, byte)
      BY <1>10
  <2>6. shown \o block \in Seq(Chars) /\ Len(shown \o block) = Len(shown) + Len(block)
        /\ at + Len(block) \in Nat
      BY <1>1, <2>4
  <2>7. /\ reading' \in Readings /\ reading'.step = "show" /\ reading'.ret = 0
        /\ reading'.file = f /\ reading'.asked = reading.asked /\ reading'.at = at + Len(block)
        /\ reading'.start = start /\ reading'.end = end /\ reading'.shown = shown \o block
    <3>0. /\ reading.strout \in [1 .. Room -> Cells] /\ reading.spoiled \in BOOLEAN
          /\ reading.stray \in Seq([len : Nat, byte : Cells \cup {"beyond"}])
        BY <1>4 DEF Readings
    <3>a. PICK cells : cells = Terminated(Overwritten(block), Len(block)) /\ cells \in [1 .. Room -> Cells]
      <4>1. Overwritten(block) \in [1 .. Room -> Cells]
          BY <2>4, ReadIs
      <4>2. Terminated(Overwritten(block), Len(block)) \in [1 .. Room -> Cells]
          BY <4>1 DEF Terminated, Cells
      <4> QED BY <4>2
    <3>b. PICK stray : /\ stray = Append(reading.stray, [len |-> Len(block), byte |-> byte])
                       /\ stray \in Seq([len : Nat, byte : Cells \cup {"beyond"}])
      <4>1. [len |-> Len(block), byte |-> byte] \in [len : Nat, byte : Cells \cup {"beyond"}]
          BY <2>4, <2>5
      <4>2. Append(reading.stray, [len |-> Len(block), byte |-> byte]) \in Seq([len : Nat, byte : Cells \cup {"beyond"}])
          BY <3>0, <4>1
      <4> QED BY <4>2
    <3>c. PICK spoiled \in BOOLEAN : spoiled = (reading.spoiled \/ Len(block) + 2 > Room)
        BY <1>1, <2>4, <3>0
    <3>d. reading' = [reading EXCEPT !.shown = @ \o block, !.at = @ + Len(block), !.stray = stray,
                        !.strout = cells, !.spoiled = spoiled]
        BY <2>5, <3>a, <3>b, <3>c DEF Printed
    <3>1. reading' \in Readings
        BY <1>4, <1>5, <2>6, <3>a, <3>b, <3>c, <3>d DEF Readings
    <3>2. /\ reading'.step = reading.step /\ reading'.shown = reading.shown \o block /\ reading'.ret = reading.ret
          /\ reading'.file = reading.file /\ reading'.asked = reading.asked
          /\ reading'.at = reading.at + Len(block)
          /\ reading'.start = reading.start /\ reading'.end = reading.end
        BY <1>4, <3>d DEF Readings
    <3> QED BY <1>2, <1>5, <3>1, <3>2
  <2>8. \A i \in 1 .. Len(shown \o block) : (shown \o block)[i] = f[start + i]
    <3>1. SUFFICES ASSUME NEW i \in 1 .. Len(shown \o block) PROVE (shown \o block)[i] = f[start + i]
        OBVIOUS
    <3>2. CASE i <= Len(shown)
        BY <1>1, <2>1, <2>4, <3>2, SMTT(30)
    <3>3. CASE ~(i <= Len(shown))
      <4>1. i - Len(shown) \in 1 .. Len(block) /\ at + (i - Len(shown)) = start + i
          BY <1>1, <2>1, <2>4, <2>6, <3>3
      <4>2. (shown \o block)[i] = block[i - Len(shown)]
          BY <1>1, <2>4, <2>6, <3>3
      <4> QED BY <2>4, <4>1, <4>2
    <3> QED BY <3>2, <3>3
  <2>9. at + Len(block) = start + Len(shown \o block)
      BY <1>1, <2>1, <2>4, <2>6
  <2>10. ShowOK(reading')
      BY <2>1, <2>4, <2>7, <2>8, <2>9 DEF ShowOK
  <2> QED BY <1>2, <2>7, <2>10 DEF FileIInv, ReadingOK
<1> QED BY <1>3, <1>8, <1>9, <1>10

LEMMA NotReadingSound == ReadingOK(NotReading)
<1>1. NotReading \in Readings /\ NotReading.step = "none"
    BY BlankIs DEF NotReading, Readings, Blank
<1> QED BY <1>1 DEF ReadingOK

LEMMA FileInductive == ASSUME FileIInv, [FileNext]_fileVars PROVE FileIInv'
<1>1. CASE cmd_listfile
    BY <1>1, ListfileSound
<1>2. CASE FindStart
    BY <1>2, FindStartSound
<1>3. CASE FindEnd
    BY <1>3, FindEndSound
<1>4. CASE Show
    BY <1>4, ShowSound
<1>5. CASE FileReturns
    BY <1>5, NotReadingSound DEF FileReturns, FileIInv
<1>6. CASE UNCHANGED fileVars
    BY <1>6 DEF FileIInv, fileVars
<1> QED BY <1>1, <1>2, <1>3, <1>4, <1>5, <1>6 DEF FileNext

\* What the array holds and what it printed that it should not: until the row is shown only
\* the blocks read changed it, and then every piece but the last fills it.
StillThere(cells) == \A i \in Block + 1 .. Room : cells[i] = IF i <= Preset THEN "preset" ELSE "NUL"

StraysOf(r) ==
  /\ \A i \in DOMAIN r.stray : r.stray[i].byte \in Stray(r.shown, r.stray[i].len)
  /\ r.spoiled <=> Len(r.shown) >= Room - 1

NoneYet(r) == r.stray = <<>> /\ ~r.spoiled /\ StillThere(r.strout)

\* The line feed that was found, where the row is shorter than a block.
FeedThere(r) ==
  LET n == r.end - r.start IN n < Block /\ n # 0 => r.strout[n + 1] = "line feed"

FullPieces(r) ==
  /\ Len(r.shown) >= Room /\ r.spoiled /\ \A i \in 1 .. Room : r.strout[i] = "char"
  /\ \A i \in DOMAIN r.stray : r.stray[i].len = Room /\ r.stray[i].byte \in Beyond

StrayOK(r) ==
  /\ r.step \in {"start", "end"} => NoneYet(r)
  /\ r.step = "show" =>
       /\ r.shown = <<>> /\ r.at < Len(r.file) => NoneYet(r) /\ FeedThere(r)
       /\ r.shown # <<>> /\ r.at < r.end /\ r.at < Len(r.file) => FullPieces(r)
       /\ r.end - r.start = Len(r.shown) => StraysOf(r)
  /\ r.step = "returned" => StraysOf(r)

\* Nothing printed yet.
LEMMA NoneStray ==
    ASSUME NEW r, r.stray = <<>>, ~r.spoiled, r.shown = <<>>
    PROVE  StraysOf(r)
<1>1. DOMAIN r.stray = {} /\ Len(r.shown) = 0
    OBVIOUS
<1>2. Room \in Nat /\ Room > 1
  <2>1. Block \in Nat \ {0} /\ Preset \in Nat \ {0} /\ Room \in Nat \ {0} /\ Block < Preset /\ Preset < Room
      BY FileAssumption, Zenon
  <2> QED BY <2>1
<1>3. ~(0 >= Room - 1)
    BY <1>2
<1> QED BY <1>1, <1>3 DEF StraysOf

LEMMA BlankUntouched == StillThere(Blank)
<1>1. Block \in Nat /\ Room \in Nat
    BY FileAssumption
<1> QED BY <1>1 DEF StillThere, Blank

\* A block of the search lies in the array's first cells.
LEMMA SearchUntouched ==
    ASSUME FileIInv, StillThere(reading.strout), NEW block \in Seq(Chars), Len(block) <= Block
    PROVE  StillThere(Overwritten(block))
<1>1. Block \in Nat /\ Room \in Nat /\ Len(block) \in Nat
    BY ReadingHas
<1>2. \A i \in Block + 1 .. Room : i \in 1 .. Room /\ ~(i <= Len(block))
    BY <1>1
<1> QED BY <1>2 DEF StillThere, Overwritten

LEMMA StrayStart == ASSUME FileIInv, StrayOK(reading), FindStart PROVE StrayOK(reading')
<1> DEFINE block == Fread(Block)
           read == [reading EXCEPT !.strout = Overwritten(block)]
<1>1. IsBlock(reading.file, reading.at, Block, block) /\ Block \in Nat \ {0}
    BY ReadingHas, FreadIs
<1>2. block \in Seq(Chars) /\ Len(block) \in Nat /\ Len(block) <= Block
  <2>1. reading.at \in Nat /\ Len(reading.file) \in Nat
      BY ReadingHas
  <2> HIDE DEF block
  <2> QED BY <1>1, <2>1 DEF IsBlock
<1>3. reading \in Readings /\ NoneYet(reading) /\ reading.step = "start"
    BY DEF FileIInv, ReadingOK, StrayOK, FindStart
<1>4. IsRead(read) /\ StillThere(Overwritten(block))
    BY <1>2, <1>3, ReadIs, SearchUntouched DEF NoneYet
<1>5. NoneYet(read)
    BY <1>3, <1>4 DEF NoneYet, Readings, IsRead
<1>6. \/ reading' = [reading EXCEPT !.step = "end", !.at = reading.start, !.end = reading.start]
      \/ reading' = [read EXCEPT !.row = @ - Cardinality(Feeds(block)), !.start = @ + Block, !.at = @ + Len(block)]
      \/ \E begins : reading' = [read EXCEPT !.step = "end", !.start = begins, !.at = begins, !.end = begins]
    BY DEF FindStart
<1> HIDE DEF read, block
<1>7. /\ reading'.step \in {"start", "end"} /\ reading'.stray = <<>> /\ ~reading'.spoiled
      /\ StillThere(reading'.strout)
  <2>1. CASE reading' = [reading EXCEPT !.step = "end", !.at = reading.start, !.end = reading.start]
      BY <1>3, <2>1 DEF NoneYet, Readings
  <2>2. CASE reading' = [read EXCEPT !.row = @ - Cardinality(Feeds(block)), !.start = @ + Block, !.at = @ + Len(block)]
      BY <1>3, <1>4, <1>5, <2>2 DEF NoneYet, Readings, IsRead
  <2>3. CASE \E begins : reading' = [read EXCEPT !.step = "end", !.start = begins, !.at = begins, !.end = begins]
    <3>1. PICK begins : reading' = [read EXCEPT !.step = "end", !.start = begins, !.at = begins, !.end = begins]
        BY <2>3
    <3> QED BY <1>3, <1>4, <1>5, <3>1 DEF NoneYet, Readings, IsRead
  <2> QED BY <1>6, <2>1, <2>2, <2>3
<1> QED BY <1>7 DEF StrayOK, NoneYet

LEMMA StrayEnd == ASSUME FileIInv, StrayOK(reading), FindEnd PROVE StrayOK(reading')
<1> DEFINE block == Fread(Block)
           read == [reading EXCEPT !.strout = Overwritten(block)]
           p == FeedAt(block, 1)
           n == reading'.end - reading'.start
<1>1. IsBlock(reading.file, reading.at, Block, block) /\ Block \in Nat \ {0} /\ Room \in Nat /\ Block < Room
      /\ reading.start \in Nat /\ reading.end \in Nat
    BY ReadingHas, FreadIs
<1>2. block \in Seq(Chars) /\ Len(block) \in Nat /\ Len(block) <= Block
  <2>1. reading.at \in Nat /\ Len(reading.file) \in Nat
      BY ReadingHas
  <2> HIDE DEF block
  <2> QED BY <1>1, <2>1 DEF IsBlock
<1>3. reading \in Readings /\ NoneYet(reading) /\ reading.step = "end" /\ reading.shown = <<>>
    BY DEF FileIInv, ReadingOK, StrayOK, FindEnd
<1>4. IsRead(read) /\ StillThere(Overwritten(block))
    BY <1>2, <1>3, ReadIs, SearchUntouched DEF NoneYet
<1>4a. read.strout = Overwritten(block)
    BY <1>3 DEF Readings
<1>5. NoneYet(read)
    BY <1>3, <1>4, <1>4a DEF NoneYet, IsRead
<1>6. \/ Feeds(block) # {} /\ reading' = [read EXCEPT !.step = "show", !.at = reading.start, !.end = @ + p - 1]
      \/ block = <<>> /\ reading' = [reading EXCEPT !.step = "show", !.at = reading.start]
      \/ reading' = [read EXCEPT !.end = @ + Block, !.at = @ + Len(block)]
    BY DEF FindEnd
\* The row so far is some blocks long.
<1>7. reading.end = reading.start \/ reading.end >= reading.start + Block
  <2>1. reading.end = reading.start \/ LastBlock(reading.file, reading.start, reading.end)
      BY DEF FileIInv, ReadingOK, EndOK, FindEnd
  <2>2. ASSUME NEW m \in Nat, reading.end = reading.start + m * Block
        PROVE  reading.end = reading.start \/ reading.end >= reading.start + Block
    <3>1. CASE m = 0
        BY <1>1, <2>2, <3>1
    <3>2. CASE m # 0
      <4>1. m - 1 \in Nat /\ (m - 1) * Block \in Nat /\ m * Block = (m - 1) * Block + Block
          BY <1>1, <3>2
      <4> QED BY <1>1, <2>2, <4>1
    <3> QED BY <3>1, <3>2
  <2> QED BY <2>1, <2>2 DEF LastBlock
<1> HIDE DEF read, block, p
<1>8. CASE Feeds(block) # {} /\ reading' = [read EXCEPT !.step = "show", !.at = reading.start, !.end = @ + p - 1]
  <2>1. p \in Feeds(block) /\ p \in 1 .. Len(block)
      BY <1>2, <1>8, FirstFeed, FeedsAre DEF p
  <2>2. /\ reading'.step = "show" /\ reading'.shown = <<>> /\ reading'.stray = <<>> /\ ~reading'.spoiled
        /\ reading'.strout = Overwritten(block) /\ reading'.start = reading.start
        /\ reading'.end = reading.end + p - 1
      BY <1>3, <1>4, <1>4a, <1>5, <1>8 DEF NoneYet, Readings, IsRead
  <2>3. FeedThere(reading')
    <3>1. SUFFICES ASSUME n < Block PROVE reading'.strout[n + 1] = "line feed"
        BY DEF FeedThere
    <3>2. n + 1 = p /\ p \in 1 .. Room /\ p <= Len(block)
        BY <1>1, <1>2, <1>7, <2>1, <2>2, <3>1
    <3>3. block[p] = "line feed"
        BY <2>1, Zenon DEF Feeds
    <3> QED BY <2>2, <3>2, <3>3 DEF Overwritten
  <2>4. NoneYet(reading')
      BY <1>4, <2>2 DEF NoneYet
  <2>5. StraysOf(reading')
      BY <2>2, NoneStray
  <2> QED BY <2>2, <2>3, <2>4, <2>5 DEF StrayOK
<1>9. CASE block = <<>> /\ reading' = [reading EXCEPT !.step = "show", !.at = reading.start]
  <2>0. /\ reading'.step = "show" /\ reading'.shown = reading.shown /\ reading'.stray = reading.stray
        /\ reading'.spoiled = reading.spoiled
        /\ reading'.strout = reading.strout /\ reading'.start = reading.start /\ reading'.end = reading.end
      BY <1>3, <1>9 DEF Readings
  <2>1. /\ reading'.step = "show" /\ reading'.shown = <<>> /\ reading'.stray = <<>> /\ ~reading'.spoiled
        /\ reading'.strout = reading.strout /\ reading'.start = reading.start /\ reading'.end = reading.end
      BY <1>3, <2>0 DEF NoneYet
  <2>2. FeedThere(reading')
    <3>1. reading.end - reading.start = 0 \/ ~(reading.end - reading.start < Block)
        BY <1>1, <1>7
    <3> QED BY <2>1, <3>1 DEF FeedThere
  <2>3. NoneYet(reading')
      BY <1>3, <2>1 DEF NoneYet
  <2>4. StraysOf(reading')
      BY <2>1, NoneStray
  <2> QED BY <2>1, <2>2, <2>3, <2>4 DEF StrayOK
<1>10. CASE reading' = [read EXCEPT !.end = @ + Block, !.at = @ + Len(block)]
  <2>1. /\ reading'.step = "end" /\ reading'.stray = <<>> /\ ~reading'.spoiled
        /\ reading'.strout = Overwritten(block)
      BY <1>3, <1>4, <1>4a, <1>5, <1>10 DEF NoneYet, Readings, IsRead
  <2> QED BY <1>4, <2>1 DEF StrayOK, NoneYet
<1> QED BY <1>6, <1>8, <1>9, <1>10

\* A piece of the row is printed: what stands behind it, and what the array then holds.
LEMMA StrayPiece ==
    ASSUME FileIInv, FileIInv', StrayOK(reading), reading.step = "show", NEW block \in Seq(Chars), block # <<>>,
           NEW n \in Nat, n = IF reading.end - reading.start - Len(reading.shown) > Room THEN Room
                              ELSE reading.end - reading.start - Len(reading.shown),
           n # 0, IsBlock(reading.file, reading.at, n, block),
           NEW byte \in IF Len(block) < Room THEN {Overwritten(block)[Len(block) + 1]} ELSE Beyond,
           reading' = Printed(block, byte)
    PROVE  StrayOK(reading')
<1> DEFINE l == Len(block)
           old == reading.shown
           len == reading.end - reading.start
<1>1. /\ l \in Nat /\ l # 0 /\ l <= n /\ l <= Room /\ Room \in Nat /\ Block \in Nat /\ Preset \in Nat
      /\ Block < Preset /\ Preset < Room /\ reading.at \in Nat /\ reading.end \in Nat /\ reading.start \in Nat
      /\ Len(reading.file) \in Nat /\ Len(old) \in Nat /\ old \in Seq(Chars) /\ reading.at < Len(reading.file)
  <2>1. /\ l \in Nat /\ l # 0
      OBVIOUS
  <2>2. l = IF reading.at >= Len(reading.file) THEN 0
            ELSE IF reading.at + n < Len(reading.file) THEN n ELSE Len(reading.file) - reading.at
      BY DEF IsBlock
  <2>3. /\ Room \in Nat /\ Block \in Nat /\ Preset \in Nat
        /\ Block < Preset /\ Preset < Room /\ reading.at \in Nat /\ reading.end \in Nat /\ reading.start \in Nat
        /\ Len(reading.file) \in Nat /\ Len(old) \in Nat /\ old \in Seq(Chars)
      BY ReadingHas
  <2> QED BY <2>1, <2>2, <2>3
<1>2. /\ reading \in Readings
      /\ RowBegins(reading.file, reading.asked, reading.start) /\ RowEnds(reading.file, reading.start, reading.end)
      /\ reading.at = reading.start + Len(old) /\ reading.at <= reading.end /\ reading.at <= Len(reading.file)
  <2>1. \/ reading.end = reading.start /\ old = <<>>
        \/ /\ RowBegins(reading.file, reading.asked, reading.start)
           /\ RowEnds(reading.file, reading.start, reading.end)
           /\ reading.at = reading.start + Len(old) /\ reading.at <= reading.end /\ reading.at <= Len(reading.file)
      BY DEF FileIInv, ReadingOK, ShowOK
  <2>2. ~(reading.end = reading.start /\ old = <<>>)
      BY <1>1
  <2> QED BY <2>1, <2>2 DEF FileIInv, ReadingOK
<1>3. /\ reading'.step = "show" /\ reading'.file = reading.file /\ reading'.start = reading.start
      /\ reading'.end = reading.end /\ reading'.at = reading.at + l /\ reading'.shown = old \o block
      /\ reading'.stray = Append(reading.stray, [len |-> l, byte |-> byte])
      /\ reading'.strout = Terminated(Overwritten(block), l)
      /\ reading'.spoiled <=> (reading.spoiled \/ l + 2 > Room)
  <2>1. reading'.spoiled = (reading.spoiled \/ l + 2 > Room)
      BY <1>2 DEF Printed, Readings
  <2>2. reading.spoiled \in BOOLEAN
      BY <1>2 DEF Readings
  <2> QED BY <1>2, <2>1, <2>2 DEF Printed, Readings
<1>4. Len(old \o block) = Len(old) + l /\ old \o block # <<>> /\ reading.at < reading.end
  <2>1. Len(old \o block) = Len(old) + l
      BY <1>1
  <2> QED BY <1>1, <1>2, <2>1
<1>5. \/ old = <<>> /\ Len(old) = 0 /\ NoneYet(reading) /\ FeedThere(reading)
      \/ old # <<>> /\ FullPieces(reading)
    BY <1>1, <1>2, <1>4 DEF StrayOK
<1>6. /\ reading.stray \in Seq([len : Nat, byte : Cells \cup {"beyond"}])
      /\ \A i \in DOMAIN reading'.stray :
           \/ i \in DOMAIN reading.stray /\ reading'.stray[i] = reading.stray[i]
           \/ reading'.stray[i] = [len |-> l, byte |-> byte]
  <2>1. reading.stray \in Seq([len : Nat, byte : Cells \cup {"beyond"}])
      BY <1>2 DEF Readings
  <2> HIDE DEF l
  <2> QED BY <1>3, <2>1
<1>7. \A i \in DOMAIN reading.stray : reading.stray[i].len = Room /\ reading.stray[i].byte \in Beyond
    BY <1>5, <1>6 DEF NoneYet, FullPieces
<1>8. \A i \in DOMAIN reading'.stray :
        \/ reading'.stray[i].len = Room /\ reading'.stray[i].byte \in Beyond
        \/ reading'.stray[i].len = l /\ reading'.stray[i].byte = byte
    BY <1>6, <1>7, SMTT(30)
\* A piece that fills the array.
<1>9. CASE l = Room
  <2>1. byte \in Beyond
      BY <1>1, <1>9
  <2>2. \A i \in DOMAIN reading'.stray : reading'.stray[i].len = Room /\ reading'.stray[i].byte \in Beyond
      BY <1>8, <1>9, <2>1
  <2>3. Len(old \o block) >= Room /\ reading'.spoiled
    <3>1. l + 2 > Room
        BY <1>1, <1>9
    <3> QED BY <1>1, <1>3, <1>4, <1>9, <3>1
  <2>4. \A i \in 1 .. Room : reading'.strout[i] = "char"
    <3>1. SUFFICES ASSUME NEW i \in 1 .. Room PROVE reading'.strout[i] = "char"
        OBVIOUS
    <3>2. reading'.strout[i] = block[i] /\ i \in 1 .. Len(block)
        BY <1>1, <1>3, <1>9 DEF Terminated, Overwritten
    <3>3. block[i] = reading.file[reading.at + i] /\ reading.at + i \in 1 .. Len(reading.file)
          /\ block[i] \in Chars
        BY <3>2 DEF IsBlock
    <3>4. reading.start < reading.at + i /\ reading.at + i <= reading.end
      <4>1. n <= reading.end - reading.start - Len(old)
          BY <1>1
      <4>2. /\ reading.at \in Nat /\ reading.start \in Nat /\ reading.end \in Nat /\ Len(old) \in Nat
            /\ l \in Nat /\ l <= n
          BY <1>1
      <4>3. reading.at = reading.start + Len(old)
          BY <1>2
      <4>4. i \in Nat /\ 1 <= i /\ i <= l
          BY <3>2, <4>2
      <4> HIDE DEF l, old
      <4> QED BY <4>1, <4>2, <4>3, <4>4, SMTT(30)
    <3>5. reading.at + i \notin Feeds(reading.file)
        BY <1>2, <3>4 DEF RowEnds, NoFeedIn
    <3>6. reading.file \in Seq(Chars)
        BY <1>2 DEF Readings
    <3>7. reading.at + i \in DOMAIN reading.file
        BY <3>3, <3>6
    <3>8. reading.file[reading.at + i] # "line feed"
        BY <3>5, <3>7, Zenon DEF Feeds
    <3> QED BY <3>2, <3>3, <3>8 DEF Chars
  <2>5. FullPieces(reading')
      BY <1>3, <2>2, <2>3, <2>4 DEF FullPieces
  <2>6. StraysOf(reading')
    <3>1. \A i \in DOMAIN reading'.stray : reading'.stray[i].byte \in Stray(reading'.shown, reading'.stray[i].len)
        BY <2>2 DEF Stray
    <3>2. Len(reading'.shown) >= Room - 1
        BY <1>1, <1>3, <1>4, <2>3
    <3> QED BY <2>3, <3>1, <3>2 DEF StraysOf
  <2> QED BY <1>3, <1>4, <2>5, <2>6 DEF StrayOK
\* The last piece, or one that ends with the file.
<1>10. CASE l # Room
  <2>1. l < Room /\ byte = Overwritten(block)[l + 1] /\ l + 1 \in 1 .. Room
      BY <1>1, <1>10
  <2>2. byte = reading.strout[l + 1]
      BY <1>1, <2>1 DEF Overwritten
  <2>3. ~(reading'.at < reading'.end /\ reading'.at < Len(reading'.file))
    <3>1. l = IF reading.at + n < Len(reading.file) THEN n ELSE Len(reading.file) - reading.at
        BY <1>1 DEF IsBlock
    <3>2. CASE l = n
      <4>1. n = reading.end - reading.start - Len(old)
          BY <1>1, <1>10, <3>2
      <4>2. reading.at + l = reading.end
          BY <1>1, <1>2, <3>2, <4>1
      <4> QED BY <1>1, <1>3, <4>2
    <3>3. CASE l = Len(reading.file) - reading.at
      <4>1. reading.at + l = Len(reading.file)
          BY <1>1, <3>3
      <4> QED BY <1>1, <1>3, <4>1
    <3> QED BY <3>1, <3>2, <3>3
  <2>4. ASSUME len = Len(old \o block) PROVE StraysOf(reading')
    <3>1. CASE old = <<>> /\ Len(old) = 0 /\ NoneYet(reading) /\ FeedThere(reading)
      <4>1. Len(old \o block) = l /\ len = l
          BY <1>1, <1>4, <2>4, <3>1
      <4>2. byte \in Stray(reading'.shown, l)
        <5>1. l < Block => byte = "line feed"
            BY <1>1, <2>2, <3>1, <4>1 DEF FeedThere
        <5>2. ~(l < Block) => byte = IF l < Preset THEN "preset" ELSE "NUL"
          <6>1. SUFFICES ASSUME ~(l < Block) PROVE byte = IF l < Preset THEN "preset" ELSE "NUL"
              OBVIOUS
          <6>2. l + 1 \in Block + 1 .. Room
              BY <1>1, <2>1, <6>1
          <6>3. byte = IF l + 1 <= Preset THEN "preset" ELSE "NUL"
              BY <2>2, <3>1, <6>2 DEF NoneYet, StillThere
          <6> QED BY <1>1, <6>3
        <5>3. ~(Len(reading'.shown) > Room) /\ Len(reading'.shown) = l
            BY <1>1, <1>3, <2>1, <4>1
        <5> QED BY <1>10, <5>1, <5>2, <5>3 DEF Stray
      <4>3. \A i \in DOMAIN reading'.stray : reading'.stray[i].byte \in Stray(reading'.shown, reading'.stray[i].len)
          BY <1>8, <4>2 DEF Stray
      <4>4. reading'.spoiled <=> Len(reading'.shown) >= Room - 1
        <5>1. ~reading.spoiled
            BY <3>1 DEF NoneYet
        <5>2. l + 2 > Room <=> l >= Room - 1
            BY <1>1
        <5>3. Len(reading'.shown) = l
            BY <1>3, <4>1
        <5> QED BY <1>3, <5>1, <5>2, <5>3
      <4> QED BY <4>3, <4>4 DEF StraysOf
    <3>2. CASE old # <<>> /\ FullPieces(reading)
      <4>1. Len(old \o block) > Room /\ byte = "char" /\ reading'.spoiled
        <5>1. Len(old) >= Room /\ reading.spoiled /\ \A i \in 1 .. Room : reading.strout[i] = "char"
            BY <3>2 DEF FullPieces
        <5>2. byte = "char"
            BY <2>1, <2>2, <5>1
        <5>3. reading'.spoiled
            BY <1>3, <5>1
        <5>4. Len(old \o block) > Room
          <6> HIDE DEF l, old
          <6> QED BY <1>1, <1>4, <5>1 DEF old
        <5> QED BY <5>2, <5>3, <5>4
      <4>2. \A i \in DOMAIN reading'.stray : reading'.stray[i].byte \in Stray(reading'.shown, reading'.stray[i].len)
          BY <1>3, <1>8, <1>10, <4>1 DEF Stray
      <4>3. Len(reading'.shown) >= Room - 1
          BY <1>1, <1>3, <1>4, <4>1
      <4> QED BY <4>1, <4>2, <4>3 DEF StraysOf
    <3> QED BY <1>5, <3>1, <3>2
  <2> QED BY <1>3, <1>4, <2>3, <2>4 DEF StrayOK
<1> QED BY <1>9, <1>10

LEMMA StrayShow == ASSUME FileIInv, FileIInv', StrayOK(reading), Show PROVE StrayOK(reading')
<1> DEFINE rest == reading.end - reading.start - Len(reading.shown)
           n == IF rest > Room THEN Room ELSE rest
           block == Fread(n)
<1>1. reading \in Readings /\ reading.step = "show" /\ Len(reading.shown) \in Nat
      /\ reading.start \in Nat /\ reading.end \in Nat /\ Room \in Nat \ {0}
    BY ReadingHas DEF FileIInv, ReadingOK, Show
<1>2. CASE rest = 0 /\ reading' = [reading EXCEPT !.step = "returned", !.ret = IF reading.end = reading.start THEN -1 ELSE 0]
  <2>1. /\ reading'.step = "returned" /\ reading'.stray = reading.stray /\ reading'.spoiled = reading.spoiled
        /\ reading'.shown = reading.shown
      BY <1>1, <1>2 DEF Readings
  <2>2. StraysOf(reading)
    <3>1. reading.end - reading.start = Len(reading.shown)
        BY <1>1, <1>2
    <3> QED BY <1>1, <3>1 DEF StrayOK
  <2> QED BY <2>1, <2>2 DEF StrayOK, StraysOf
<1>3. ASSUME rest # 0
      PROVE  /\ n \in Nat /\ n # 0 /\ IsBlock(reading.file, reading.at, n, block) /\ block \in Seq(Chars)
             /\ reading.at <= reading.end /\ reading.at = reading.start + Len(reading.shown)
             /\ reading.at \in Nat /\ Len(reading.file) \in Nat
  <2>1. reading.at \in Nat /\ Len(reading.file) \in Nat /\ reading.file \in Seq(Chars)
      BY ReadingHas
  <2>2. reading.at <= reading.end /\ reading.at = reading.start + Len(reading.shown)
    <3>1. \/ reading.end = reading.start /\ reading.shown = <<>>
          \/ reading.at <= reading.end /\ reading.at = reading.start + Len(reading.shown)
        BY <1>1 DEF FileIInv, ReadingOK, ShowOK
    <3> QED BY <1>1, <1>3, <3>1
  <2>3. rest \in Nat
      BY <1>1, <2>1, <2>2
  <2> HIDE DEF rest
  <2>4. n \in Nat /\ n # 0
      BY <1>1, <1>3, <2>3
  <2> HIDE DEF n
  <2>5. IsBlock(reading.file, reading.at, n, block)
      BY <2>1, <2>4, FreadIs
  <2> QED BY <2>1, <2>2, <2>4, <2>5 DEF IsBlock
\* At the end of the file.
<1>4. CASE rest # 0 /\ block = <<>> /\ reading' = [reading EXCEPT !.strout = Terminated(@, 0)]
  <2>1. /\ reading'.step = "show" /\ reading'.stray = reading.stray /\ reading'.spoiled = reading.spoiled
        /\ reading'.shown = reading.shown /\ reading'.at = reading.at /\ reading'.file = reading.file
        /\ reading'.end = reading.end /\ reading'.start = reading.start
        /\ reading'.strout = Terminated(reading.strout, 0)
      BY <1>1, <1>4 DEF Readings
  <2>2. reading.at >= Len(reading.file) /\ rest # 0
    <3>1. Len(block) = 0
        BY <1>4
    <3>2. Len(block) = IF reading.at >= Len(reading.file) THEN 0
                       ELSE IF reading.at + n < Len(reading.file) THEN n ELSE Len(reading.file) - reading.at
        BY <1>3, <1>4 DEF IsBlock
    <3>3. /\ n \in Nat /\ n # 0 /\ reading.at \in Nat /\ Len(reading.file) \in Nat
        BY <1>3, <1>4
    <3> HIDE DEF block, n
    <3>4. reading.at >= Len(reading.file)
        BY <3>1, <3>2, <3>3
    <3> QED BY <1>4, <3>4
  <2>3. ~(reading.at < Len(reading.file)) /\ reading.end - reading.start # Len(reading.shown)
    <3>1. reading.at \in Nat /\ Len(reading.file) \in Nat
        BY <1>3, <1>4
    <3> QED BY <1>1, <2>2, <3>1
  <2> QED BY <2>1, <2>3 DEF StrayOK
<1>5. CASE rest # 0 /\ block # <<>>
  <2>1. PICK byte \in IF Len(block) < Room THEN {Overwritten(block)[Len(block) + 1]} ELSE Beyond :
          reading' = Printed(block, byte)
      BY <1>5 DEF Show
  <2> HIDE DEF block
  <2> QED BY <1>1, <1>3, <1>5, <2>1, StrayPiece
<1> QED BY <1>2, <1>4, <1>5 DEF Show

LEMMA StrayInductive == ASSUME FileIInv, FileIInv', StrayOK(reading), [FileNext]_fileVars PROVE StrayOK(reading')
<1>1. CASE cmd_listfile
  <2>1. PICK f \in Files, row \in FileRows :
          reading' = [NotReading EXCEPT !.file = f, !.asked = row, !.row = row, !.ret = IF row < 1 THEN -1 ELSE 0,
                        !.step = IF row < 1 THEN "returned" ELSE IF row = 1 THEN "end" ELSE "start"]
      BY <1>1, Zenon DEF cmd_listfile
  <2>2. /\ reading'.stray = <<>> /\ reading'.spoiled = FALSE /\ reading'.shown = <<>> /\ reading'.strout = Blank
        /\ reading'.step \in {"returned", "end", "start"}
      BY <2>1 DEF NotReading, Blank
  <2>3. NoneYet(reading') /\ StraysOf(reading')
      BY <2>2, BlankUntouched, NoneStray DEF NoneYet
  <2> QED BY <2>2, <2>3 DEF StrayOK
<1>2. CASE FindStart
    BY <1>2, StrayStart
<1>3. CASE FindEnd
    BY <1>3, StrayEnd
<1>4. CASE Show
    BY <1>4, StrayShow
<1>5. CASE FileReturns
    BY <1>5 DEF FileReturns, NotReading, StrayOK
<1>6. CASE UNCHANGED fileVars
    BY <1>6 DEF fileVars
<1> QED BY <1>1, <1>2, <1>3, <1>4, <1>5, <1>6 DEF FileNext

\* A number between two multiples that follow each other is no multiple.
LEMMA BetweenMultiples ==
    ASSUME NEW m \in Nat, NEW n \in Nat, NEW b \in Nat, NEW x \in Nat, x < m * b, m * b - b < x
    PROVE  x # n * b
<1>1. m * b \in Nat /\ n * b \in Nat
    OBVIOUS
<1>2. CASE n >= m
  <2>1. (n - m) * b >= 0 /\ n * b = m * b + (n - m) * b
      BY <1>2
  <2> QED BY <1>1, <2>1
<1>3. CASE n < m
  <2>1. m - 1 - n \in Nat
      BY <1>3
  <2>2. (m - 1 - n) * b >= 0 /\ m * b = n * b + b + (m - 1 - n) * b
      BY <2>1
  <2> QED BY <1>1, <2>2
<1> QED BY <1>2, <1>3

LEMMA FoundFromInv == FileIInv /\ StrayOK(reading) => LineFound
<1> SUFFICES ASSUME FileIInv, StrayOK(reading) PROVE LineFound
    OBVIOUS
<1> DEFINE f == reading.file
           start == reading.start
           end == reading.end
<1>1. /\ f \in Seq(Chars) /\ Len(f) \in Nat /\ reading.asked \in Int
      /\ start \in Nat /\ end \in Nat /\ Block \in Nat \ {0}
    BY ReadingHas
<1>2. reading.step = "returned" => reading.shown = RowOf(f, reading.asked) /\ (reading.ret = -1 <=> reading.shown = <<>>)
    BY DEF FileIInv, ReadingOK
<1>3. ASSUME reading.step = "show", end > Len(f)
      PROVE  end = start \/ Unterminated
  <2>1. SUFFICES ASSUME end # start PROVE Unterminated
      OBVIOUS
  <2>2. RowBegins(f, reading.asked, start) /\ RowEnds(f, start, end)
      BY <1>3, <2>1 DEF FileIInv, ReadingOK, ShowOK
  <2> HIDE DEF f, start, end
  <2>3. NoFeedIn(f, start, Len(f)) /\ LastBlock(f, start, end)
    <3>1. NoFeedIn(f, start, end) /\ LastBlock(f, start, end)
        BY <1>1, <1>3, <2>2 DEF RowEnds
    <3>2. \A i \in Feeds(f) : i <= Len(f) => i <= end
      <4>1. Feeds(f) \subseteq 1 .. Len(f)
          BY <1>1, FeedsAre
      <4> QED BY <1>1, <1>3, <4>1
    <3> QED BY <3>1, <3>2 DEF NoFeedIn
  <2>4. /\ Cardinality(Feeds(f)) = reading.asked - 1 /\ RowOf(f, reading.asked) = SubSeq(f, start + 1, Len(f))
        /\ start <= Len(f)
      BY <1>1, <2>2, <2>3, LastRowIs, BeginIs
  <2>5. Len(SubSeq(f, start + 1, Len(f))) = Len(f) - start
    <3>1. CASE start = Len(f)
      <4>1. SubSeq(f, start + 1, Len(f)) = <<>>
          BY <1>1, <3>1
      <4> QED BY <1>1, <3>1, <4>1
    <3>2. CASE start < Len(f)
      <4>1. start + 1 \in 1 .. Len(f) /\ Len(f) \in 1 .. Len(f) /\ start + 1 <= Len(f)
          BY <1>1, <3>2
      <4> QED BY <1>1, <4>1
    <3> QED BY <1>1, <2>4, <3>1, <3>2
  <2>6. PICK m \in Nat : end = start + m * Block
      BY <2>3 DEF LastBlock
  <2>7. end - Block < Len(f)
      BY <1>3, <2>3 DEF LastBlock
  <2>8. \A n \in 0 .. Len(f) : Len(f) - start # n * Block
    <3>1. SUFFICES ASSUME NEW n \in 0 .. Len(f) PROVE Len(f) - start # n * Block
        OBVIOUS
    <3>2. n \in Nat /\ Len(f) - start \in Nat /\ m * Block \in Nat
        BY <1>1, <2>4, <2>6
    <3>3. Len(f) - start < m * Block /\ m * Block - Block < Len(f) - start
        BY <1>1, <1>3, <2>4, <2>6, <2>7, <3>2
    <3> QED BY <1>1, <3>2, <3>3, BetweenMultiples
  <2> QED BY <2>4, <2>5, <2>8 DEF Unterminated, f
<1>4. reading.step = "returned" => StraysOf(reading)
    BY DEF StrayOK
<1> QED BY <1>2, <1>3, <1>4 DEF LineFound, StraysOf

\* cf_howline shows the row asked for, whole, and refuses one that is empty or missing; behind a
\* piece it prints at most one byte that does not belong there, which one is told, and it writes
\* behind its array exactly when the row fills the array but for one character, or more; for
\* files of any length, whatever is read at a time and however large the array is.  Only in the
\* last row of a file without a line feed at its end can it look for more than there is.
THEOREM RowsFound == FileSpec => []LineFound
<1>1. FileInit => FileIInv /\ StrayOK(reading)
    BY NotReadingSound DEF FileInit, FileIInv, StrayOK, NotReading
<1>2. (FileIInv /\ StrayOK(reading)) /\ [FileNext]_fileVars => (FileIInv /\ StrayOK(reading))'
    BY FileInductive, StrayInductive
<1> QED BY <1>1, <1>2, FoundFromInv, PTL DEF FileSpec

-----------------------------------------------------------------------------
(* The user at the shell. *)

\* The device chosen last, while it is connected, is the one that holds the shell's
\* descriptor, and its place, if it was chosen with one, is the shell's.
Chosen(ch, table, s, p) ==
  /\ ch = [conn |-> ch.conn, place |-> ch.place]
  /\ ch.conn # Nobody => ch.conn \in Connections /\ table[ch.conn].fd = s /\ s # 0
  /\ ch.place # NoPlace => p = ch.place

Conns == [Connections -> [fd : Sockets \cup {0}, at : Places \cup {NoPlace}]]

Sources == {"preset", "typed"}
LevelEntries == [by : {"preset", "typed", "cleared", "answered"}, port : Int, on : BOOLEAN, level : Sources]

\* An entry names its own port, unless an answer has filled it.
LevelsOK(r) ==
  /\ r \in [kind : DOMAIN Refs, def : Sources, auto : BOOLEAN, list : {r.list}]
  /\ r.list \in [1 .. Refs[r.kind].all -> LevelEntries]
  /\ \A i \in 1 .. Refs[r.kind].all : r.list[i].by = "answered" \/ r.list[i].port = (i - 1) % Refs[r.kind].named

ShellIInv == conn \in Conns /\ Chosen(chosen, conn, sock, place) /\ LevelsOK(refs) /\ SentAsTyped

\* Whoever is taken for the holder of a descriptor holds it.
LEMMA HolderIs ==
    ASSUME NEW fd, Holder(fd) # Nobody
    PROVE  Holder(fd) \in Connections /\ conn[Holder(fd)].fd = fd /\ fd # 0
<1>1. fd \in Used \ {0}
    BY DEF Holder
<1>2. \E c \in Connections : conn[c].fd = fd
    BY <1>1 DEF Used
<1>3. Holder(fd) = CHOOSE c \in Connections : conn[c].fd = fd
    BY <1>1 DEF Holder
<1> QED BY <1>1, <1>2, <1>3

\* A descriptor that is free.
LEMMA LowestIs ==
    ASSUME NEW fds, fds \subseteq Sockets, fds # {}
    PROVE  Lowest(fds) \in Sockets /\ Lowest(fds) # 0
<1>1. fds \subseteq Nat /\ \A f \in fds : f # 0
    BY ShellAssumption
<1>2. \E f \in fds : \A g \in fds : f <= g
    BY <1>1, LeastNat
<1>3. Lowest(fds) \in fds
    BY <1>2 DEF Lowest
<1> QED BY <1>1, <1>3

LEMMA NothingIsTyped ==
    ASSUME sent' = Nothing
    PROVE  SentAsTyped'
<1>1. sent'.line = "none" /\ "none" \notin DOMAIN Lines
    BY LinesAssumption DEF Nothing
<1> QED BY <1>1 DEF SentAsTyped

\* A connection opens.
LEMMA OpenedIs ==
    ASSUME conn \in Conns, NEW c \in Connections, conn[c] = Off, ~(Sockets \subseteq Used), Opened(c)
    PROVE  /\ conn' \in Conns /\ conn'[c].fd # 0
           /\ \A d \in Connections : conn[d].fd # 0 => conn'[d] = conn[d]
<1> DEFINE fd == Lowest(Sockets \ Used)
<1>1. fd \in Sockets /\ fd # 0
    BY LowestIs
<1> HIDE DEF fd
<1>2. conn' = [conn EXCEPT ![c] = [Off EXCEPT !.fd = fd]]
    BY DEF Opened, fd
<1>3. [Off EXCEPT !.fd = fd] = [fd |-> fd, at |-> NoPlace]
    BY DEF Off
<1>4. conn' = [conn EXCEPT ![c] = [fd |-> fd, at |-> NoPlace]]
    BY <1>2, <1>3
<1>5. conn[c].fd = 0
    BY DEF Off
<1> QED BY <1>1, <1>4, <1>5 DEF Conns

LEMMA ConnectsSound ==
    ASSUME ShellIInv, Connects
    PROVE  ShellIInv'
<1>1. PICK c \in Connections : conn[c] = Off /\ ~(Sockets \subseteq Used) /\ Opened(c)
    BY DEF Connects
<1>2. conn' \in Conns /\ \A d \in Connections : conn[d].fd # 0 => conn'[d] = conn[d]
    BY <1>1, OpenedIs DEF ShellIInv
<1>3. sent' = Nothing /\ UNCHANGED <<place, sock, chosen, refs>>
    BY DEF Connects
<1>4. SentAsTyped'
    BY <1>3, NothingIsTyped
<1>5. Chosen(chosen, conn', sock, place)
    BY <1>2 DEF ShellIInv, Chosen
<1> QED BY <1>2, <1>3, <1>4, <1>5 DEF ShellIInv

LEMMA ReportsSound ==
    ASSUME ShellIInv, Reports
    PROVE  ShellIInv'
<1>1. PICK c \in Connections, p \in Places : conn' = [conn EXCEPT ![c].at = p]
    BY DEF Reports
<1>2. sent' = Nothing /\ UNCHANGED <<place, sock, chosen, refs>>
    BY DEF Reports
<1>3. conn' \in Conns /\ \A d \in Connections : conn'[d].fd = conn[d].fd
    BY <1>1 DEF ShellIInv, Conns
<1>4. SentAsTyped'
    BY <1>2, NothingIsTyped
<1>5. Chosen(chosen, conn', sock, place)
    BY <1>3 DEF ShellIInv, Chosen
<1> QED BY <1>2, <1>3, <1>4, <1>5 DEF ShellIInv

\* Of a device that has gone nothing is said any more, whoever gets its descriptor.
LEMMA DisconnectsSound ==
    ASSUME ShellIInv, Disconnects
    PROVE  ShellIInv'
<1>1. PICK c \in Connections :
        /\ conn' = [conn EXCEPT ![c] = Off]
        /\ chosen' = IF chosen.conn = c THEN [chosen EXCEPT !.conn = Nobody] ELSE chosen
    BY DEF Disconnects
<1>2. sent' = Nothing /\ UNCHANGED <<place, sock, refs>>
    BY DEF Disconnects
<1>3. Off \in [fd : Sockets \cup {0}, at : Places \cup {NoPlace}]
    BY DEF Off
<1>4. conn' \in Conns /\ \A d \in Connections \ {c} : conn'[d] = conn[d]
    BY <1>1, <1>3 DEF ShellIInv, Conns
<1>5. SentAsTyped'
    BY <1>2, NothingIsTyped
<1>6. Chosen(chosen', conn', sock, place)
    BY <1>1, <1>4 DEF ShellIInv, Chosen
<1> QED BY <1>2, <1>4, <1>5, <1>6 DEF ShellIInv

\* What is chosen by a descriptor is chosen.
LEMMA ChosenIs ==
    ASSUME NEW fd, NEW p, NEW q, chosen' = [conn |-> Holder(fd), place |-> p], p # NoPlace => q = p
    PROVE  Chosen(chosen', conn, fd, q)
<1>1. chosen'.conn = Holder(fd) /\ chosen'.place = p /\ chosen' = [conn |-> chosen'.conn, place |-> chosen'.place]
    OBVIOUS
<1> QED BY <1>1, HolderIs DEF Chosen

\* A descriptor alone is sent to, or nothing.
LEMMA ToChosen ==
    ASSUME NEW line \in {"scan", "tconnect", "disp_update"}, NEW fd,
           sent' = [line |-> line, fd |-> fd], Chosen(chosen', conn', fd, place')
    PROVE  SentAsTyped'
<1>1. sent'.line = line /\ sent'.fd = fd /\ line \notin DOMAIN Lines /\ line # "refs"
    BY LinesAssumption
<1> QED BY <1>1 DEF SentAsTyped, Chosen

LEMMA ChoosesSound ==
    ASSUME ShellIInv, Chooses
    PROVE  ShellIInv'
<1>1. refs' = refs
    BY DEF Chooses
<1>2. SUFFICES conn' \in Conns /\ Chosen(chosen', conn', sock', place') /\ SentAsTyped'
    BY <1>1 DEF ShellIInv
<1>3. ASSUME NEW p \in Places, cmd_intface(p), conn' = conn
      PROVE  conn' \in Conns /\ Chosen(chosen', conn', sock', place') /\ SentAsTyped'
  <2>1. SentAsTyped'
      BY <1>3, NothingIsTyped DEF cmd_intface
  <2>2. CASE FdAt(p) # 0
    <3>1. chosen' = [conn |-> Holder(FdAt(p)), place |-> p] /\ sock' = FdAt(p) /\ place' = p
        BY <1>3, <2>2 DEF cmd_intface, Choose
    <3>2. Chosen(chosen', conn, FdAt(p), p)
        BY <3>1, ChosenIs
    <3> QED BY <1>3, <2>1, <3>1, <3>2 DEF ShellIInv
  <2>3. CASE FdAt(p) = 0
      BY <1>3, <2>1, <2>3 DEF cmd_intface, ShellIInv
  <2> QED BY <2>2, <2>3
<1>4. ASSUME NEW p \in Places, NEW do \in BOOLEAN, cmd_device(p, do), conn' = conn
      PROVE  conn' \in Conns /\ Chosen(chosen', conn', sock', place') /\ SentAsTyped'
  <2>1. SentAsTyped'
      BY <1>4, NothingIsTyped DEF cmd_device
  <2>2. Chosen(chosen', conn, sock, place')
      BY <1>4 DEF cmd_device, ShellIInv, Chosen
  <2> QED BY <1>4, <2>1, <2>2 DEF cmd_device, ShellIInv
<1>5. ASSUME NEW fd \in Sockets, cmd_intfaceSockfd(fd), conn' = conn
      PROVE  conn' \in Conns /\ Chosen(chosen', conn', sock', place') /\ SentAsTyped'
  <2>1. SentAsTyped'
      BY <1>5, NothingIsTyped DEF cmd_intfaceSockfd
  <2>2. /\ chosen' = [conn |-> Holder(fd), place |-> KnownAt(fd)] /\ sock' = fd
        /\ KnownAt(fd) # NoPlace => place' = KnownAt(fd)
      BY <1>5 DEF cmd_intfaceSockfd, Choose
  <2>3. Chosen(chosen', conn, fd, place')
      BY <2>2, ChosenIs
  <2> QED BY <1>5, <2>1, <2>2, <2>3 DEF ShellIInv
<1>6. ASSUME NEW fd \in Sockets, cmd_tmsscan(fd), conn' = conn
      PROVE  conn' \in Conns /\ Chosen(chosen', conn', sock', place') /\ SentAsTyped'
  <2>1. chosen' = [conn |-> Holder(fd), place |-> NoPlace] /\ sock' = fd /\ sent' = [line |-> "scan", fd |-> fd]
      BY <1>6 DEF cmd_tmsscan, Choose
  <2>2. Chosen(chosen', conn, fd, place')
      BY <2>1, ChosenIs
  <2>3. SentAsTyped'
      BY <1>6, <2>1, <2>2, ToChosen
  <2> QED BY <1>6, <2>1, <2>2, <2>3 DEF ShellIInv
<1>7. ASSUME cmd_term_connect
      PROVE  conn' \in Conns /\ Chosen(chosen', conn', sock', place') /\ SentAsTyped'
  <2>1. PICK c \in Connections :
          /\ conn[c] = Off /\ ~(Sockets \subseteq Used) /\ Opened(c)
          /\ sock' = conn'[c].fd /\ chosen' = [conn |-> c, place |-> NoPlace]
          /\ sent' = [line |-> "tconnect", fd |-> conn'[c].fd]
      BY <1>7 DEF cmd_term_connect, Choose
  <2>2. conn' \in Conns /\ conn'[c].fd # 0
      BY <2>1, OpenedIs DEF ShellIInv
  <2>3. Chosen(chosen', conn', sock', place')
      BY <2>1, <2>2 DEF Chosen
  <2>4. SentAsTyped'
      BY <2>1, <2>3, ToChosen
  <2> QED BY <2>2, <2>3, <2>4
<1>8. ASSUME cmd_Disp
      PROVE  conn' \in Conns /\ Chosen(chosen', conn', sock', place') /\ SentAsTyped'
  <2>1. /\ conn' = [c \in Connections |-> [conn[c] EXCEPT !.at = NoPlace]]
        /\ sock' = sock /\ place' = place /\ chosen' = chosen
        /\ sent' = Nothing \/ sent' = [line |-> "disp_update", fd |-> sock]
      BY <1>8 DEF cmd_Disp
  <2>2. conn' \in Conns /\ \A c \in Connections : conn'[c].fd = conn[c].fd
      BY <2>1 DEF ShellIInv, Conns
  <2>3. Chosen(chosen', conn', sock, place')
      BY <2>1, <2>2 DEF ShellIInv, Chosen
  <2>4. SentAsTyped'
      BY <2>1, <2>3, ToChosen, NothingIsTyped
  <2> QED BY <2>1, <2>2, <2>3, <2>4
<1> QED BY <1>3, <1>4, <1>5, <1>6, <1>7, <1>8 DEF Chooses

-----------------------------------------------------------------------------
(* The lines. *)

\* What an argument is meant to be.
MeantAs(special, i) == IF special = [arg |-> i, is |-> "all"] THEN <<"all">> ELSE Typed(special, i)

\* The special arguments of a line.
LEMMA SpecialIs ==
    ASSUME NEW l, NEW special \in Specials(l)
    PROVE  /\ special = [arg |-> special.arg, is |-> special.is]
           /\ special.is = "all" => /\ l.every # <<>> /\ special.arg \in DOMAIN l.usage
                                    /\ l.usage[special.arg] \in {"port_a", "port_b"}
           /\ special.is \in {"limit", "beyond"} => /\ special.arg \in DOMAIN l.usage
                                                    /\ l.usage[special.arg] \in Ranged
BY DEF Specials

\* Each argument arrives in the member that is named as it is.
LEMMA ArgumentArrives ==
    ASSUME NEW line \in DOMAIN Lines, line \notin Misread, NEW l, l = Lines[line],
           NEW special \in Specials(l), NEW i \in DOMAIN l.usage,
           special # [arg |-> i, is |-> "unknown"]
    PROVE  /\ l.usage[i] \in DOMAIN l.takes
           /\ \/ Arrives(l, special, l.usage[i]) = MeantAs(special, i)
              \/ line = "atb_add" /\ l.usage[i] = "port_b" /\ special.is = "all"
<1> DEFINE m == l.usage[i]
<1>1. /\ m \in DOMAIN l.takes /\ l.takes[m] = i
      /\ l.every # <<>> /\ m \in {"port_a", "port_b"} => m \in DOMAIN l.every
      /\ m \in DOMAIN l.every => l.every[m] = i \/ <<line, m>> = <<"atb_add", "port_b">>
    BY LinesAssumption
<1>2. /\ special = [arg |-> special.arg, is |-> special.is]
      /\ special.is = "all" => l.every # <<>> /\ l.usage[special.arg] \in {"port_a", "port_b"}
    BY SpecialIs
<1> HIDE DEF m
<1>3. CASE m \notin DOMAIN l.every
  <2>1. special # [arg |-> i, is |-> "all"]
      BY <1>1, <1>2, <1>3 DEF m
  <2>2. Arrives(l, special, m) = Typed(special, i)
      BY <1>1, <1>3 DEF Arrives
  <2> QED BY <1>1, <2>1, <2>2 DEF MeantAs, m
<1>4. CASE m \in DOMAIN l.every
  <2>1. Arrives(l, special, m) =
          IF special = [arg |-> l.every[m], is |-> "all"] THEN <<"all">>
          ELSE IF special = [arg |-> i, is |-> "all"] THEN <<"zero">> ELSE Typed(special, i)
      BY <1>1, <1>4 DEF Arrives
  <2>2. CASE l.every[m] = i
      BY <1>1, <2>1, <2>2 DEF MeantAs, m
  <2>3. CASE line = "atb_add" /\ m = "port_b"
    <3>1. CASE special.is = "all"
        BY <1>1, <2>3, <3>1 DEF m
    <3>2. CASE special.is # "all"
      <4>1. special # [arg |-> l.every[m], is |-> "all"] /\ special # [arg |-> i, is |-> "all"]
          BY <3>2
      <4> QED BY <1>1, <2>1, <4>1 DEF MeantAs, m
    <3> QED BY <3>1, <3>2
  <2> QED BY <1>1, <1>4, <2>2, <2>3
<1> QED BY <1>3, <1>4

\* A place out of range is refused, but for the one just beyond in AtLimit.
LEMMA RangeIsKept ==
    ASSUME NEW line \in DOMAIN Lines, NEW l, l = Lines[line], NEW special \in Specials(l), ~Refused(l, special),
           special.is \in {"limit", "beyond"}, Positioned(line, l.usage[special.arg])
    PROVE  special.is = "limit" /\ line \in AtLimit /\ l.usage[special.arg] # "frame"
<1> DEFINE i == special.arg
<1>1. i \in DOMAIN l.usage /\ l.usage[i] \in Ranged
    BY SpecialIs
<1>2. PICK m \in DOMAIN l.takes : l.takes[m] = i /\ (m \in l.from \/ (m \in l.past /\ line \in AtLimit /\ l.usage[i] # "frame"))
    BY <1>1, LinesAssumption
<1>3. ~(m \in l.from) /\ ~(m \in l.past /\ special.is = "beyond")
    BY <1>2 DEF Refused
<1> QED BY <1>2, <1>3

\* A line that is handed on.
Handed(line, l, special, fd, at, members) ==
  [line |-> line, special |-> special, fd |-> fd, at |-> at, members |-> members]

\* What the property says of it.
LineMeant(line, l, special, fd, at, members, table, ch) ==
  /\ l.to = "sg_sockfdid" /\ ch.conn # Nobody => fd = table[ch.conn].fd
  /\ l.here /\ ch.place # NoPlace => at = ch.place
  /\ line \notin Misread => \A i \in DOMAIN l.usage :
       \/ l.usage[i] \in DOMAIN members /\ members[l.usage[i]] = MeantAs(special, i)
       \/ line = "atb_add" /\ l.usage[i] = "port_b" /\ special.is = "all"
       \/ special = [arg |-> i, is |-> "unknown"]
  /\ l.junk # {} => line \in Unset
  /\ l.mask # {} /\ line \notin Widened => l.mask = ToSet(l.usage)
  /\ special.is \in {"limit", "beyond"} /\ Positioned(line, l.usage[special.arg])
       => special.is = "limit" /\ line \in AtLimit /\ l.usage[special.arg] # "frame"

LEMMA LineIsMeant ==
    ASSUME NEW line \in DOMAIN Lines, NEW l, l = Lines[line], NEW special \in Specials(l), ~Refused(l, special),
           NEW fd \in Target(l.to), NEW p, NEW at, at = IF l.here THEN p ELSE NoPlace,
           NEW members, members = [m \in DOMAIN l.takes |-> Arrives(l, special, m)],
           NEW ch, Chosen(ch, conn, sock, p)
    PROVE  LineMeant(line, l, special, fd, at, members, conn, ch)
<1>1. l.to = "sg_sockfdid" /\ ch.conn # Nobody => fd = conn[ch.conn].fd
    BY DEF Target, Chosen
<1>2. l.here /\ ch.place # NoPlace => at = ch.place
    BY DEF Chosen
<1>3. ASSUME line \notin Misread, NEW i \in DOMAIN l.usage
      PROVE  \/ l.usage[i] \in DOMAIN members /\ members[l.usage[i]] = MeantAs(special, i)
             \/ line = "atb_add" /\ l.usage[i] = "port_b" /\ special.is = "all"
             \/ special = [arg |-> i, is |-> "unknown"]
    BY <1>3, ArgumentArrives
<1>4. /\ l.junk # {} => line \in Unset
      /\ l.mask # {} /\ line \notin Widened => l.mask = ToSet(l.usage)
    BY LinesAssumption
<1>5. special.is \in {"limit", "beyond"} /\ Positioned(line, l.usage[special.arg])
        => special.is = "limit" /\ line \in AtLimit /\ l.usage[special.arg] # "frame"
    BY RangeIsKept
<1> QED BY <1>1, <1>2, <1>3, <1>4, <1>5 DEF LineMeant

LEMMA TypeLineSound ==
    ASSUME ShellIInv, TypeLine, UNCHANGED <<sock, conn, refs>>
    PROVE  ShellIInv'
<1>1. PICK line \in DOMAIN Lines : \E special \in Specials(Lines[line]) :
        LET l == Lines[line] IN
        IF Refused(l, special) THEN sent' = Nothing /\ UNCHANGED <<place, chosen>>
        ELSE LET where == IF l.moves # <<>> THEN l.moves ELSE place IN
             /\ place' = where
             /\ chosen' = IF l.moves # <<>> THEN [chosen EXCEPT !.place = NoPlace] ELSE chosen
             /\ \E fd \in Target(l.to) :
                  sent' = [line |-> line, special |-> special, fd |-> fd,
                           at |-> IF l.here THEN where ELSE NoPlace,
                           members |-> [m \in DOMAIN l.takes |-> Arrives(l, special, m)]]
    BY DEF TypeLine
<1>2. PICK l : l = Lines[line]
    OBVIOUS
<1>3. PICK special \in Specials(l) :
        IF Refused(l, special) THEN sent' = Nothing /\ UNCHANGED <<place, chosen>>
        ELSE LET where == IF l.moves # <<>> THEN l.moves ELSE place IN
             /\ place' = where
             /\ chosen' = IF l.moves # <<>> THEN [chosen EXCEPT !.place = NoPlace] ELSE chosen
             /\ \E fd \in Target(l.to) :
                  sent' = [line |-> line, special |-> special, fd |-> fd,
                           at |-> IF l.here THEN where ELSE NoPlace,
                           members |-> [m \in DOMAIN l.takes |-> Arrives(l, special, m)]]
    BY <1>1, <1>2, Zenon
<1>4. CASE Refused(l, special)
  <2>1. sent' = Nothing /\ UNCHANGED <<place, chosen>>
      BY <1>3, <1>4
  <2> QED BY <2>1, NothingIsTyped DEF ShellIInv
<1>5. CASE ~Refused(l, special)
  <2>1. /\ place' = IF l.moves # <<>> THEN l.moves ELSE place
        /\ chosen' = IF l.moves # <<>> THEN [chosen EXCEPT !.place = NoPlace] ELSE chosen
      BY <1>3, <1>5
  <2>2. PICK members : members = [m \in DOMAIN l.takes |-> Arrives(l, special, m)]
      OBVIOUS
  <2>3. PICK p : p = place'
      OBVIOUS
  <2>4. PICK at : at = IF l.here THEN p ELSE NoPlace
      OBVIOUS
  <2>5. PICK fd \in Target(l.to) : sent' = Handed(line, l, special, fd, at, members)
      BY <1>3, <1>5, <2>1, <2>2, <2>3, <2>4 DEF Handed
  <2>6. Chosen(chosen', conn, sock, p)
      BY <2>1, <2>3 DEF ShellIInv, Chosen
  <2>7. LineMeant(line, l, special, fd, at, members, conn, chosen')
      BY <1>2, <1>5, <2>2, <2>4, <2>6, LineIsMeant
  <2>8. /\ sent'.line = line /\ sent'.special = special /\ sent'.fd = fd /\ sent'.at = at /\ sent'.members = members
        /\ line \notin {"refs", "scan", "tconnect", "disp_update"}
      BY <2>5, LinesAssumption DEF Handed
  <2>9. SentAsTyped'
      BY <1>2, <2>7, <2>8 DEF SentAsTyped, LineMeant, MeantAs
  <2> QED BY <2>3, <2>6, <2>9 DEF ShellIInv
<1> QED BY <1>4, <1>5

-----------------------------------------------------------------------------
(* The reference levels. *)

LEMMA KindIs ==
    ASSUME LevelsOK(refs)
    PROVE  /\ refs.kind \in DOMAIN Refs /\ Refs[refs.kind].all \in Nat
           /\ Refs[refs.kind].named \in Nat \ {0} /\ Refs[refs.kind].first \in Nat
           /\ Refs[refs.kind].first <= Refs[refs.kind].all /\ Refs[refs.kind].named <= Refs[refs.kind].all
           /\ refs.list \in [All -> LevelEntries]
           /\ \A i \in Named : i \in All
           /\ \A i \in All : Number(i) \in Int
<1>1. refs.kind \in DOMAIN Refs /\ refs.list \in [All -> LevelEntries]
    BY DEF LevelsOK, All
<1>2. /\ Refs[refs.kind].all \in Nat /\ Refs[refs.kind].named \in Nat \ {0} /\ Refs[refs.kind].first \in Nat
      /\ Refs[refs.kind].first <= Refs[refs.kind].all /\ Refs[refs.kind].named <= Refs[refs.kind].all
    BY <1>1, ShellAssumption
<1> QED BY <1>1, <1>2 DEF All, Named, Number

\* The entries of a list are its own, or came with an answer.
Owned(list, n, m) == /\ list \in [1 .. n -> LevelEntries]
                     /\ \A i \in 1 .. n : list[i].by = "answered" \/ list[i].port = (i - 1) % m

\* An entry that names its own port takes its place in the list.
LEMMA EntryIs ==
    ASSUME NEW by \in {"preset", "typed", "cleared", "answered"}, NEW port \in Int, NEW on \in BOOLEAN, NEW level \in Sources
    PROVE  Entry(by, port, on, level) \in LevelEntries /\ Entry(by, port, on, level).by = by
           /\ Entry(by, port, on, level).port = port
BY DEF Entry, LevelEntries

LEMMA ListOwned ==
    ASSUME LevelsOK(refs), NEW list, Owned(list, Refs[refs.kind].all, Refs[refs.kind].named),
           NEW def \in Sources, NEW auto \in BOOLEAN,
           refs' = [kind |-> refs.kind, def |-> def, auto |-> auto, list |-> list]
    PROVE  LevelsOK(refs')
<1>1. refs'.kind = refs.kind /\ refs'.def = def /\ refs'.auto = auto /\ refs'.list = list /\ refs.kind \in DOMAIN Refs
    BY DEF LevelsOK
<1> QED BY <1>1 DEF LevelsOK, Owned

\* Of a list that is sent each entry names its own port, or came with an answer.
LEMMA RefsSent ==
    ASSUME LevelsOK(refs), NEW list, Owned(list, Refs[refs.kind].all, Refs[refs.kind].named),
           NEW n \in Nat, n <= Refs[refs.kind].all, SendRefs(list, n), refs'.kind = refs.kind
    PROVE  SentAsTyped'
<1> DEFINE all == Refs[refs.kind].all
           part == SubSeq(list, 1, n)
<1>1. all \in Nat /\ refs.kind \in DOMAIN Refs
    BY KindIs
<1>2. list \in Seq(LevelEntries) /\ Len(list) = all
    BY <1>1 DEF Owned
<1>3. part \in Seq(LevelEntries) /\ \A i \in DOMAIN part : i \in 1 .. all /\ part[i] = list[i]
  <2>1. CASE n = 0
    <3>1. part = <<>>
        BY <1>2, <2>1
    <3>2. <<>> \in Seq(LevelEntries) /\ DOMAIN <<>> = {}
        OBVIOUS
    <3> HIDE DEF part
    <3> QED BY <3>1, <3>2
  <2>2. CASE n # 0
    <3>1. 1 \in 1 .. Len(list) /\ n \in 1 .. Len(list) /\ 1 <= n
        BY <1>1, <1>2, <2>2
    <3>2. part \in Seq(LevelEntries) /\ Len(part) = n /\ \A i \in 1 .. n : part[i] = list[i]
        BY <1>2, <3>1
    <3> QED BY <1>1, <3>2
  <2> QED BY <2>1, <2>2
<1>4. sent'.line = "refs" /\ sent'.list = part
    BY DEF SendRefs
<1> HIDE DEF part
<1>5. \A i \in DOMAIN part : part[i].by = "answered" \/ part[i].port = (i - 1) % Refs[refs'.kind].named
    BY <1>3 DEF Owned
<1>6. "refs" \notin DOMAIN Lines
    BY LinesAssumption
<1> QED BY <1>4, <1>5, <1>6 DEF SentAsTyped, Number

LEMMA TypeLevelsSound ==
    ASSUME LevelsOK(refs), TypeLevels
    PROVE  LevelsOK(refs') /\ SentAsTyped'
<1> DEFINE all == Refs[refs.kind].all
           named == Refs[refs.kind].named
<1>1. /\ refs.kind \in DOMAIN Refs /\ refs.def \in Sources /\ refs.auto \in BOOLEAN
      /\ refs = [kind |-> refs.kind, def |-> refs.def, auto |-> refs.auto, list |-> refs.list]
      /\ Owned(refs.list, all, named)
    BY DEF LevelsOK, Owned
<1>2. /\ all \in Nat /\ named \in Nat \ {0} /\ Refs[refs.kind].first \in Nat
      /\ Refs[refs.kind].first <= all /\ named <= all
      /\ refs.list \in [All -> LevelEntries] /\ (\A i \in Named : i \in All) /\ \A i \in All : Number(i) \in Int
    BY KindIs
<1>3. All = 1 .. all /\ Named = 1 .. named /\ \A i : Number(i) = (i - 1) % named
    BY DEF All, Named, Number
<1>4. CASE RefLevel
  <2>1. refs' = [kind |-> refs.kind, def |-> "typed", auto |-> refs.auto, list |-> refs.list] /\ sent' = Nothing
      BY <1>1, <1>4 DEF RefLevel
  <2>2. LevelsOK(refs')
      BY <1>1, <2>1, ListOwned DEF Sources
  <2> QED BY <2>1, <2>2, NothingIsTyped
<1>5. CASE RefClear
  <2> DEFINE list == [i \in All |-> Entry("cleared", Number(i), TRUE, "preset")]
  <2>1. \A i \in All : LET e == Entry("cleared", Number(i), TRUE, "preset") IN e \in LevelEntries /\ e.port = Number(i)
      BY <1>2, EntryIs DEF Sources
  <2>2. Owned(list, all, named)
      BY <1>3, <2>1 DEF Owned
  <2> HIDE DEF list
  <2>3. refs' = [refs EXCEPT !.list = list] /\ SendRefs(list, Refs[refs.kind].first)
      BY <1>5 DEF RefClear, list
  <2>4. refs' = [kind |-> refs.kind, def |-> refs.def, auto |-> refs.auto, list |-> list]
      BY <1>1, <2>3
  <2>5. LevelsOK(refs')
      BY <1>1, <2>2, <2>4, ListOwned
  <2>6. SentAsTyped'
      BY <1>2, <2>2, <2>3, <2>4, RefsSent
  <2> QED BY <2>5, <2>6
<1>6. CASE RefGo
  <2>1. SentAsTyped'
      BY <1>1, <1>2, <1>6, RefsSent DEF RefGo
  <2> QED BY <1>6, <2>1 DEF RefGo
<1>7. CASE RefAuto
  <2>1. refs' = [kind |-> refs.kind, def |-> refs.def, auto |-> TRUE, list |-> refs.list] /\ sent' = Nothing
      BY <1>1, <1>7 DEF RefAuto
  <2>2. LevelsOK(refs')
      BY <1>1, <2>1, ListOwned
  <2> QED BY <2>1, <2>2, NothingIsTyped
<1>8. CASE tms_OnRetAnyOP
  <2>1. PICK n \in 0 .. named + 1, low \in 0 .. 1, weak \in BOOLEAN :
          refs' = IF refs.auto
                  THEN [refs EXCEPT !.auto = FALSE,
                          !.list = [i \in All |-> IF i <= (IF n > named THEN named ELSE n)
                                                  THEN Entry("answered", low + i - 1, refs.list[i].on /\ ~weak, refs.def)
                                                  ELSE refs.list[i]]]
                  ELSE refs
      BY <1>8 DEF tms_OnRetAnyOP
  <2>2. sent' = Nothing
      BY <1>8 DEF tms_OnRetAnyOP
  <2> DEFINE answered(i) == Entry("answered", low + i - 1, refs.list[i].on /\ ~weak, refs.def)
             list == [i \in All |-> IF i <= (IF n > named THEN named ELSE n) THEN answered(i) ELSE refs.list[i]]
  <2>3. ASSUME NEW i \in All
        PROVE  answered(i) \in LevelEntries /\ answered(i).by = "answered"
    <3>1. PICK port \in Int : port = low + i - 1
        BY <1>3
    <3>2. PICK on \in BOOLEAN : on = (refs.list[i].on /\ ~weak)
        OBVIOUS
    <3>3. Entry("answered", port, on, refs.def) \in LevelEntries /\ Entry("answered", port, on, refs.def).by = "answered"
        BY <1>1, EntryIs
    <3> QED BY <3>1, <3>2, <3>3
  <2> HIDE DEF answered
  <2>4. Owned(list, all, named)
      BY <1>1, <1>3, <2>3 DEF Owned
  <2> HIDE DEF list
  <2>5. CASE refs.auto
    <3>1. refs' = [kind |-> refs.kind, def |-> refs.def, auto |-> FALSE, list |-> list]
        BY <1>1, <2>1, <2>5 DEF list, answered
    <3>2. LevelsOK(refs')
        BY <1>1, <2>4, <3>1, ListOwned
    <3> QED BY <2>2, <3>2, NothingIsTyped
  <2>6. CASE ~refs.auto
      BY <2>1, <2>2, <2>6, NothingIsTyped
  <2> QED BY <2>5, <2>6
<1>9. ASSUME NEW i \in Named, NEW b \in BOOLEAN, RefType(i, b)
      PROVE  LevelsOK(refs') /\ SentAsTyped'
  <2>1. PICK level \in Sources :
          /\ refs' = [refs EXCEPT !.list[i] = Entry("typed", Number(i), TRUE, level), !.def = level]
          /\ sent' = Nothing
    <3>1. refs.def \in Sources /\ "typed" \in Sources
        BY <1>1 DEF Sources
    <3> QED BY <1>9, <3>1 DEF RefType
  <2>2. PICK e : e = Entry("typed", Number(i), TRUE, level)
      OBVIOUS
  <2>3. e \in LevelEntries /\ e.port = Number(i) /\ i \in All
    <3>1. PICK port \in Int : port = Number(i)
        BY <1>2
    <3>2. Entry("typed", port, TRUE, level) \in LevelEntries /\ Entry("typed", port, TRUE, level).port = port
        BY DEF Entry, LevelEntries
    <3> QED BY <1>2, <2>2, <3>1, <3>2
  <2> DEFINE list == [refs.list EXCEPT ![i] = e]
  <2>4. Owned(list, all, named)
      BY <1>1, <1>3, <2>3 DEF Owned
  <2>5. refs' = [kind |-> refs.kind, def |-> level, auto |-> refs.auto, list |-> list]
      BY <1>1, <2>1, <2>2
  <2> HIDE DEF list
  <2>6. LevelsOK(refs')
      BY <1>1, <2>4, <2>5, ListOwned
  <2> QED BY <2>1, <2>6, NothingIsTyped
<1>10. ASSUME NEW i \in Named, NEW b \in BOOLEAN, RefEnable(i, b)
       PROVE  LevelsOK(refs') /\ SentAsTyped'
  <2>1. refs' = [refs EXCEPT !.list[i].on = b] /\ sent' = Nothing
      BY <1>10 DEF RefEnable
  <2> DEFINE e == [refs.list[i] EXCEPT !.on = b]
             list == [refs.list EXCEPT ![i] = e]
  <2>2. refs.list[i] \in LevelEntries /\ i \in 1 .. all
      BY <1>2, <1>3
  <2>3. e \in LevelEntries /\ e.by = refs.list[i].by /\ e.port = refs.list[i].port
      BY <2>2 DEF LevelEntries
  <2>4. refs' = [kind |-> refs.kind, def |-> refs.def, auto |-> refs.auto, list |-> list]
      BY <1>1, <2>1
  <2> HIDE DEF e
  <2>5. Owned(list, all, named)
      BY <1>1, <2>2, <2>3 DEF Owned
  <2> HIDE DEF list
  <2>6. LevelsOK(refs')
      BY <1>1, <2>4, <2>5, ListOwned
  <2> QED BY <2>1, <2>6, NothingIsTyped
<1> QED BY <1>4, <1>5, <1>6, <1>7, <1>8, <1>9, <1>10 DEF TypeLevels

-----------------------------------------------------------------------------
LEMMA EnvironmentSound ==
    ASSUME NEW kind \in DOMAIN Refs, cmd_InitTmsxxEnv(kind)
    PROVE  ShellIInv
<1>1. conn \in Conns
    BY DEF cmd_InitTmsxxEnv, Conns, Off
<1>2. Chosen(chosen, conn, sock, place)
  <2>1. chosen = [conn |-> Nobody, place |-> NoPlace]
      BY DEF cmd_InitTmsxxEnv
  <2>2. chosen.conn = Nobody /\ chosen.place = NoPlace
      BY <2>1
  <2> QED BY <2>1, <2>2 DEF Chosen
<1>3. LevelsOK(refs)
  <2> DEFINE list == [i \in 1 .. Refs[kind].all |-> Entry("preset", (i - 1) % Refs[kind].named, TRUE, "preset")]
  <2>1. Refs[kind].all \in Nat /\ Refs[kind].named \in Nat \ {0}
      BY ShellAssumption
  <2>2. \A i \in 1 .. Refs[kind].all :
          LET e == Entry("preset", (i - 1) % Refs[kind].named, TRUE, "preset")
          IN  e \in LevelEntries /\ e.port = (i - 1) % Refs[kind].named
    <3>1. SUFFICES ASSUME NEW i \in 1 .. Refs[kind].all
                   PROVE  LET e == Entry("preset", (i - 1) % Refs[kind].named, TRUE, "preset")
                          IN  e \in LevelEntries /\ e.port = (i - 1) % Refs[kind].named
        OBVIOUS
    <3>2. (i - 1) % Refs[kind].named \in Int
        BY <2>1
    <3> QED BY <3>2, EntryIs, ZenonT(30) DEF Sources
  <2>3. Owned(list, Refs[kind].all, Refs[kind].named)
      BY <2>2 DEF Owned
  <2>4. refs = [kind |-> kind, def |-> "preset", auto |-> FALSE, list |-> list]
      BY DEF cmd_InitTmsxxEnv
  <2> HIDE DEF list
  <2>5. refs.kind = kind /\ refs.list = list /\ refs.def \in Sources /\ refs.auto \in BOOLEAN
      BY <2>4 DEF Sources
  <2> QED BY <2>3, <2>4, <2>5 DEF LevelsOK, Owned
<1>4. SentAsTyped
  <2>1. sent.line = "none" /\ "none" \notin DOMAIN Lines
      BY LinesAssumption DEF cmd_InitTmsxxEnv, Nothing
  <2> QED BY <2>1 DEF SentAsTyped
<1> QED BY <1>1, <1>2, <1>3, <1>4 DEF ShellIInv

LEMMA ShellInductive ==
    ASSUME ShellIInv, [ShellNext \/ LevelsNext]_shellVars
    PROVE  ShellIInv'
<1>1. ASSUME Through, UNCHANGED <<place, sock, conn, chosen, refs>>
      PROVE  ShellIInv'
    BY <1>1, NothingIsTyped DEF Through, ShellIInv
<1>2. CASE ShellNext
    BY <1>1, <1>2, ConnectsSound, ReportsSound, DisconnectsSound, ChoosesSound, TypeLineSound DEF ShellNext
<1>3. CASE LevelsNext
  <2>1. CASE TypeLevels
    <3>1. LevelsOK(refs') /\ SentAsTyped'
        BY <2>1, TypeLevelsSound DEF ShellIInv
    <3> QED BY <1>3, <3>1 DEF LevelsNext, ShellIInv
  <2>2. CASE Through /\ UNCHANGED refs
      BY <1>1, <1>3, <2>2 DEF LevelsNext
  <2> QED BY <1>3, <2>1, <2>2 DEF LevelsNext
<1>4. CASE UNCHANGED shellVars
    BY <1>4 DEF shellVars, ShellIInv, SentAsTyped, Number
<1> QED BY <1>2, <1>3, <1>4

\* A line that is typed reaches the device chosen last while it is connected, names the place
\* chosen last unless it was moved, and has each argument in the member it is for; levels that
\* are sent name their own port: however many connections, places and levels there
\* are, whatever devices come and go, with the exceptions that the property lists.
THEOREM LinesAreSentAsTyped == ShellSpec => []SentAsTyped
<1>1. ShellIInv => SentAsTyped
    BY DEF ShellIInv
<1>2. (\E kind \in DOMAIN Refs : cmd_InitTmsxxEnv(kind)) => ShellIInv
    BY EnvironmentSound
<1>3. ShellIInv /\ [ShellNext \/ LevelsNext]_shellVars => ShellIInv'
    BY ShellInductive
<1> QED BY <1>1, <1>2, <1>3, PTL DEF ShellSpec
=============================================================================
