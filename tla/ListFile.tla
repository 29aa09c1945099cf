------------------------------ MODULE ListFile ------------------------------
(***************************************************************************)
(* The command "lf" (src/shell/cmd/cmd_tmsxx.c): cf_howline looks for a    *)
(* row of a file and shows it, reading the file block by block three       *)
(* times: for where the row begins, for where it ends, and to show it.     *)
(* Every block goes into the array strout, which is printed as a string    *)
(* whose end is marked one byte too late: the byte behind what was read,   *)
(* whatever strout holds there, is printed as well.                        *)
(***************************************************************************)
EXTENDS Integers, Sequences, FiniteSets

CONSTANTS
    Files,          \* what a file may hold, as sequences of "char" and "line feed"
    FileRows,       \* the rows that are asked for
    Block,          \* what is read at a time of the search
    Preset,         \* characters that strout holds at first, NUL behind them
    Room            \* room in strout, what is shown at a time

ASSUME FileAssumption ==
    /\ \A f \in Files : f \in Seq({"char", "line feed"})
    /\ FileRows \subseteq Int /\ {Block, Preset, Room} \subseteq Nat \ {0}
    /\ Block < Preset /\ Preset < Room

VARIABLE reading    \* the call of cf_howline

fileVars == <<reading>>

\* row: rows still to go, the one asked for included; at: how far the file is read;
\* stray: the length of each piece printed, and the byte printed behind it, if not NUL;
\* spoiled: the end of a string was marked behind the array.
NotReading == [step |-> "none", file |-> <<>>, asked |-> 0, row |-> 0, at |-> 0, start |-> 0, end |-> 0,
               strout |-> [i \in 1 .. Room |-> IF i <= Preset THEN "preset" ELSE "NUL"],
               shown |-> <<>>, stray |-> <<>>, spoiled |-> FALSE, ret |-> 0]

\* What fread() gets, which is nothing at the end and behind it.
Fread(n) == SubSeq(reading.file, reading.at + 1, IF reading.at + n < Len(reading.file) THEN reading.at + n ELSE Len(reading.file))

\* strout with a block at its front.
Overwritten(block) == [i \in 1 .. Room |-> IF i <= Len(block) THEN block[i] ELSE reading.strout[i]]

Feeds(block) == {i \in DOMAIN block : block[i] = "line feed"}

\* The n-th of them.
FeedAt(block, n) == CHOOSE i \in Feeds(block) : Cardinality({j \in Feeds(block) : j <= i}) = n

-----------------------------------------------------------------------------
cmd_listfile ==
  /\ reading.step = "none"
  /\ \E f \in Files, row \in FileRows :
       reading' = [NotReading EXCEPT !.file = f, !.asked = row, !.row = row, !.ret = IF row < 1 THEN -1 ELSE 0,
                     !.step = IF row < 1 THEN "returned" ELSE IF row = 1 THEN "end" ELSE "start"]

\* Where the row begins: behind the last line feed before it.
\* Bug: at it.
BeginsAt(before, feed) == before + feed - 1
Begins(before, feed) == before + feed

\* A last block that is short counts as a whole one.
FindStart ==
  LET block == Fread(Block)
      feeds == Cardinality(Feeds(block))
      begins == Begins(reading.start, FeedAt(block, reading.row - 1))
      read == [reading EXCEPT !.strout = Overwritten(block)]
  IN /\ reading.step = "start"
     /\ reading' =
          IF block = <<>> THEN [reading EXCEPT !.step = "end", !.at = reading.start, !.end = reading.start]
          ELSE IF feeds < reading.row - 1
               THEN [read EXCEPT !.row = @ - feeds, !.start = @ + Block, !.at = @ + Len(block)]
               ELSE [read EXCEPT !.step = "end", !.start = begins, !.at = begins, !.end = begins]

FindEnd ==
  LET block == Fread(Block)
      read == [reading EXCEPT !.strout = Overwritten(block)]
  IN /\ reading.step = "end"
     /\ reading' =
          IF Feeds(block) # {} THEN [read EXCEPT !.step = "show", !.at = reading.start,
                                       !.end = @ + FeedAt(block, 1) - 1]
          ELSE IF block = <<>> THEN [reading EXCEPT !.step = "show", !.at = reading.start]
          ELSE [read EXCEPT !.end = @ + Block, !.at = @ + Len(block)]

\* What the byte behind the array may be: NUL or not.
Beyond == {"NUL", "beyond"}

\* The end of the string is marked one byte behind the one that is not read.
Terminated(cells, rlen) == [i \in 1 .. Room |-> IF i = rlen + 2 THEN "NUL" ELSE cells[i]]

\* A piece goes to the array and is printed.
Printed(block, byte) ==
  [reading EXCEPT !.shown = @ \o block, !.at = @ + Len(block),
     !.stray = Append(@, [len |-> Len(block), byte |-> byte]),
     !.strout = Terminated(Overwritten(block), Len(block)), !.spoiled = @ \/ Len(block) + 2 > Room]

\* At the end of the file nothing more is read, and the loop goes on printing the byte
\* strout begins with (bound: what is printed then is not kept).
Show ==
  LET rest == reading.end - reading.start - Len(reading.shown)
      block == Fread(IF rest > Room THEN Room ELSE rest)
  IN /\ reading.step = "show"
     /\ \/ rest = 0 /\ reading' = [reading EXCEPT !.step = "returned", !.ret = IF reading.end = reading.start THEN -1 ELSE 0]
        \/ rest # 0 /\ block = <<>> /\ reading' = [reading EXCEPT !.strout = Terminated(@, 0)]
        \/ /\ rest # 0 /\ block # <<>>
           /\ \E byte \in IF Len(block) < Room THEN {Overwritten(block)[Len(block) + 1]} ELSE Beyond :
                reading' = Printed(block, byte)

FileReturns == reading.step = "returned" /\ reading' = NotReading

FileInit == reading = NotReading
FileNext == cmd_listfile \/ FindStart \/ FindEnd \/ Show \/ FileReturns
FileSpec == FileInit /\ [][FileNext]_fileVars

-----------------------------------------------------------------------------
(* Properties. *)

\* The rows of a file: what lies between two line feeds, or a line feed and the ends.
RowOf(f, row) ==
  LET feeds == Cardinality(Feeds(f))
      begin == IF row = 1 THEN 1 ELSE FeedAt(f, row - 1) + 1
      end == IF row = feeds + 1 THEN Len(f) ELSE FeedAt(f, row) - 1
  IN IF row \in 1 .. feeds + 1 THEN SubSeq(f, begin, end) ELSE <<>>

\* The row is the last, ends without a line feed, and not at the end of a block.
Unterminated ==
  /\ Cardinality(Feeds(reading.file)) = reading.asked - 1
  /\ \A n \in 0 .. Len(reading.file) : Len(RowOf(reading.file, reading.asked)) # n * Block

\* The byte behind a piece of a row: what lies behind the array, a byte of the piece before,
\* the line feed as it was looked for, or what strout held at first.
Stray(row, len) ==
  IF len = Room THEN Beyond
  ELSE IF Len(row) > Room THEN {"char"}
  ELSE IF Len(row) < Block THEN {"line feed"}
  ELSE IF Len(row) < Preset THEN {"preset"} ELSE {"NUL"}

(* cf_howline shows the row that is asked for, whole, and refuses one that *)
(* is empty or that the file does not have.  Behind each piece it prints   *)
(* no more than one byte that does not belong there, the one of Stray, and *)
(* it writes behind its array exactly if the row fills the array but for  *)
(* one character, or wholly, or more.  It comes to an end, except in the  *)
(* last row of a file that ends without a line feed, of which it looks for *)
(* more than there is and never returns.                                   *)
LineFound ==
  LET row == RowOf(reading.file, reading.asked)
  IN /\ reading.step = "returned" =>
          /\ reading.shown = row /\ (reading.ret = -1 <=> row = <<>>)
          /\ \A i \in DOMAIN reading.stray : reading.stray[i].byte \in Stray(row, reading.stray[i].len)
          /\ reading.spoiled <=> Len(row) >= Room - 1
     /\ reading.step = "show" /\ reading.end > Len(reading.file) => reading.end = reading.start \/ Unterminated
=============================================================================
