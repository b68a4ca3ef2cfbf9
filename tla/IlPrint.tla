------------------------------- MODULE IlPrint -------------------------------
(***************************************************************************)
(* The printer (ilprint.c) behind the protocol engine: what it receives is *)
(* written to a text file, with the line ends of the calculator (CR, LF or *)
(* CR LF) turned into newlines.                                            *)
(*                                                                         *)
(* The file is written by lines: what follows the last newline is in the   *)
(* memory of the process (pending) until a newline or the end.             *)
(***************************************************************************)
EXTENDS HpilBase, Roman8, SequencesExt

VARIABLES last_cr,  \* the last byte was CR
          paper,    \* what is in the file, one tuple of bytes for each write
          pending,  \* written, but not in the file yet
          heard,    \* history: bytes received, clears and starts
          kept      \* history: how many of them are safe in the file

printVars == <<last_cr, paper, pending, heard, kept>>

Printer == 1
LF      == 10
Newline == <<LF>>

\* Marks in the history that are no bytes.
Cleared   == -2
Restarted == -3

Write(bytes) ==
  IF bytes = Newline
  THEN /\ paper' = paper \o pending \o <<bytes>> /\ pending' = <<>>
       /\ kept' = Len(heard) + 1
  ELSE pending' = Append(pending, bytes) /\ UNCHANGED <<paper, kept>>

NoWrite == UNCHANGED <<paper, pending, kept>>

\* The bytes 32 .. 126 stand for themselves; control codes are left out.
Ascii(n) == n \in 32 .. 126
Latin(n) == n >= 128 /\ Roman8(n) # Blank

-----------------------------------------------------------------------------
\* Mutant: every line feed after a CR in the same line is left out.
PrintCharSticky(n) ==
  /\ heard' = Append(heard, n)
  /\ last_cr' = (n = CR \/ (last_cr /\ n # LF))
  /\ IF n = CR \/ (n = LF /\ ~last_cr) THEN Write(Newline)
     ELSE IF Ascii(n) THEN Write(<<n>>)
     ELSE IF Latin(n) THEN Write(Utf8(Roman8(n)))
     ELSE NoWrite

\* print_char
PrintChar(n) ==
  /\ heard' = Append(heard, n)
  /\ last_cr' = (n = CR)
  /\ IF n = CR \/ (n = LF /\ ~last_cr) THEN Write(Newline)
     ELSE IF Ascii(n) THEN Write(<<n>>)
     ELSE IF Latin(n) THEN Write(Utf8(Roman8(n)))
     ELSE NoWrite

\* print_on_clear
OnClear == heard' = Append(heard, Cleared) /\ Write(Newline) /\ UNCHANGED last_cr

\* ILprint(f): there is no on_send and no on_cmd, and the status is 0.
ILprint(f) ==
  \/ Quiet(Printer, f) /\ UNCHANGED printVars
  \/ Poll(Printer, f, FALSE) /\ UNCHANGED printVars
  \/ Hear(Printer, f) /\ PrintChar(f.n)
  \/ Send(Printer, f, NoByte) /\ UNCHANGED printVars
  \/ Status(Printer, f, 0) /\ UNCHANGED printVars
  \/ Clear(Printer, f) /\ OnClear
  \/ Command(Printer, f) /\ UNCHANGED printVars

\* init_ilprint: a new process adds to the file.
PrintOpen ==
  /\ last_cr' = FALSE
  /\ heard' = IF heard = <<>> \/ heard[Len(heard)] = Restarted
              THEN heard ELSE Append(heard, Restarted)
  /\ UNCHANGED <<paper, pending, kept>>

\* close_ilprint
PrintClose ==
  /\ paper' = paper \o pending /\ pending' = <<>> /\ kept' = Len(heard)
  /\ UNCHANGED <<last_cr, heard>>

\* The process is killed: what was pending is lost.
PrintLost ==
  /\ pending' = <<>> /\ heard' = SubSeq(heard, 1, kept)
  /\ UNCHANGED <<last_cr, paper, kept>>

PrintInit ==
  last_cr = FALSE /\ paper = <<>> /\ pending = <<>> /\ heard = <<>> /\ kept = 0

-----------------------------------------------------------------------------
(***************************************************************************)
(* The text that a sequence of bytes and clears stands for, by position:   *)
(* a newline for each CR, for each LF that does not directly follow a CR,  *)
(* and for each clear.  In two points there are two readings.              *)
(*   - Control codes are spaces (Architecture.md:70), or are left out      *)
(*     (ilprint.c:76).                                                     *)
(*   - A LF with clears alone between it and a CR is one newline with that *)
(*     CR (last_cr survives a clear), or, as it does not directly follow,  *)
(*     is one of its own.                                                  *)
(* The properties below say nothing about which reading it is, but it is   *)
(* one throughout.                                                         *)
(***************************************************************************)
Readings == [spaces : BOOLEAN, joins : BOOLEAN]

AfterCr(h, i, r) ==
  \E j \in 1 .. i - 1 :
    h[j] = CR /\ \A k \in j + 1 .. i - 1 : r.joins /\ h[k] = Cleared

TextOf(n, after_cr, r) ==
  CASE n \in {CR, Cleared} -> <<LF>>
    [] n = LF              -> IF after_cr THEN <<>> ELSE <<LF>>
    [] n \in 32 .. 126     -> <<n>>
    [] n >= 128            -> IF Roman8(n) = Blank THEN <<>> ELSE <<Roman8(n)>>
    [] n \in (0 .. 31) \ {CR, LF} -> IF r.spaces THEN <<32>> ELSE <<>>
    [] OTHER               -> <<>>

TextAt(h, i, r) == TextOf(h[i], AfterCr(h, i, r), r)

Text(h, r) == FlattenSeq([i \in DOMAIN h |-> TextAt(h, i, r)])

\* The characters of what was written.
ReadAll(writes) == [i \in DOMAIN writes |-> Utf8Read(writes[i])]

\* The file, and what is pending, read as UTF-8, is the text of what was
\* received, over any number of runs of the program and in one of the readings;
\* and a process that is killed loses no line that was complete
\* (ilprint.c:53-108).
PaperIsText ==
  /\ \E r \in Readings : ReadAll(paper \o pending) = Text(heard, r)
  /\ \A i \in DOMAIN pending : pending[i] # Newline
=============================================================================
