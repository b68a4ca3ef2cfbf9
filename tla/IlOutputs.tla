------------------------------ MODULE IlOutputs ------------------------------
(***************************************************************************)
(* hpil_transmit (ilper7.c) with one device, the printer, and the scope:   *)
(* a frame from the link goes through the device, what came in and what    *)
(* goes out is logged, and both logs survive stops, crashes and starts in  *)
(* their own ways.  Frames are their 11 bits here, as the scope sees them. *)
(***************************************************************************)
EXTENDS IlPrint, Scope

CONSTANTS Codes,     \* the frames of 11 bits that may come in
          MaxFrames, \* bound: frames of one run
          MaxHistory \* bound: these and the bytes received in all runs

VARIABLES running,  \* the process is there
          passed    \* history: the frames of this run, <<in, out>>

vars == <<dev, frame, printVars, scopeVars, running, passed>>

ASSUME OutputsAssumption ==
  N = 1 /\ Codes \subseteq 0 .. 2047 /\ {MaxFrames, MaxHistory} \subseteq Nat

\* The 11 bits of a frame the device has made.
CodeOf(f) == CASE f.k = "DAB" -> f.n [] f.k = "ETO" -> 1344 [] f.k = "AAD" -> 1408 + f.n

\* A frame goes out with the bits it came with, unless the device made
\* another of it.
Made(f)   == IsSource(Printer) /\ f.k \in DoeKinds
Out(code) == IF frame' = FrameOf(code) /\ ~Made(FrameOf(code)) THEN code ELSE CodeOf(frame')

Transmit(code) ==
  /\ running /\ Len(passed) < MaxFrames /\ Len(heard) + Len(passed) < MaxHistory
  /\ ILprint(FrameOf(code))
  /\ ScopeLog(code, Out(code))
  /\ passed' = Append(passed, <<code, Out(code)>>)
  /\ UNCHANGED running

\* scope_open and init_hpil
Start ==
  /\ ~running /\ running' = TRUE
  /\ dev' = [d \in Device |-> PowerOn(d)] /\ frame' = Eto
  /\ PrintOpen /\ ScopeOpen
  /\ passed' = <<>>

\* The end of main: scope_close, close_ilprint.
Quit ==
  /\ running /\ running' = FALSE
  /\ ScopeClose /\ PrintClose
  /\ UNCHANGED <<dev, frame, passed>>

Crash ==
  /\ running /\ running' = FALSE
  /\ ScopeLost /\ PrintLost
  /\ UNCHANGED <<dev, frame, passed>>

Init ==
  /\ dev = [d \in Device |-> PowerOn(d)] /\ frame = Eto
  /\ PrintInit /\ ScopeInit
  /\ running = FALSE /\ passed = <<>>

Next == (\E code \in Codes : Transmit(code)) \/ Start \/ Quit \/ Crash

Spec == Init /\ [][Next]_vars

-----------------------------------------------------------------------------
(***************************************************************************)
(* Properties                                                              *)
(***************************************************************************)

\* The lines of the log, the repeated ones as often as they came.
Repeat(entry) == [i \in 1 .. entry[2] |-> entry[1]]
Expand(log)   == FlattenSeq([n \in DOMAIN log |-> Repeat(log[n])])
Expanded      == Expand(logfile)

LinesOf(p) == [i \in DOMAIN p |-> LineOf(p[i][1], p[i][2])]

\* The log file is at any time, also after a crash, a beginning of the lines
\* of the frames that passed; what is missing is one line with its repeats,
\* and after the end of the program nothing (scope.c:57-66, :287-297).
ScopeIsLog ==
  LET all   == LinesOf(passed)
      saved == Len(Expanded)
  IN  /\ Expanded = SubSeq(all, 1, saved)
      /\ \A i \in saved + 1 .. Len(all) : all[i] = all[Len(all)]

\* After the end of the program the log is complete.
QuitWritesLog == [][Quit => Expanded' = LinesOf(passed)]_vars

\* No two entries of the log that follow each other are equal: repeats are
\* always collapsed (scope.c:26).
RepeatsCollapsed ==
  \A i \in 1 .. Len(logfile) - 1 : logfile[i][1] # logfile[i + 1][1]

\* A line tells the frames: two lines are equal, and may be collapsed, only if
\* the frames are, but for data frames of the classes that are shown without
\* their byte (scope.c:85-97, :289).
Shown(codes) == \A n \in {1, 2} : codes[n] \div 256 \notin 1 .. 3
Legible ==
  \A i, j \in DOMAIN passed :
    /\ Shown(passed[i]) /\ Shown(passed[j])
    /\ LineOf(passed[i][1], passed[i][2]) = LineOf(passed[j][1], passed[j][2])
    => passed[i] = passed[j]
=============================================================================
