------------------------------- MODULE IlMain -------------------------------
(***************************************************************************)
(* The program around the loop (main, ilmain.c), for instances that share  *)
(* a configuration and so a port and a scope file: the start up to the     *)
(* handshake with the box, the main loop, the signals that come at any     *)
(* moment, and the end.                                                    *)
(*                                                                         *)
(* The signal handlers only set flags.  The main loop tests them once in   *)
(* a turn, and waits for a byte in between, for 50 ms at most; a signal    *)
(* ends the waiting if it has begun.                                       *)
(***************************************************************************)
EXTENDS IlConfig

CONSTANTS Proc,       \* the instances
          Sizes,      \* sizes of a terminal
          Small,      \* those with less than 25 lines or 80 columns
          Configs,    \* configuration files, as sequences of lines
          NoProc,     \* no process
          MaxLogged   \* bound: frames the scope logs in one run

VARIABLES config,   \* the configuration file
          conf,     \* process -> what it has read from it
          pc,       \* process -> where it is
          quit,     \* process -> quit_flag
          resized,  \* process -> resize_flag
          size,     \* process -> the size of its terminal
          view,     \* process -> the size the display is laid out for
          lock,     \* the process that has the port locked, or NoProc
          boxOn,    \* the box has been told to send frames
          leftOn,   \* history: the last process to have the port could not
                    \* tell it to stop
          logged,   \* history: process -> frames it has logged
          inFile,   \* process -> how many of them are in the scope file
          pending   \* process -> scope_count: how many are in the line that it
                    \* still has in memory

vars == <<config, conf, pc, quit, resized, size, view, lock, boxOn, leftOn,
          logged, inFile, pending>>

ASSUME MainAssumption == NoProc \notin Proc /\ Small \subseteq Sizes /\ Small # Sizes /\ MaxLogged \in Nat

\* A configuration file is a sequence of lines.
ASSUME ConfigsAssumption == \A c \in Configs : Len(c) \in Nat /\ DOMAIN c = 1 .. Len(c)

\* Where a process is: not running; before initscr; before scope_open; before
\* open and flock; waiting for the box; at the top of the loop; before
\* handle_resize; waiting for a byte; before stop_emulation.
Places == {"none", "screen", "scope", "lock", "shake", "top", "resize", "wait", "stop"}

Runs(p)  == pc[p] # "none"
Loops(p) == pc[p] \in {"top", "resize", "wait", "stop"}

flags  == <<quit, resized>>
port   == <<lock, boxOn, leftOn>>
log    == <<logged, inFile, pending>>
memory == <<conf, flags, view, log>>

\* The display is laid out for 24 lines of 80 characters at first.
Default == CHOOSE s \in Sizes \ Small : TRUE

\* p goes on with its loop or its start.
Goes(p, from, to) == pc[p] = from /\ pc' = [pc EXCEPT ![p] = to]

\* p exits or is killed: what it had in memory is gone, and its log is of no
\* more concern here (see IlOutputs).
Ends(p) ==
  /\ pc' = [pc EXCEPT ![p] = "none"]
  /\ conf' = [conf EXCEPT ![p] = Unset]
  /\ quit' = [quit EXCEPT ![p] = FALSE] /\ resized' = [resized EXCEPT ![p] = FALSE]
  /\ view' = [view EXCEPT ![p] = Default]
  /\ logged' = [logged EXCEPT ![p] = 0] /\ inFile' = [inFile EXCEPT ![p] = 0]
  /\ pending' = [pending EXCEPT ![p] = 0]

\* The system gives the lock of a process back that is gone.
Unlock(p) == lock' = IF lock = p THEN NoProc ELSE lock

-----------------------------------------------------------------------------
(***************************************************************************)
(* The start                                                               *)
(***************************************************************************)

\* read_config, the checks and the installing of the handlers.
Launch(p) ==
  /\ Complete(ReadConfig(config))
  /\ Goes(p, "none", "screen")
  /\ conf' = [conf EXCEPT ![p] = ReadConfig(config)]
  /\ UNCHANGED <<config, flags, size, view, port, log>>

\* The file is not accepted: someone edits it.
Edit ==
  /\ ~Complete(ReadConfig(config)) /\ config' \in Configs
  /\ UNCHANGED <<pc, memory, size, port>>

\* Mutant: the size is not looked at.
ScreenAnySize(p) ==
  /\ Goes(p, "screen", "scope") /\ view' = [view EXCEPT ![p] = size[p]]
  /\ UNCHANGED <<config, conf, flags, log, size, port>>

\* initscr and the size of the terminal; too small a one ends the program.
Screen(p) ==
  /\ \/ size[p] \in Small /\ pc[p] = "screen" /\ Ends(p)
     \/ /\ size[p] \notin Small /\ Goes(p, "screen", "scope")
        /\ view' = [view EXCEPT ![p] = size[p]] /\ UNCHANGED <<conf, flags, log>>
  /\ UNCHANGED <<config, size, port>>

\* scope_open empties the file, whoever writes to it.
ScopeOpen(p) ==
  /\ Goes(p, "scope", "lock")
  /\ inFile' = IF "scope" \in DOMAIN conf[p] THEN [q \in Proc |-> 0] ELSE inFile
  /\ UNCHANGED <<config, conf, flags, size, view, port, logged, pending>>

\* Mutant: the lock is not tried.
LockPortUnlocked(p) ==
  /\ Goes(p, "lock", "shake") /\ lock' = p /\ boxOn' = TRUE /\ leftOn' = FALSE
  /\ UNCHANGED <<config, memory, size>>

\* start_emulation up to the command for the box.  It fails when another
\* process has the lock, and when the port is not there.
LockPort(p) ==
  /\ \/ pc[p] = "lock" /\ Ends(p) /\ UNCHANGED port
     \/ /\ lock = NoProc
        /\ Goes(p, "lock", "shake") /\ lock' = p /\ boxOn' = TRUE /\ leftOn' = FALSE
        /\ UNCHANGED memory
  /\ UNCHANGED <<config, size>>

\* The box answers, or does not in time, or a signal ends the waiting.
Shake(p) ==
  /\ \/ Goes(p, "shake", "top") /\ UNCHANGED <<memory, port>>
     \/ pc[p] = "shake" /\ Ends(p) /\ Unlock(p) /\ leftOn' = TRUE /\ UNCHANGED boxOn
  /\ UNCHANGED <<config, size>>

-----------------------------------------------------------------------------
(***************************************************************************)
(* The main loop                                                           *)
(***************************************************************************)

\* Mutant: the flag is reset when a byte has come, not before the resize.
TopForgets(p) ==
  /\ Goes(p, "top", IF quit[p] THEN "stop" ELSE "wait")
  /\ resized' = [resized EXCEPT ![p] = FALSE]
  /\ UNCHANGED <<config, conf, quit, size, view, port, log>>

\* The tests of the flags.
Top(p) ==
  /\ Goes(p, "top", IF quit[p] THEN "stop" ELSE IF resized[p] THEN "resize" ELSE "wait")
  /\ resized' = IF quit[p] THEN resized ELSE [resized EXCEPT ![p] = FALSE]
  /\ UNCHANGED <<config, conf, quit, size, view, port, log>>

\* handle_resize: the size is read afresh.
HandleResize(p) ==
  /\ Goes(p, "resize", "wait")
  /\ view' = IF size[p] \in Small THEN view ELSE [view EXCEPT ![p] = size[p]]
  /\ UNCHANGED <<config, conf, flags, log, size, port>>

\* Mutant: the waiting has no end.
TimeoutNever(p) == FALSE /\ UNCHANGED <<config, memory, pc, size, port>>

\* No byte for 50 ms.
Timeout(p) == Goes(p, "wait", "top") /\ UNCHANGED <<config, memory, size, port>>

\* The scope logs a frame: one more of the line in memory, or another line,
\* before which that one goes to the file.
LogFrame(p) ==
  /\ "scope" \in DOMAIN conf[p]
  /\ logged[p] < MaxLogged /\ logged' = [logged EXCEPT ![p] = @ + 1]
  /\ \/ /\ pending[p] > 0
        /\ pending' = [pending EXCEPT ![p] = @ + 1] /\ UNCHANGED inFile
     \/ /\ inFile' = [inFile EXCEPT ![p] = @ + pending[p]]
        /\ pending' = [pending EXCEPT ![p] = 1]

\* A byte, perhaps the last of a frame, which is logged.
Byte(p) ==
  /\ Goes(p, "wait", "top")
  /\ LogFrame(p) \/ UNCHANGED log
  /\ UNCHANGED <<config, conf, flags, size, view, port>>

\* The port is gone, or does not take an answer.
PortError(p) ==
  /\ Goes(p, "wait", "top")
  /\ quit' = [quit EXCEPT ![p] = TRUE]
  /\ UNCHANGED <<config, conf, resized, size, view, port, log>>

\* Mutant: the box is not told.
StopSilently(p) ==
  /\ pc[p] = "stop" /\ Ends(p) /\ Unlock(p) /\ UNCHANGED <<config, size, boxOn, leftOn>>

\* stop_emulation: the box is told to stop, if the port is still there.
Stop(p) ==
  /\ pc[p] = "stop" /\ Ends(p) /\ Unlock(p)
  /\ \/ boxOn' = FALSE /\ leftOn' = FALSE
     \/ leftOn' = TRUE /\ UNCHANGED boxOn
  /\ UNCHANGED <<config, size>>

-----------------------------------------------------------------------------
(***************************************************************************)
(* What happens to a process                                               *)
(***************************************************************************)

\* A signal ends the waiting in select, if that has begun.
Interrupted(p) ==
  \/ UNCHANGED pc
  \/ pc[p] = "wait" /\ pc' = [pc EXCEPT ![p] = "top"]

\* SIGINT, SIGTERM
Interrupt(p) ==
  /\ Runs(p) /\ ~quit[p]
  /\ quit' = [quit EXCEPT ![p] = TRUE] /\ Interrupted(p)
  /\ UNCHANGED <<config, conf, resized, size, view, port, log>>

\* The terminal gets another size, and the process a SIGWINCH.
Winch(p) ==
  /\ \E s \in Sizes \ {size[p]} : size' = [size EXCEPT ![p] = s]
  /\ IF Runs(p) THEN resized' = [resized EXCEPT ![p] = TRUE] /\ Interrupted(p)
                ELSE UNCHANGED <<resized, pc>>
  /\ UNCHANGED <<config, conf, quit, view, port, log>>

\* SIGKILL, or a signal before the handlers: the box hears nothing of it.
Kill(p) ==
  /\ Runs(p) /\ Ends(p) /\ Unlock(p)
  /\ leftOn' = (lock = p \/ leftOn)
  /\ UNCHANGED <<config, size, boxOn>>

-----------------------------------------------------------------------------
Init ==
  /\ config \in Configs /\ conf = [p \in Proc |-> Unset]
  /\ pc = [p \in Proc |-> "none"]
  /\ quit = [p \in Proc |-> FALSE] /\ resized = [p \in Proc |-> FALSE]
  /\ size \in [Proc -> Sizes] /\ view = [p \in Proc |-> Default]
  /\ lock = NoProc /\ boxOn = FALSE /\ leftOn = FALSE
  /\ logged = [p \in Proc |-> 0] /\ inFile = [p \in Proc |-> 0]
  /\ pending = [p \in Proc |-> 0]

\* What a process does by itself.
Step(p) ==
  \/ Screen(p) \/ ScopeOpen(p) \/ LockPort(p) \/ Shake(p)
  \/ Top(p) \/ HandleResize(p) \/ Timeout(p) \/ Stop(p)

Next ==
  \/ Edit
  \/ \E p \in Proc : 
       \/ Launch(p) \/ Step(p) \/ Byte(p) \/ PortError(p)
       \/ Interrupt(p) \/ Winch(p) \/ Kill(p)

Spec == Init /\ [][Next]_vars

\* A process that runs goes on, and waits for no byte longer than 50 ms;
\* nothing makes a byte come, or a signal, or someone start the program.
FairSpec == Spec /\ \A p \in Proc : WF_vars(Step(p))

-----------------------------------------------------------------------------
(***************************************************************************)
(* Properties                                                              *)
(***************************************************************************)

\* Every variable has its type; the display is never laid out for a terminal
\* that is too small (ilmain.c:115, :616).
TypeOK ==
  /\ config \in Configs /\ \A p \in Proc : conf[p] = Unset \/ Complete(conf[p])
  /\ pc \in [Proc -> Places]
  /\ quit \in [Proc -> BOOLEAN] /\ resized \in [Proc -> BOOLEAN]
  /\ size \in [Proc -> Sizes] /\ view \in [Proc -> Sizes \ Small]
  /\ lock \in Proc \cup {NoProc} /\ boxOn \in BOOLEAN /\ leftOn \in BOOLEAN
  /\ logged \in [Proc -> 0 .. MaxLogged] /\ inFile \in [Proc -> 0 .. MaxLogged]
  /\ pending \in [Proc -> 0 .. MaxLogged]

\* One process at most talks to the box, and while one does the box sends.
OneTalks ==
  \A p \in Proc : pc[p] = "shake" \/ Loops(p) => lock = p /\ boxOn

\* The box is not left sending to a port nobody reads, unless the process was
\* killed, lost the port, or had no answer to its start (ilmain.c:528, :699).
BoxStopped == boxOn /\ lock = NoProc => leftOn

\* A configuration is accepted exactly when its lines, in any order, set each
\* known key at most once and to a value it may have, the mandatory keys are
\* there, and the disc images are (README.md:60-77).
Lines(k) == {i \in DOMAIN config : config[i] # NoKey /\ config[i][1] = k}
Proper ==
  /\ \A i \in DOMAIN config : config[i] # NoKey =>
       Valid(config[i][1], config[i][2]) /\ Lines(config[i][1]) = {i}
  /\ \A k \in {"device", "baudrate", "keyboard"} : Lines(k) # {}
  /\ Lines("LIF_file2") # {} => Lines("LIF_file1") # {}
  /\ \A i \in Lines("LIF_file1") \cup Lines("LIF_file2") :
       ResolvePath(config[i][2]) \in Reachable
ConfigExact == Proper <=> Complete(ReadConfig(config))

\* Whatever is resized when, in the end the display is laid out for the size
\* the terminal has, or that is too small (ilmain.c:653-656).
SizeFollowed ==
  \A p \in Proc, s \in Sizes \ Small :
    Runs(p) /\ size[p] = s ~> size[p] # s \/ view[p] = s \/ ~Runs(p)

\* A request to quit is obeyed, at whatever moment it comes, also between the
\* test of the flag and the waiting (ilmain.c:652-697).
QuitEnds == \A p \in Proc : quit[p] ~> ~Runs(p)

\* What a process that has the port has logged is in the scope file, but for
\* the line that it has in memory.
LogKept == \A p \in Proc : Loops(p) => inFile[p] + pending[p] = logged[p]
=============================================================================
