------------------------------ MODULE IlConfig ------------------------------
(***************************************************************************)
(* The configuration file as read_config and main (ilmain.c) take it: line *)
(* after line, until one of them ends the program.  A line is a key with a *)
(* value, or NoKey when it is a comment, blank, or without "=".  The value *)
(* of a path is its anchor, "~", "/" or none, and its name.                *)
(***************************************************************************)
EXTENDS Integers, Sequences

CONSTANT Reachable  \* the paths that access() allows to read and write

PathKeys == {"device", "LIF_file1", "LIF_file2", "scope", "printer"}

\* The keys with a choice of values.
Allowed ==
  [k \in {"baudrate", "keyboard", "display_encoding"} |->
     CASE k = "baudrate" -> {"115200", "230400"} [] k = "keyboard" -> {"on", "off"}
       [] k = "display_encoding" -> {"roman8", "inverse"}]

NoKey == <<>>

\* What the lines read so far have set; a key is set once.
Unset    == <<>>
Rejected == [k \in {"exit"} |-> <<>>]

\* Relative paths are taken from the home directory, like those with "~".
ResolvePath(val) == IF val[1] = "/" THEN val ELSE <<"HOME", val[2]>>

Valid(k, v) == k \in PathKeys \/ (k \in DOMAIN Allowed /\ v \in Allowed[k])

\* conf with the value of a line.
Set(conf, line) ==
  [k \in DOMAIN conf \cup {line[1]} |->
     IF k # line[1] THEN conf[k]
     ELSE IF k \in PathKeys THEN ResolvePath(line[2]) ELSE line[2]]

\* Mutant: a key may come again and the last line holds.
ReadLineAgain(conf, line) ==
  IF conf = Rejected \/ line = NoKey THEN conf
  ELSE IF ~Valid(line[1], line[2]) THEN Rejected
  ELSE Set(conf, line)

ReadLine(conf, line) ==
  IF conf = Rejected \/ line = NoKey THEN conf
  ELSE IF line[1] \in DOMAIN conf \/ ~Valid(line[1], line[2]) THEN Rejected
  ELSE Set(conf, line)

ReadConfig(lines) ==
  LET read[n \in 0 .. Len(lines)] ==
        IF n = 0 THEN Unset ELSE ReadLine(read[n - 1], lines[n])
  IN  read[Len(lines)]

\* The checks of main before the screen is taken.
Complete(conf) ==
  /\ conf # Rejected
  /\ "LIF_file2" \in DOMAIN conf => "LIF_file1" \in DOMAIN conf
  /\ {"device", "baudrate", "keyboard"} \subseteq DOMAIN conf
  /\ \A k \in {"LIF_file1", "LIF_file2"} \cap DOMAIN conf : conf[k] \in Reachable
=============================================================================
