-------------------------------- MODULE Scope --------------------------------
(***************************************************************************)
(* The scope (scope.c): a log of the frames, as mnemonics, in which equal  *)
(* lines that follow each other become one line with its number.  The line *)
(* that may still repeat is kept in memory and written when another comes. *)
(***************************************************************************)
EXTENDS Integers, Sequences

VARIABLES logfile,      \* the lines in the file, each with its number
          scope_last,   \* the line that is not in the file yet
          scope_count   \* how often it came; 0: there is none

scopeVars == <<logfile, scope_last, scope_count>>

NoLine == <<>>

-----------------------------------------------------------------------------
(***************************************************************************)
(* ILMnemo: a frame as the words of its mnemonic.                          *)
(***************************************************************************)
NoName == ""

\* The addressed commands; the universal ones, UNL and UNT; the addressed ready
\* frames; those of the automatic addresses that have no address.
AcgName(n) ==
  CASE n = 0 -> "NUL" [] n = 1 -> "GTL" [] n = 4 -> "SDC" [] n = 5 -> "PPD" [] n = 8 -> "GET"
    [] n = 15 -> "ELN" [] OTHER -> NoName

UcgName(n) ==
  CASE n = 16 -> "NOP" [] n = 17 -> "LLO" [] n = 20 -> "DCL" [] n = 21 -> "PPU" [] n = 24 -> "EAR"
    [] n = 63 -> "UNL" [] n = 95 -> "UNT" [] n = 144 -> "IFC" [] n = 146 -> "REN" [] n = 147 -> "NRE"
    [] n = 154 -> "AAU" [] n = 155 -> "LPD" [] OTHER -> NoName

ArgName(n) ==
  CASE n = 0 -> "RFC" [] n = 64 -> "ETO" [] n = 65 -> "ETE" [] n = 66 -> "NRD" [] n = 96 -> "SDA"
    [] n = 97 -> "SST" [] n = 98 -> "SDI" [] n = 99 -> "SAI" [] n = 100 -> "TCT" [] OTHER -> NoName

AagName(n) ==
  CASE n = 159 -> "IAA" [] n = 191 -> "IEP" [] n = 192 -> "ZES" [] n = 223 -> "IES" [] n = 255 -> "IMP"
    [] OTHER -> NoName

CmdName(n) == IF n < 16 THEN AcgName(n) ELSE UcgName(n)
RdyName(n) == IF n < 128 THEN ArgName(n) ELSE AagName(n)

\* Mutant: a name is copied.
CmdGroupCopied(g) ==
  CASE g = 1 -> "LAD" [] g = 2 -> "LAD" [] g = 3 -> "SAD" [] g = 5 -> "DDL"
    [] g = 6 -> "DDT" [] OTHER -> NoName

\* The groups of 32 whose members are told apart by a number.
CmdGroup(g) ==
  CASE g = 1 -> "LAD" [] g = 2 -> "TAD" [] g = 3 -> "SAD" [] g = 5 -> "DDL"
    [] g = 6 -> "DDT" [] OTHER -> NoName

RdyGroup(g) ==
  CASE g = 4 -> "AAD" [] g = 5 -> "AEP" [] g = 6 -> "AES" [] g = 7 -> "AMP"
    [] OTHER -> NoName

CmdMnemo(n) ==
  IF CmdName(n) # NoName THEN <<CmdName(n)>>
  ELSE IF n \div 16 = 8 THEN <<"PPE", n % 16>>
  ELSE IF CmdGroup(n \div 32) # NoName THEN <<CmdGroup(n \div 32), n % 32>>
  ELSE <<"CMD", n>>

RdyMnemo(n) ==
  IF RdyName(n) # NoName THEN <<RdyName(n)>>
  ELSE IF RdyGroup(n \div 32) # NoName THEN <<RdyGroup(n \div 32), n % 32>>
  ELSE <<"RDY", n>>

ILMnemo(code) ==
  LET n == code % 256
  IN  CASE code \div 256 = 0 -> <<"DAB", n>>
        [] code \div 256 = 1 -> <<"DAB(SRQ)">>
        [] code \div 256 = 2 -> <<"END">>
        [] code \div 256 = 3 -> <<"END(SRQ)">>
        [] code \div 256 = 4 -> CmdMnemo(n)
        [] code \div 256 = 5 -> RdyMnemo(n)
        [] code \div 256 = 6 -> <<"IDY", n>>
        [] code \div 256 = 7 -> <<"IDY(SRQ)", n>>

\* The line for a frame that came in and what the devices made of it.
LineOf(in, out) ==
  IF in = out THEN <<ILMnemo(out)>> ELSE <<ILMnemo(in), ILMnemo(out)>>

-----------------------------------------------------------------------------
\* scope_flush
Flushed ==
  IF scope_count = 0 THEN logfile ELSE Append(logfile, <<scope_last, scope_count>>)

\* Mutant: the line before is not written when another comes.
LogMnemoForgets(line) ==
  /\ scope_last' = line /\ UNCHANGED logfile
  /\ scope_count' = IF scope_count > 0 /\ line = scope_last THEN scope_count + 1 ELSE 1

\* Mutant: every line is written.
LogMnemoAlways(line) == scope_last' = line /\ scope_count' = 1 /\ logfile' = Flushed

\* log_mnemo
LogMnemo(line) ==
  /\ scope_last' = line
  /\ IF scope_count > 0 /\ line = scope_last
     THEN scope_count' = scope_count + 1 /\ UNCHANGED logfile
     ELSE scope_count' = 1 /\ logfile' = Flushed

ScopeLog(in, out) == LogMnemo(LineOf(in, out))

\* The file is emptied, and the process is a new one.
ScopeOpen == logfile' = <<>> /\ scope_last' = NoLine /\ scope_count' = 0

\* Mutant: the line that may still repeat is not written.
ScopeCloseUnflushed == UNCHANGED logfile /\ scope_last' = NoLine /\ scope_count' = 0

ScopeClose == logfile' = Flushed /\ scope_last' = NoLine /\ scope_count' = 0

ScopeLost == UNCHANGED logfile /\ scope_last' = NoLine /\ scope_count' = 0

ScopeInit == logfile = <<>> /\ scope_last = NoLine /\ scope_count = 0
=============================================================================
