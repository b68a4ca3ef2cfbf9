----------------------------- MODULE HpilFrames -----------------------------
(***************************************************************************)
(* The HP-IL frames, as the emulator tells them apart.  On the wire a      *)
(* frame is an 11 bit number; FrameOf is the decoding that ilbase.c makes  *)
(* of it with masks and nested switches, spread over hpil_dev_process,     *)
(* process_cmd and process_rdy.                                            *)
(*                                                                         *)
(* A frame is a kind and an argument.  The SRQ bit of a data frame and the *)
(* parallel poll bits of an identify frame are dropped: no device reads or *)
(* writes them.                                                            *)
(***************************************************************************)
EXTENDS Integers

Byte == 0 .. 255

\* HP-IL addresses are 5 bits; 31 is no address (UNL, UNT, IAA).
NoAddress == 31

DoeKinds == {"DAB", "END"}
CmdKinds == {"SDC", "DCL", "LAD", "TAD", "IFC", "AAU", "DDL", "DDT", "CMD"}
RdyKinds == {"ETO", "NRD", "SDA", "SST", "SDI", "SAI", "AAD", "RDY"}
Kinds    == DoeKinds \cup CmdKinds \cup RdyKinds \cup {"IDY"}

Frame == [k : Kinds, n : Byte]

F(kind, arg) == [k |-> kind, n |-> arg]

Dab(b) == F("DAB", b)
Eto    == F("ETO", 0)

(***************************************************************************)
(* The DOE class: bit 9 is the END bit.                                    *)
(***************************************************************************)
DoeOf(code) == F(IF (code \div 512) % 2 = 1 THEN "END" ELSE "DAB", code % 256)

(***************************************************************************)
(* The CMD class, by its group n >> 5.  UNL is LAD 31, UNT is TAD 31.      *)
(***************************************************************************)
CmdOf(n) ==
  CASE n = 4         -> F("SDC", 0)
    [] n = 20        -> F("DCL", 0)
    [] n \div 32 = 1 -> F("LAD", n % 32)
    [] n \div 32 = 2 -> F("TAD", n % 32)
    [] n = 144       -> F("IFC", 0)
    [] n = 154       -> F("AAU", 0)
    [] n \div 32 = 5 -> F("DDL", n % 32)
    [] n \div 32 = 6 -> F("DDT", n % 32)
    [] OTHER         -> F("CMD", n)

(***************************************************************************)
(* The RDY class.  IAA is AAD 31.                                          *)
(***************************************************************************)
RdyOf(n) ==
  CASE n = 64        -> Eto
    [] n = 66        -> F("NRD", 0)
    [] n = 96        -> F("SDA", 0)
    [] n = 97        -> F("SST", 0)
    [] n = 98        -> F("SDI", 0)
    [] n = 99        -> F("SAI", 0)
    [] n \div 32 = 4 -> F("AAD", n % 32)
    [] OTHER         -> F("RDY", n)

FrameOf(code) ==
  CASE code < 1024        -> DoeOf(code)
    [] code \div 256 = 4  -> CmdOf(code % 256)
    [] code \div 256 = 5  -> RdyOf(code % 256)
    [] code \div 256 = 6  -> F("IDY", 0)
    [] code \div 256 = 7  -> F("IDY", 1)
=============================================================================
