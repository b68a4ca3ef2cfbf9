------------------------------ MODULE MCIlMain ------------------------------
(***************************************************************************)
(* Two instances; a terminal that is too small and two that are not; a     *)
(* complete configuration, with a scope, and the ways in which a file is   *)
(* refused.                                                                *)
(***************************************************************************)
EXTENDS IlMain

Path(a, n) == <<a, n>>

MCReachable == {<<"HOME", "disc">>, <<"/", "disc">>}

Needed == <<<<"device", Path("/", "port")>>, NoKey, <<"keyboard", "on">>>>
Baud   == <<<<"baudrate", "115200">>>>
Disc1  == <<<<"LIF_file1", Path("~", "disc")>>>>
Disc2  == <<<<"LIF_file2", Path("/", "disc")>>>>
Log    == <<<<"scope", Path("", "log")>>>>

MCConfigs ==
  {Needed \o Baud \o Disc1 \o Log \o Disc2,
   Needed, Needed \o Baud \o Baud, Needed \o Baud \o Disc2,
   Needed \o Baud \o <<<<"LIF_file1", Path("~", "none")>>>>,
   Needed \o <<<<"baudrate", "9600">>>>, Needed \o Baud \o <<<<"speed", "1">>>>}
=============================================================================
