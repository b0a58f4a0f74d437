--------------------------------- MODULE MCHost ---------------------------------
(***************************************************************************)
(* The parts of the hook library and of the platform for TLC.  They share  *)
(* no state, so one of them is chosen at the start, and only that one is   *)
(* run.                                                                    *)
(***************************************************************************)
EXTENDS Clock, LedPipe, Y3Table, Chu2to3, Registry, Nusec, PathVfs, Dns, Printer, PrinterCx, Ewf, Amex

VARIABLE part

(* The light patterns hold the framing byte, the escape byte, or the byte  *)
(* that either is escaped to.                                              *)
LedPats == {<<6, 1>>, <<4, 6>>}

(* Cards with no field, with one, and with two of other lengths.           *)
Y3Fs == {<<>>, <<1>>, <<2, 0>>, <<2, 1, 1>>}

(* "mount" has two values, one of which "keychip" has not.                 *)
RegVs == [k \in RegKeys |-> IF k = "mount" THEN <<"AMFS", "APPDATA">> ELSE <<"gameId">>]

(* A name of each hook, and one that differs from a hook's only in what    *)
(* follows its prefix.                                                     *)
VfsPs == {<<"E:", VfsSep, "a">>, VfsTmpIcf, <<"nthome", VfsSep, "a">>,
          <<"w10home", VfsSep, "a">>, <<"apm", VfsSep>>, <<"w10home", "2">>}
VfsPorts3 == {<<"COM5">>, <<"COM5", "0">>, <<"COM1">>}
VfsReds == {<<>>, <<<<<<"COM5">>, <<"COM10">>>>, <<<<"COM5", "0">>, <<"COM2">>>>>>}

(* A name, two of its subdomains and one that only begins like it.         *)
DnsNs == {<<"a", ".", "n">>, <<"a", ".", "b", ".", "n">>, <<"n">>, <<"n", "2">>}
DnsPats == {<<"*", ".", "n">>, <<"n">>}
DnsHs == {<<"h">>}
DnsPs == [p \in {80, 8443} |-> IF p = 80 THEN 8080 ELSE 0]

(* Names that the write filter takes always, with its option only, never.  *)
EwfPs == {<<"C:", "temp", "alib.conf">>, <<"C:", "temp", "b">>, <<"C:", "Windows", "alib.conf">>}

(* A class with real devices and one without have an emulated device, a    *)
(* third has real devices only.                                            *)
AmexCs == <<"eeprom", "hid">>
AmexRs == [g \in {"eeprom", "hid", "disk"} |-> IF g = "hid" THEN <<"r1", "r2">>
                                              ELSE IF g = "disk" THEN <<"d1", "d2">> ELSE <<>>]

-----------------------------------------------------------------------------
HostVars == <<clock, ledpipe, y3, chu, reg, nusec, vfs, dns, prn, cx, ewf, setupapi, amex, part>>

(* What is left to choose is chosen for the part that is run only.         *)
HostInit ==
  /\ part \in {"clock", "ledpipe", "y3", "chu", "reg", "nusec", "vfs", "dns", "prn", "cx",
              "ewf", "setupapi", "amex"}
  /\ ClockInit
  /\ LedInit
  /\ Y3Init
  /\ ChuInit
  /\ RegInit
  /\ NusecInit
  /\ VfsInit
  /\ DnsInit
  /\ PrnInit
  /\ CxInit
  /\ EwfInit
  /\ AmexInit
  /\ part # "clock" => clock.cfg = CHOOSE c \in ClockSwitches : TRUE
  /\ part # "chu" => chu.dll = CHOOSE v \in ChuVersions : TRUE
  /\ part # "nusec" => ~nusec.persistence
  /\ part # "vfs" => ~vfs.option /\ ~vfs.allow /\ vfs.redirs = <<>>
  /\ part # "prn" => prn.model = "330" /\ prn.wait = 0 /\ prn.data = CHOOSE d \in PrnData : TRUE
  /\ part # "ewf" => ~ewf.full

ClockOnly ==
  /\ part = "clock" /\ ClockNext
  /\ UNCHANGED <<ledpipe, y3, chu, reg, nusec, vfs, dns, prn, cx, ewf, setupapi, amex, part>>

LedOnly ==
  /\ part = "ledpipe" /\ LedNext
  /\ UNCHANGED <<clock, y3, chu, reg, nusec, vfs, dns, prn, cx, ewf, setupapi, amex, part>>

Y3Only ==
  /\ part = "y3" /\ Y3Next
  /\ UNCHANGED <<clock, ledpipe, chu, reg, nusec, vfs, dns, prn, cx, ewf, setupapi, amex, part>>

ChuOnly ==
  /\ part = "chu" /\ ChuNext
  /\ UNCHANGED <<clock, ledpipe, y3, reg, nusec, vfs, dns, prn, cx, ewf, setupapi, amex, part>>

RegOnly ==
  /\ part = "reg" /\ RegNext
  /\ UNCHANGED <<clock, ledpipe, y3, chu, nusec, vfs, dns, prn, cx, ewf, setupapi, amex, part>>

NusecOnly ==
  /\ part = "nusec" /\ NusecNext
  /\ UNCHANGED <<clock, ledpipe, y3, chu, reg, vfs, dns, prn, cx, ewf, setupapi, amex, part>>

VfsOnly ==
  /\ part = "vfs" /\ VfsNext
  /\ UNCHANGED <<clock, ledpipe, y3, chu, reg, nusec, dns, prn, cx, ewf, setupapi, amex, part>>

DnsOnly ==
  /\ part = "dns" /\ DnsNext
  /\ UNCHANGED <<clock, ledpipe, y3, chu, reg, nusec, vfs, prn, cx, ewf, setupapi, amex, part>>

PrnOnly ==
  /\ part = "prn" /\ PrnNext
  /\ UNCHANGED <<clock, ledpipe, y3, chu, reg, nusec, vfs, dns, cx, ewf, setupapi, amex, part>>

CxOnly ==
  /\ part = "cx" /\ CxNext
  /\ UNCHANGED <<clock, ledpipe, y3, chu, reg, nusec, vfs, dns, prn, ewf, setupapi, amex, part>>

EwfOnly ==
  /\ part = "ewf" /\ EwfNext
  /\ UNCHANGED <<clock, ledpipe, y3, chu, reg, nusec, vfs, dns, prn, cx, setupapi, amex, part>>

ListsOnly ==
  /\ part = "setupapi" /\ AmexLists
  /\ UNCHANGED <<clock, ledpipe, y3, chu, reg, nusec, vfs, dns, prn, cx, ewf, part>>

StoreOnly ==
  /\ part = "amex" /\ AmexStore
  /\ UNCHANGED <<clock, ledpipe, y3, chu, reg, nusec, vfs, dns, prn, cx, ewf, part>>

HostNext ==
  \/ ClockOnly \/ LedOnly \/ Y3Only \/ ChuOnly \/ RegOnly \/ NusecOnly
  \/ VfsOnly \/ DnsOnly \/ PrnOnly \/ CxOnly
  \/ EwfOnly \/ ListsOnly \/ StoreOnly

HostSpec == HostInit /\ [][HostNext]_HostVars

=============================================================================
