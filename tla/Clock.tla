---------------------------------- MODULE Clock ----------------------------------
(***************************************************************************)
(* The clock of a game (platform/clock.c).                                 *)
(*                                                                         *)
(* With timewarp a day of 24 hours is told as one of 19, so that the       *)
(* maintenance, UTC [17:00, 22:00), never comes.  Which functions of       *)
(* Windows are taken over depends on three switches; they call that of     *)
(* Windows through a pointer the base hook sets.  Time is counted in units *)
(* of which ClockHour make an hour (36 * 10^9).                            *)
(***************************************************************************)
EXTENDS Integers

CONSTANTS
  ClockHour,         (* units in an hour                                   *)
  ClockStart,        (* the time at the start                              *)
  ClockEnd           (* bound: the time when the model stops               *)

(* Windows counts from the year 1601: the day after its first is long past.*)
ASSUME ClockAssumption ==
  ClockHour \in Nat \ {0} /\ ClockEnd \in Nat /\ ClockStart \in 24 * ClockHour..ClockEnd

(* cfg: the three switches; real: the time of Windows; told: what the game *)
(* was told last, as UTC; next: that answer came through the pointer.      *)
VARIABLE clock

ClockSwitches == [timezone : BOOLEAN, timewarp : BOOLEAN, writeable : BOOLEAN]
ClockAPIs == {"GetSystemTimeAsFileTime", "GetSystemTime", "GetLocalTime"}
ClockDay == 24 * ClockHour

-----------------------------------------------------------------------------
(* Broken: the day is made longer, not shorter.                            *)
ClockWarpLong(real) ==
  LET biased == real + 2 * ClockHour
      time == biased % ClockDay
  IN  (biased - time) + (time * 24) \div 19 - 2 * ClockHour

(* Broken: the day begins at midnight UTC.                                 *)
ClockWarpUnbiased(real) ==
  LET time == real % ClockDay IN (real - time) + (time * 19) \div 24

(* The time warp: a day of the biased time begins at 22:00 UTC.            *)
ClockWarp(real) ==
  LET biased == real + 2 * ClockHour
      time == biased % ClockDay
  IN  (biased - time) + (time * 19) \div 24 - 2 * ClockHour

(* Broken: the base hook is for the time warp only.                        *)
ClockHookedWarp(cfg) ==
  (IF cfg.timewarp THEN {"GetSystemTimeAsFileTime"} ELSE {})
  \cup (IF cfg.timezone THEN {"GetSystemTime", "GetLocalTime"} ELSE {})

(* clock_hook_insert_hooks: the functions that are taken over.             *)
ClockHooked(cfg) ==
  (IF cfg.timezone \/ cfg.timewarp \/ ~cfg.writeable THEN {"GetSystemTimeAsFileTime"} ELSE {})
  \cup (IF cfg.timezone THEN {"GetSystemTime", "GetLocalTime"} ELSE {})

-----------------------------------------------------------------------------

ClockInit ==
  \E cfg \in ClockSwitches :
    clock = [cfg |-> cfg, real |-> ClockStart, told |-> 0, next |-> FALSE]

ClockTick ==
  clock.real < ClockEnd /\ clock' = [clock EXCEPT !.real = @ + 1]

(* my_GetSystemTimeAsFileTime, my_GetSystemTime and my_GetLocalTime, or    *)
(* what Windows has in their place.  Local time is told as UTC + 9: the    *)
(* answer of Windows depends on the machine and is left out.               *)
ClockAsk(api) ==
  /\ api = "GetLocalTime" => api \in ClockHooked(clock.cfg)
  /\ LET hooked == api \in ClockHooked(clock.cfg)
     IN  clock' = [clock EXCEPT !.next = hooked,
                     !.told = IF hooked /\ clock.cfg.timewarp THEN ClockWarp(clock.real)
                              ELSE clock.real]

(* Broken: the time is set.                                                *)
ClockSets ==
  /\ clock.real >= ClockStart + ClockHour
  /\ clock' = [clock EXCEPT !.real = @ - ClockHour]

(* my_SetSystemTime and my_SetLocalTime say that they did it and do not;   *)
(* Windows does it, here to a time an hour ago.                            *)
my_SetSystemTime ==
  /\ clock.real >= ClockStart + ClockHour
  /\ clock' = [clock EXCEPT !.real = IF clock.cfg.writeable THEN @ - ClockHour ELSE @]

ClockNext == ClockTick \/ (\E api \in ClockAPIs : ClockAsk(api)) \/ my_SetSystemTime

ClockSpec == ClockInit /\ [][ClockNext]_clock

-----------------------------------------------------------------------------
(* Properties.                                                             *)

ClockTypeOK ==
  /\ clock.cfg \in ClockSwitches
  /\ clock.real \in ClockStart..ClockEnd /\ clock.next \in BOOLEAN
  /\ clock.told = 0 \/ clock.told \in ClockStart - 5 * ClockHour..ClockEnd

(* With timewarp and timezone the game is never told a time of the         *)
(* maintenance, by whichever function it asks.                             *)
ClockSkipsMaintenance ==
  clock.cfg.timewarp /\ clock.cfg.timezone /\ clock.told # 0 =>
    ~(clock.told % ClockDay \in 17 * ClockHour..22 * ClockHour - 1)

(* A game that cannot set the time sees it go forward, across midnight of  *)
(* the biased day and from one function to another (but for a warp that    *)
(* some of them do not know of).                                           *)
ClockForward ==
  [][~clock.cfg.writeable /\ (clock.cfg.timezone \/ ~clock.cfg.timewarp)
       => clock'.told >= clock.told]_clock

(* The time told is never ahead of the time that is, nor five hours        *)
(* behind it.                                                              *)
ClockIsClose ==
  [][clock'.told # clock.told =>
       clock'.told \in clock.real - 5 * ClockHour..clock.real]_clock

(* A function that is taken over has the one of Windows to ask.            *)
ClockLinks == clock.next => "GetSystemTimeAsFileTime" \in ClockHooked(clock.cfg)

(* The clock as a whole: the time told is outside the maintenance window,  *)
(* does not go back, is not ahead of the real time nor far behind it, and  *)
(* each hook has the function of Windows to ask.                           *)
ClockIsRight ==
  /\ [](ClockTypeOK /\ ClockSkipsMaintenance /\ ClockLinks)
  /\ ClockForward
  /\ ClockIsClose

=============================================================================
