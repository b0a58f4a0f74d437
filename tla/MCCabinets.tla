------------------------------- MODULE MCCabinets -------------------------------
(***************************************************************************)
(* What a cabinet is played with, for TLC: the IO4 board, its force        *)
(* feedback, the controls of the games and the start of each of them.      *)
(* They share no state, so one of them is chosen at the start, and only    *)
(* that one is run.                                                        *)
(***************************************************************************)
EXTENDS Io4, ForceFeedback, Wheel, GameStart, Inputs, DivaIo

VARIABLE cabinet

(* The requests of the IO4 board differ only in their names.               *)
OvlSymmetry == Permutations(Ovl)

CabinetVars == <<vars, board, ffb, wheel, start, inp, diva, cabinet>>

(* What is left to choose is chosen for the part that is run only.         *)
CabinetInit ==
  /\ cabinet \in {"io4", "ffb", "wheel", "start", "inp", "diva"}
  /\ Io4Init
  /\ cabinet # "io4" => window = "game"
  /\ FfbInit
  /\ cabinet # "ffb" =>
       ffb.game = "idz" /\ ffb.mode = "dinput" /\ ffb.enable /\ ffb.weak = {}
  /\ WheelInit
  /\ cabinet # "wheel" =>
       wheel.game = "idz" /\ wheel.mode = "dinput" /\ wheel.named = {} /\ wheel.plugged = {}
  /\ StartInit
  /\ cabinet # "start" => start.game = "mu3" /\ start.dip /\ start.custom
  /\ InpInit
  /\ cabinet # "inp" => inp.cabinet = "chusan" /\ ~inp.emu
  /\ DivaInit
  /\ cabinet # "diva" => diva.unit = "buttons" /\ diva.mode = "keyboard"

Io4Only ==
  /\ cabinet = "io4" /\ Io4Next
  /\ UNCHANGED <<ffb, wheel, start, inp, diva, cabinet>>

FfbOnly ==
  /\ cabinet = "ffb" /\ FfbNext
  /\ UNCHANGED <<vars, board, wheel, start, inp, diva, cabinet>>

WheelOnly ==
  /\ cabinet = "wheel" /\ WheelNext
  /\ UNCHANGED <<vars, board, ffb, start, inp, diva, cabinet>>

StartOnly ==
  /\ cabinet = "start" /\ StartNext
  /\ UNCHANGED <<vars, board, ffb, wheel, inp, diva, cabinet>>

InputsOnly ==
  /\ cabinet = "inp" /\ InpNext
  /\ UNCHANGED <<vars, board, ffb, wheel, start, diva, cabinet>>

DivaOnly ==
  /\ cabinet = "diva" /\ DivaNext
  /\ UNCHANGED <<vars, board, ffb, wheel, start, inp, cabinet>>

CabinetNext ==
  Io4Only \/ FfbOnly \/ WheelOnly \/ StartOnly \/ InputsOnly \/ DivaOnly

CabinetSpec == CabinetInit /\ [][CabinetNext]_CabinetVars

=============================================================================
