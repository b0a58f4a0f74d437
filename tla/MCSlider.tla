------------------------------- MODULE MCSlider -------------------------------
(***************************************************************************)
(* Instances of Slider for TLC.                                            *)
(***************************************************************************)
EXTENDS Slider

(* Every command, a bad frame in front of another, and a quick restart.    *)
MCRequests ==
  {<<"RESET">>, <<"SET_LED">>, <<"START">>, <<"STOP">>, <<"bad", "START">>, <<"STOP", "START">>}

MCStartStop == {<<"START">>, <<"STOP">>}
=============================================================================
