----------------------------- MODULE MCMai2Touch -----------------------------
(***************************************************************************)
(* Instances of Mai2Touch for TLC: the game reads panel 1.                 *)
(***************************************************************************)
EXTENDS Mai2Touch

MCHomePort == [o \in Ovl |-> 1]
=============================================================================
