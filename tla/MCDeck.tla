--------------------------------- MODULE MCDeck ---------------------------------
(***************************************************************************)
(* An instance of Deck for TLC.                                            *)
(***************************************************************************)
EXTENDS Deck

(* Every command, a bad frame in front of another, a READ begun again.     *)
MCRequests == {<<"NOP">>, <<"READ">>, <<"unhandled">>, <<"bad", "READ">>, <<"READ", "READ">>}
=============================================================================
