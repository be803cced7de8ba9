-------------------------------- MODULE MCLocal --------------------------------
(***************************************************************************)
(* A small instance of Local for TLC.                                      *)
(***************************************************************************)
EXTENDS Local, TLC
=============================================================================
