-------------------------------- MODULE MCStore --------------------------------
(***************************************************************************)
(* A small instance of Store for TLC.                                      *)
(***************************************************************************)
EXTENDS Store, TLC

\* Two fields, one of them taken away.
Some == {("a" :> "x") @@ ("b" :> "x"), ("a" :> Blank)}
=============================================================================
