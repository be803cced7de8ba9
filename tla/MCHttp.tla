--------------------------------- MODULE MCHttp ---------------------------------
(***************************************************************************)
(* A small instance of Http for TLC.                                       *)
(***************************************************************************)
EXTENDS Http, TLC

\* Around the limits of the two forms of a length.
Limits == {123, 124, 65533, 65534}
=============================================================================
