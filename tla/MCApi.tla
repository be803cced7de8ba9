--------------------------------- MODULE MCApi ---------------------------------
(***************************************************************************)
(* Small instances of Api for TLC.  Users are interchangeable.             *)
(***************************************************************************)
EXTENDS Api, TLC

Symmetry == Permutations(User)
=============================================================================
