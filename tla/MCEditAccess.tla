------------------------------ MODULE MCEditAccess ------------------------------
(***************************************************************************)
(* Instances of EditAccess for TLC: a file that is edited alone, and        *)
(* proposals over two and three files, one of which a restriction reserves  *)
(* for the user.                                                           *)
(***************************************************************************)
EXTENDS EditAccess

CONSTANTS f1, f2, f3

MCFiles    == {f1, f2, f3}
MCTargets  == {<<f1>>, <<f2, f1>>, <<f1, f2, f3>>}
MCReserved == {f2}
=============================================================================
