-------------------------------- MODULE MCAdb --------------------------------
(***************************************************************************)
(* Instance of Adb for TLC: an archive that grows, and beside it another   *)
(* that has a name twice.                                                  *)
(***************************************************************************)
EXTENDS Adb, TLC

MCContent ==
  <<"a", 1>> :> <<"x", "y">> @@ <<"a", 2>> :> <<"y", "z", "x">> @@
  <<"b", 1>> :> <<"x", "x">> @@ <<"b", 2>> :> <<>>
=============================================================================
