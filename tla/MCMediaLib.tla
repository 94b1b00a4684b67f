------------------------------ MODULE MCMediaLib ------------------------------
(***************************************************************************)
(* Instances of MediaLib for TLC.  The disk has a directory d and a file f *)
(* in its root, and up to two files in d; d may also be a file.            *)
(***************************************************************************)
EXTENDS MediaLib

D == <<"d">>   F == <<"f">>   X == <<"d", "x">>   Y == <<"d", "y">>

JustD == {D}
TopAndX == {D, F, X}
InD == {X, Y}
Everything == {<<>>, D}
=============================================================================
