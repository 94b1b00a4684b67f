------------------------------ MODULE MCFsMain ------------------------------
(***************************************************************************)
(* Instance of FsMain for TLC: a module and a CD track that play, a file   *)
(* that is gone, a sound device (virtual, its interface returns at once)   *)
(* and a file of a type without interface.                                 *)
(***************************************************************************)
EXTENDS FsMain
=============================================================================
