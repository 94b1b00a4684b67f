------------------------------ MODULE MCDevDisk ------------------------------
(***************************************************************************)
(* Instances of DevDisk for TLC: a buffer of four frames, a cache one      *)
(* longer, files of up to twelve frames.                                   *)
(***************************************************************************)
EXTENDS DevDisk
=============================================================================
