------------------------------ MODULE MCWavPlay ------------------------------
(***************************************************************************)
(* Instances of WavPlay for TLC: files of three or four frames, a ring of  *)
(* three or four, a device of three.                                       *)
(***************************************************************************)
EXTENDS WavPlay
=============================================================================
