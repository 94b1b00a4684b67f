------------------------------ MODULE MCDevOss ------------------------------
(***************************************************************************)
(* Instances of DevOss for TLC: a buffer of three frames, a kernel queue   *)
(* of two, sample numbers 0..3 (one more than the buffer has frames).      *)
(***************************************************************************)
EXTENDS DevOss
=============================================================================
