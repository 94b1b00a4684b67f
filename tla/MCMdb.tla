-------------------------------- MODULE MCMdb --------------------------------
(***************************************************************************)
(* Instance of Mdb for TLC.                                                *)
(***************************************************************************)
EXTENDS Mdb
=============================================================================
