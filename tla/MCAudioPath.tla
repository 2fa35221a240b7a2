------------------------------ MODULE MCAudioPath ------------------------------
(***************************************************************************)
(* Bounds for model checking AudioPath: the handles the driver gives out,  *)
(* few enough that a portal gets the one of its predecessor.  Builds and   *)
(* configurations are not bounded.                                         *)
(***************************************************************************)
EXTENDS AudioPath

=============================================================================
