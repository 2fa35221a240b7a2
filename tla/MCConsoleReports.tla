--------------------------- MODULE MCConsoleReports ---------------------------
(***************************************************************************)
(* Bounds for model checking ConsoleReports: s_in_q holds two reports      *)
(* instead of 48 and tx_task makes two attempts instead of three, so that  *)
(* a full queue and a given-up report are a few steps away.                *)
(***************************************************************************)
EXTENDS ConsoleReports

=============================================================================
