--------------------------- MODULE MCStatusDisplay ---------------------------
(***************************************************************************)
(* Bounds for model checking StatusDisplay.  The reports have the slots at *)
(* the edges of their bytes, with and without changed bits of neighbours,  *)
(* and the reports that must be left alone.                                *)
(***************************************************************************)
EXTENDS StatusDisplay

Report(tells, figures, toy, r) ==
  [tells |-> tells, figures |-> figures, toy |-> toy, bytes |-> r]
Status(present, changed) ==
  Report("figures", present, 0, StatusReport(present, changed))
Ignored(r) == Report("nothing", {}, 0, r)

MCReports ==
  {Status({0, 3, 4, 15}, {1, 15}), Status({}, {0, 7}),
   Report("toy", {}, 259, QueryAnswer(0, 1, 259)),
   Ignored(QueryAnswer(0, 2, 259)), Ignored(QueryError(0, 1)),
   Ignored(<<SKY_CMD_STATUS, 1, 0, 0>>)}

=============================================================================
