--------------------------- MODULE MCFigureBackup ---------------------------
(***************************************************************************)
(* Small portals for model checking FigureBackup.  The figures can be      *)
(* exchanged for one another: they occur in no constant but Figures.       *)
(***************************************************************************)
EXTENDS FigureBackup, TLC

FigureSymmetry == Permutations(Figures)

=============================================================================
