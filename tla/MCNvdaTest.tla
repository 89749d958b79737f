------------------------------ MODULE MCNvdaTest ------------------------------
(***************************************************************************)
(* Two tests in a row against one NVDA, with two dialogs, one add-on and a *)
(* configuration of one section that the tests may add another to.         *)
(***************************************************************************)
EXTENDS NvdaTest, TLC

MCBaseline == <<"speech", "rate">> :> "kept"

MCSymmetry == Permutations(Dialogs)

\* In a section the baseline does not have.
MCPaths == {<<"new", "x">>}
================================================================================
