----------------------------- MODULE MCWorkflow -----------------------------
(***************************************************************************)
(* Instances of Workflow for model checking.                               *)
(***************************************************************************)
EXTENDS Workflow, TLC

\* The API processes are interchangeable, and so are the jobs as long as no
\* liveness property is checked.
APISymmetry == Permutations(API)
=============================================================================
