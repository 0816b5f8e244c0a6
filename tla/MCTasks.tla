------------------------------- MODULE MCTasks -------------------------------
(***************************************************************************)
(* Instances of Tasks for model checking.                                  *)
(***************************************************************************)
EXTENDS Tasks
=============================================================================
