---------------------------- MODULE MCAcceptLock ----------------------------
(***************************************************************************)
(* Instances of AcceptLock for model checking.                             *)
(***************************************************************************)
EXTENDS AcceptLock, TLC

\* Slots and process identifiers are interchangeable.
LockSymmetry == Permutations(Workers) \cup Permutations(Pids)
=============================================================================
