--------------------------- MODULE MCHttpRequests ---------------------------
(***************************************************************************)
(* Instances of HttpRequests for model checking.                           *)
(***************************************************************************)
EXTENDS HttpRequests, TLC

\* The elements of a pool are interchangeable.
PoolSymmetry == Permutations(Conns) \cup Permutations(Requests)
=============================================================================
