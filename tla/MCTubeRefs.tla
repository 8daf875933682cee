------------------------------ MODULE MCTubeRefs ------------------------------
(***************************************************************************)
(* The symmetry of connections and of jobs for module TubeRefs: nothing    *)
(* orders them.                                                            *)
(***************************************************************************)
EXTENDS TubeRefs, TLC

Symmetric == Permutations(Conns) \cup Permutations(Jobs)
=============================================================================
