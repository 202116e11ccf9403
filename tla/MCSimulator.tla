---------------------------- MODULE MCSimulator ----------------------------
(* Small instances of Simulator: see the sim_*.cfg files. *)
EXTENDS Simulator, TLC

Symmetry == Permutations(Clients)
=============================================================================
