---------------------------- MODULE MCMaintenance ----------------------------
(* Two sessions on the plans of one asset.  Sessions are interchangeable. *)
EXTENDS Maintenance, TLC

Symmetry == Permutations(Sessions)
=============================================================================
