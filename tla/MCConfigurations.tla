-------------------------- MODULE MCConfigurations --------------------------
(* Small instances of Configurations for TLC. *)
EXTENDS Configurations

CONSTANTS w1, w2, n1, n2, p1, p2

Symmetries == Permutations({w1, w2}) \cup Permutations({n1, n2}) \cup Permutations({p1, p2})
=============================================================================
