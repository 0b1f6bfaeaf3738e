-------------------------- MODULE MCRuntimeRegistry --------------------------
(* RuntimeRegistry with small sets, for TLC. *)
EXTENDS RuntimeRegistry, TLC

CONSTANTS h1, h2, h3, i1, i2, i3, m1, m2, m3, m4

(* Handlers, objects and memory runtimes are interchangeable. *)
Interchangeable ==
  Permutations(Handlers) \cup Permutations(Instances) \cup Permutations(Memories)
=============================================================================
