------------------------------ MODULE MCFleet ------------------------------
(* Model checking of Fleet: far nodes are interchangeable.                   *)
EXTENDS Fleet, TLC

Symmetry == Permutations(Far)
============================================================================
