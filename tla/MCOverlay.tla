------------------------------ MODULE MCOverlay ------------------------------
(* Model checking of OverlayState: far nodes and runs are interchangeable.   *)
EXTENDS OverlayState, TLC

Symmetry == Permutations(Far) \cup Permutations(Runs)

\* What the invariants of the concurrent run depend on: topo is write-only.
NoTopo == <<files, run, crashes>>
============================================================================
