------------------------------ MODULE MCDeploy ------------------------------
(* Model checking of NodeDeploy: configurations the service runs with are    *)
(* interchangeable.                                                          *)
EXTENDS NodeDeploy, TLC

Symmetry == Permutations(Good)
============================================================================
