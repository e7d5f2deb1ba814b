----------------------------- MODULE MCOptimizer -----------------------------
(* Model-checking instances of Optimizer; the cfg files give the bounds.     *)
EXTENDS Optimizer
=============================================================================
