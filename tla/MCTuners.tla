------------------------------ MODULE MCTuners ------------------------------
(* Model-checking instances of Tuners: every tuner, and the Bayesian one alone. *)
EXTENDS Tuners

AllTuners == [Random |-> 5, Bayes |-> 6, Anneal |-> 5]
BayesOnly == [Bayes |-> 6]
=============================================================================
