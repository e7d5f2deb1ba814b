------------------------------ MODULE MCResults ------------------------------
(* The model-checking instance of Results. *)
EXTENDS Results

\* Means within and beyond two percent and the variance, of two and of four runs.
FewSamples == {[mean |-> 9, var |-> 1, sz |-> 2], [mean |-> 5, var |-> 0, sz |-> 2],
               [mean |-> 4, var |-> 9, sz |-> 4], [mean |-> 2, var |-> 0, sz |-> 4]}
==============================================================================
