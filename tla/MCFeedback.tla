----------------------------- MODULE MCFeedback -----------------------------
(* Model-checking instances of Feedback; the cfg files give the bounds.      *)
EXTENDS Feedback
=============================================================================
