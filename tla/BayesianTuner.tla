---------------------------- MODULE BayesianTuner ----------------------------
(***************************************************************************)
(* tuner::BayesianTuner.                                                   *)
(*                                                                         *)
(* The tuner samples BatchSz configurations at random, then works through  *)
(* batches of predictions.  When a batch is used up it trains a model on   *)
(* every configuration generated so far, reading the measurements that the *)
(* caller's runs produce in another thread.  No configuration is asked for *)
(* twice: configuration v is the one version v is compiled from.  What a   *)
(* model predicts is left out; what it is trained on is not.               *)
(***************************************************************************)
EXTENDS RandomTuner

CONSTANT BatchSz \* BatchSz_: size of the random prior, and of a batch

ASSUME BatchAssumption == BatchSz \in Nat \ {0}

VARIABLES
  predictions, \* size of Predictions_
  unmeasured   \* the rows of the last dataset whose version was never run

bayesian == <<predictions, unmeasured>>

BayesInit == predictions = 0 /\ unmeasured = {}

\* min(BatchSz_, DEFAULT_COMPILE_AHEAD)
Bound == IF BatchSz < CompileAhead THEN BatchSz ELSE CompileAhead

\* The driver stores or has handed out the newest version, and nobody ran it.
NewestUnmeasured == (trial # 0 /\ calls = 0) \/ (dpc = "waiting" /\ pc = "idle")

\* Configurations whose feedback has no data point.
NeverRun == ((taken + 1)..made) \cup (IF NewestUnmeasured THEN {taken} ELSE {})

\* Seeded fault in Yes: the predictions that are left are not looked at.
YesWithoutPredictions == aheadOfTime < Bound

\* getNextConfig(): a random configuration, a new batch, or the next of a batch.
NextConfig ==
  \/ configs < BatchSz /\ UNCHANGED <<predictions, unmeasured>>
  \/ /\ configs >= BatchSz /\ predictions = 0
     /\ unmeasured' = NeverRun
     /\ predictions' = BatchSz - 1
  \/ /\ configs >= BatchSz /\ predictions > 0
     /\ predictions' = predictions - 1
     /\ UNCHANGED unmeasured

\* shouldCompileNext(): the count goes on even when a lack of predictions says no.
Yes == aheadOfTime < Bound /\ predictions > 0

\* BayesianTuner.h 157-158: "training on unevaluated code fragment!" is what must not
\* happen: each configuration of a dataset was measured at least once.
TrainsOnMeasured == unmeasured = {}
=============================================================================
