------------------------------- MODULE Results -------------------------------
(***************************************************************************)
(* What is made of the measurements: tuner::Tuner compares results, and    *)
(* tuner::BayesianTuner trains a model on them and picks the predictions   *)
(* it tries next.                                                          *)
(*                                                                         *)
(* A version is its age.  A job of optimizeQ_ asks for configurations, and *)
(* works through updateDataset() and createPredictions(); meanwhile the    *)
(* caller measures versions.  The gradient-boosted model is external: it   *)
(* may err and forecast anything.  What a configuration says is left to    *)
(* KnobConfigs, which configurations are asked for when to BayesianTuner.  *)
(***************************************************************************)
EXTENDS Integers, SequencesExt

CONSTANTS
  BatchSz,       \* BatchSz_
  HeldOut,       \* one in HeldOut configurations is held out: 1 / HeldoutRatio_
  Pool,          \* SurrogateTestSz_
  MaxLearnIters, \* MaxLearnIters_
  Samples,       \* what a version may be measured to take: mean, variance, size
  Errors,        \* errors of a model on the held-out set
  Times,         \* run times that a model may forecast
  MaxConfigs     \* bound of the model: configurations generated

ASSUME ResultsAssumption ==
  /\ BatchSz \in Nat \ {0, 1} /\ HeldOut \in Nat \ {0, 1} /\ Pool \in Nat \ {0}
  /\ Samples \subseteq [mean : Nat, var : Nat, sz : Nat]
  /\ Errors \subseteq Int /\ Times \subseteq Int

VARIABLES
  configs,           \* Configs_: versions, in the order of the list
  stats,             \* the statistics of each version's feedback
  sinceLastTraining, \* SinceLastTraining_
  dataset,           \* the rows of both matrices that were written, with their version
  errs,              \* the error of each iteration of learning
  bestIter,          \* the iteration whose model is kept, 0 if none is
  base,              \* the configuration that is exploited, 0 for the default one
  out,               \* the forecast for each row of the pool
  predictions,       \* Predictions_: rows of the pool
  job                \* where the job is: "idle", "learning", "learned" or "picked"

training == <<dataset, errs, bestIter>>
choice == <<base, out, predictions>>
vars == <<configs, stats, sinceLastTraining, training, choice, job>>

NoSample == [mean |-> 0, var |-> 0, sz |-> 0]

Init ==
  /\ configs = <<>> /\ stats = <<>> /\ sinceLastTraining = 0
  /\ dataset = {} /\ errs = <<>> /\ bestIter = 0
  /\ base = 0 /\ out = <<>> /\ predictions = <<>>
  /\ job = "idle"

------------------------------------------------------------------------------
(* Comparing results. *)

\* Fifty times the margin by which a's mean is below b's, less two percent of b's.
Margin(a, b) == 50 * (b.mean - a.mean) - b.mean

\* Seeded fault in BetterThan: the means are compared, measured or not.
BetterByMean(a, b) == a.mean < b.mean

\* The square of the critical value 1.943, times ten to the sixth.
Critical == 3775249

\* Feedback::betterThan(): Welch's test of a against b, without the quotient and the root.
\* No data point makes the statistic NaN.
BetterThan(a, b) ==
  /\ a.sz # 0 /\ b.sz # 0 /\ Margin(a, b) > 0
  /\ 400 * Margin(a, b) * Margin(a, b) * a.sz * b.sz
       >= Critical * (b.var * a.sz + a.var * b.sz)

Better(v, w) == BetterThan(stats[v], stats[w])

\* Seeded fault in ResultGEQ: the arguments are swapped.
ResultLEQ(v, w) == Better(v, w)

\* resultGEQ(A, B): "A >= B if B is better than A".
ResultGEQ(v, w) == Better(w, v)

\* bestSeen(): 0 stands for no value.
BestSeen ==
  LET best[n \in 0..Len(configs)] ==
        IF n = 0 THEN 0
        ELSE IF n = 1 \/ ResultGEQ(best[n - 1], configs[n]) THEN configs[n] ELSE best[n - 1]
  IN  best[Len(configs)]

\* The comparison that dumpStats() gives to std::sort.
ConfigLessThan(v, w) == ~ResultGEQ(v, w)

\* One round of std::sort on few elements: v moves to the front if it may, else left
\* as long as it may.
Inserted(sorted, v) ==
  LET stop == {i \in DOMAIN sorted : ~ConfigLessThan(v, sorted[i])}
  IN  IF sorted = <<>> \/ 1 \notin stop THEN <<v>> \o sorted ELSE InsertAt(sorted, Max(stop) + 1, v)

\* dumpStats(), for exportStats(): the versions in the order in which they are printed.
DumpStats ==
  LET sorted[n \in 0..Len(configs)] ==
        IF n = 0 THEN <<>> ELSE Inserted(sorted[n - 1], configs[n])
  IN  sorted[Len(configs)]

------------------------------------------------------------------------------
(* The job: one call of getNextConfig(). *)

\* saveConfig(): a configuration of its own, with a new feedback.
SaveConfig ==
  /\ configs' = Append(configs, Len(configs) + 1)
  /\ stats' = Append(stats, NoSample)
  /\ sinceLastTraining' = sinceLastTraining + 1

More == job = "idle" /\ Len(configs) < MaxConfigs

\* Step 2 of SURF: the prior.
SamplePrior ==
  /\ More /\ Len(configs) < BatchSz
  /\ SaveConfig
  /\ UNCHANGED <<training, choice, job>>

\* max(1, round(HeldoutRatio_ * n))
ValidateRows(n) == LET rows == (2 * n + HeldOut) \div (2 * HeldOut) IN IF rows < 1 THEN 1 ELSE rows

\* Seeded fault in Row: the index goes on where the other matrix begins.
RowRunsOn(count, held) == IF count <= held THEN <<"test", count>> ELSE <<"train", count>>

\* Where the loop over the shuffled list writes its count-th entry.
Row(count, held) == IF count <= held THEN <<"test", count>> ELSE <<"train", count - held>>

\* updateDataset(): shuffles the list, in which the rows of both matrices follow each other.
UpdateDataset ==
  IF sinceLastTraining = 0
  THEN UNCHANGED <<configs, sinceLastTraining, dataset>>
  ELSE /\ sinceLastTraining' = 0
       /\ \E order \in SetToSeqs(ToSet(configs)) :
            /\ configs' = order
            /\ dataset' = {[row |-> Row(count, ValidateRows(Len(order))), version |-> order[count]]
                             : count \in DOMAIN order}

\* createPredictions(), as far as the model is created.
Retrain ==
  /\ More /\ Len(configs) >= BatchSz /\ predictions = <<>>
  /\ UpdateDataset
  /\ errs' = <<>> /\ bestIter' = 0 /\ job' = "learning"
  /\ UNCHANGED <<stats, choice>>

\* Seeded fault in Improves: every model is kept.
ImprovesAlways(err) == bestIter = 0 \/ err \in Errors

\* "is this model better than we've seen before?"
Improves(err) == bestIter = 0 \/ err <= errs[bestIter]

\* One iteration of learning: MaxLearnPastBest_ is 0, so the first model that is worse
\* than the best ends it.
LearnIteration(err) ==
  /\ job = "learning" /\ Len(errs) < MaxLearnIters
  /\ errs' = Append(errs, err)
  /\ IF Improves(err) THEN bestIter' = Len(errs) + 1 /\ UNCHANGED job
                      ELSE job' = "learned" /\ UNCHANGED bestIter
  /\ UNCHANGED <<configs, stats, sinceLastTraining, dataset, choice>>

LearnedEnough ==
  /\ job = "learning" /\ Len(errs) = MaxLearnIters
  /\ job' = "learned"
  /\ UNCHANGED <<configs, stats, sinceLastTraining, training, choice>>

\* lessThan: by forecast alone; an element goes behind those that are equal to it.
UpperBound(best, cur) == SelectInSeq(best, LAMBDA entry : out'[entry] > out'[cur])

\* Seeded fault in Picked: the first entry of a full batch leaves.
PickedFirst(best, cur) ==
  LET rest == IF Len(best) >= BatchSz THEN Tail(best) ELSE best
      ub == UpperBound(rest, cur)
  IN  IF ub = 0 THEN Append(rest, cur) ELSE InsertAt(rest, ub, cur)

\* "pick best configs": once the batch is full, an entry replaces the first one that is
\* greater.
Picked(best, cur) ==
  LET ub == UpperBound(best, cur)
      rest == IF Len(best) >= BatchSz THEN RemoveAt(best, ub) ELSE best
  IN  IF ub # 0 THEN InsertAt(rest, ub, cur)
      ELSE IF Len(best) < BatchSz THEN Append(best, cur) ELSE best

\* The batch after the whole pool.
Batch ==
  LET best[row \in 0..Pool] == IF row = 0 THEN <<>> ELSE Picked(best[row - 1], row)
  IN  best[Pool]

\* createPredictions(), the rest: a pool is built, partly near the best configuration
\* seen, and the model's forecasts decide which rows are predictions.
Predict ==
  /\ job = "learned"
  /\ base' = BestSeen
  /\ out' \in [1..Pool -> Times]
  /\ predictions' = Batch
  /\ dataset' = {} /\ errs' = <<>> /\ bestIter' = 0
  /\ job' = "picked"
  /\ UNCHANGED <<configs, stats, sinceLastTraining>>

\* The next prediction becomes a configuration; the pool of a new batch is freed first.
TakePrediction ==
  /\ predictions # <<>> /\ (More \/ job = "picked")
  /\ predictions' = Tail(predictions)
  /\ SaveConfig
  /\ base' = 0 /\ out' = <<>> /\ job' = "idle"
  /\ UNCHANGED training

------------------------------------------------------------------------------
(* The caller. *)

\* A version was run: its statistics are those of more data.
Measure(v) ==
  /\ \E s \in Samples : s.sz > stats[v].sz /\ stats' = [stats EXCEPT ![v] = s]
  /\ UNCHANGED <<configs, sinceLastTraining, training, choice, job>>

Job ==
  \/ SamplePrior \/ Retrain \/ LearnedEnough \/ Predict \/ TakePrediction
  \/ \E err \in Errors : LearnIteration(err)

Next == Job \/ \E v \in DOMAIN stats : Measure(v)

Spec == Init /\ [][Next]_vars

------------------------------------------------------------------------------
(* Properties. *)

\* Tuner.h 113-122 compares each result with the best so far only, by a test that leaves
\* many pairs undecided.  Nevertheless no result is better than the one it returns.  A
\* result without measurements is returned only if it happens to be the first of the
\* list, where nothing can beat it.
BestUnbeaten ==
  configs # <<>> =>
    /\ \A v \in ToSet(configs) : ~Better(v, BestSeen)
    /\ stats[BestSeen].sz = 0 => BestSeen = Head(configs)

\* BayesianTuner.h 329-364: the batch is not always the best one of the pool, but it is
\* tried in the order of its forecasts, and the first is the best of the whole pool.
BestForecastFirst ==
  job = "picked" =>
    /\ Len(predictions) = IF Pool < BatchSz THEN Pool ELSE BatchSz
    /\ \A row \in 1..Pool : out[Head(predictions)] <= out[row]
    /\ \A i, j \in DOMAIN predictions :
         i < j => predictions[i] # predictions[j] /\ out[predictions[i]] <= out[predictions[j]]

\* BayesianTuner.h 114-163: every configuration is in one of the two matrices, once, no
\* row is left unwritten, and neither matrix is empty: no model is judged by what it was
\* trained on.
HeldOutApart ==
  dataset # {} =>
    LET held == ValidateRows(Len(configs))
    IN  /\ held < Len(configs)
        /\ {d.version : d \in dataset} = ToSet(configs)
        /\ {d.row : d \in dataset} = {<<"test", i>> : i \in 1..held}
                                       \cup {<<"train", i>> : i \in 1..(Len(configs) - held)}

\* BayesianTuner.h 231-256: the model that is kept has the smallest error of all that
\* were evaluated, the last one included, which ended the loop because it was worse.
KeepsBestModel ==
  errs # <<>> => bestIter # 0 /\ \A i \in DOMAIN errs : errs[bestIter] <= errs[i]

Decided(v, w) == Better(v, w) \/ Better(w, v)

\* Tuner.h 138-155, "sort configs by least expected value first": so they are when the
\* test decides every pair.  (Otherwise the comparison is not an order, for a comes
\* before b and b before a, and what is printed first may be beaten by what follows.)
ReportOrdered ==
  (\A v, w \in ToSet(configs) : v # w => Decided(v, w)) =>
    \A i, j \in DOMAIN DumpStats : i < j => stats[DumpStats[i]].mean < stats[DumpStats[j]].mean
==============================================================================
