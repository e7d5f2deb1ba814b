------------------------------- MODULE Tuners -------------------------------
(***************************************************************************)
(* An entry of the driver with any of its tuners, and what each version is *)
(* compiled from.                                                          *)
(*                                                                         *)
(* An optimize job sets the tuner's knobs to the configuration it was      *)
(* given; the options its code generator needs travel with the job to the  *)
(* other worker, where a later job may have set the knobs again by then.   *)
(***************************************************************************)
EXTENDS BayesianTuner, AnnealingTuner

CONSTANT Asked \* bound: the requests an entry makes, for each tuner looked at

Kinds == DOMAIN Asked

ASSUME KindsAssumption ==
  /\ Kinds \subseteq {"Random", "Bayes", "Anneal"}
  /\ \A k \in Kinds : Asked[k] \in 0..MaxRequests

VARIABLES
  kind,     \* the tuner of the entry
  configOf, \* by version: the configuration it was generated with
  knobs,    \* the configuration the knobs are set to
  options,  \* by version: the one whose options its OptimizeResult carries
  codegenOptions \* the one whose options the codegen job uses

travel == <<configOf, knobs, options, codegenOptions>>
tuners == <<kind, randomTuner, bayesian, annealing, good, travel>>

tunersVars == <<driverVars, tuners>>

TunersInit ==
  /\ DriverInit /\ RandomInit /\ BayesInit /\ AnnealInit
  /\ kind \in Kinds
  /\ configOf = <<>> /\ knobs = 0 /\ options = <<>> /\ codegenOptions = 0

-----------------------------------------------------------------------------
(* The worker of optimizeQ_.                                                *)

\* analyze(), getNextConfig() and applyConfig().
Generate ==
  /\ OptimizeStart
  /\ \E c \in 1..(configs + 1) :
       /\ \/ kind = "Random" /\ NewConfig(c) /\ UNCHANGED <<bayesian, annealing>>
          \/ kind = "Bayes" /\ NextConfig /\ NewConfig(c) /\ UNCHANGED annealing
          \/ kind = "Anneal" /\ AnnealConfig(c) /\ UNCHANGED bayesian
       /\ configOf' = Append(configOf, c)
       /\ knobs' = c
  /\ UNCHANGED <<driver, kind, aheadOfTime, good, options, codegenOptions>>

\* shouldCompileNext(), which is no until there is feedback when annealing.
Says == (kind = "Random" /\ RandomYes) \/ (kind = "Bayes" /\ Yes)

Counts ==
  \/ kind = "Random" /\ CountUpTo(CompileAhead)
  \/ kind = "Bayes" /\ CountUpTo(Bound)
  \/ kind = "Anneal" /\ UNCHANGED aheadOfTime

\* The knobs are saved for the codegen thread.
Ask ==
  /\ OptimizeAsk(Says) /\ Counts
  /\ options' = Append(options, knobs)
  /\ UNCHANGED <<driver, kind, configs, bayesian, annealing, good,
                 configOf, knobs, codegenOptions>>

Dispatch == OptimizeDispatch /\ UNCHANGED <<driver, tuners>>

-----------------------------------------------------------------------------
(* The worker of codegenQ_.                                                 *)

\* Seeded fault in Compile: the knobs are read when the job runs.
CompileReadsKnobs ==
  /\ CodegenStart
  /\ codegenOptions' = knobs
  /\ UNCHANGED <<driver, kind, randomTuner, bayesian, annealing, good,
                 configOf, knobs, options>>

\* The job generates code with the options it carries.
Compile ==
  /\ CodegenStart
  /\ codegenOptions' = options[cgJob'.ver]
  /\ UNCHANGED <<driver, kind, randomTuner, bayesian, annealing, good,
                 configOf, knobs, options>>

Deliver == cgPC # "idle" /\ CodegenJob /\ UNCHANGED tuners

-----------------------------------------------------------------------------
(* The caller's thread.  Versions of one configuration have one feedback.   *)

Shares(v, w) == v # 0 /\ w # 0 /\ configOf[v] = configOf[w]

OneFeedback == \A v, w \in Slots : Shares(v, w) => (v \in deployed <=> w \in deployed)

\* The version the caller runs.
InUse == IF handed = "trial" THEN trial ELSE best

\* A run may improve the quality of the measurement, or spoil it.
Run ==
  /\ Use
  /\ \A v \in Slots \ deployed : v \in deployed' => Shares(v, InUse)
  /\ IF kind = "Anneal" /\ (handed = "best" \/ calls' = GoodCalls)
       THEN good' \in {good \ {configOf[InUse]}, good \cup {configOf[InUse]}}
       ELSE UNCHANGED good
  /\ UNCHANGED <<kind, randomTuner, bayesian, annealing, travel>>
  /\ OneFeedback'

\* Both ask goodQuality() of the same feedback.
Judge == JudgeTrial /\ (kind = "Anneal" => configOf[trial] \in good)
Keep  == KeepTrial /\ (kind = "Anneal" => configOf[trial] \notin good)

\* A version whose configuration was handed out before comes with its measurements.
Deliverance ==
  LET again == \E v \in 1..(taken - 1) : Shares(v, taken)
  IN  /\ Return
      /\ calls' = IF again THEN GoodCalls ELSE 0
      /\ taken \in deployed' => again

\* The entry has one of these tuners, not the NoOpTuner.  Bound: no call goes on after
\* the last request of its tuner.
DriverMoves ==
  /\ \/ Submit \/ Keep \/ Judge \/ NoTrial \/ AskStatus \/ AskStatusAgain \/ Experiment
     \/ Call \/ InCall \/ Deliverance \/ ReturnBest \/ QuitReturns \/ Quit \/ Over
  /\ ~noop'
  /\ dpc = "out" /\ dpc' \notin {"out", "gone"} => requests < Asked[kind]
  /\ UNCHANGED tuners
  /\ OneFeedback'

TunersNext == Generate \/ Ask \/ Dispatch \/ Compile \/ Deliver \/ Run \/ DriverMoves

TunersSpec == TunersInit /\ [][TunersNext]_tunersVars

-----------------------------------------------------------------------------
(* Correctness.                                                             *)

\* RandomTuner.h 47-54, AnnealingTuner.h 131-135 and BayesianTuner.h 428-437 with
\* Optimizer.cpp 457-475: each tuner's own count, which for the Bayesian one also moves
\* when a lack of predictions makes it say no, keeps the chain within the number of yes
\* answers in a row the optimizer relies on.
TunersKeepAhead == optPC = "run" /\ Says => ahead < CompileAhead

\* Optimizer.cpp 435-439, 470-472 and 491-493: whatever the other worker does meanwhile,
\* a version is compiled with the options of the configuration its IR was optimized with.
OwnOptions == cgPC # "idle" => codegenOptions = configOf[cgJob.ver]

\* AnnealingTuner.h 137-156 with driver.h 139-190: the version under trial is one of the
\* two states the walk will decide between, so that its measurements decide something.
TrialIsWalked ==
  kind = "Anneal" /\ dpc = "out" /\ trial # 0 => configOf[trial] \in {current, walking}

\* AnnealingTuner.h 137-147: the walk never decides on a state it has not measured: once
\* it has moved, every configuration before the newest was handed out and judged.
WalkMeasured ==
  kind = "Anneal" /\ walking > 2 =>
    \A c \in 1..(walking - 1) : \E v \in 1..taken : configOf[v] = c /\ v # trial
=============================================================================
