------------------------------ MODULE TunersProofs ------------------------------
(***************************************************************************)
(* Theorems about Tuners: each tuner's count bounds its chains, a version  *)
(* is compiled with its own options, the Bayesian tuner trains on what was *)
(* run, and the annealing walk decides between what was measured.          *)
(***************************************************************************)
EXTENDS Tuners, DriverProofs

------------------------------------------------------------------------------
(* An entry with one of these tuners is an entry of the driver.               *)

LEMMA SaysEither == Says \in BOOLEAN
BY Zenon DEF Says, RandomYes, Yes

\* What the caller's thread leaves alone.
LEMMA MovesLeave ==
  ASSUME DriverMoves
  PROVE  /\ UNCHANGED <<optPC, optVer, optEnd, ahead, made, codegen, tuners>>
         /\ UNCHANGED optimizeQ \/ StartChain
<1> USE DEF vars, optimize, codegen, client
<1>1. CASE Submit \/ Keep \/ Judge \/ NoTrial
  BY <1>1 DEF DriverMoves, Submit, Keep, KeepTrial, Judge, JudgeTrial, NoTrial
<1>2. CASE AskStatus \/ AskStatusAgain \/ Experiment
  BY <1>2 DEF DriverMoves, AskStatus, StatusReadEmpty, AskStatusAgain, StatusReadActive, Experiment
<1>3. CASE Call
  BY <1>3 DEF DriverMoves, Call, Recompile
<1>4. CASE InCall
  BY <1>4 DEF DriverMoves, InCall, CheckActive, SetActive, StartChain, WaitPoll, Abort
<1>5. CASE Deliverance \/ ReturnBest
  BY <1>5 DEF DriverMoves, Deliverance, Return, ReturnBest
<1>6. CASE QuitReturns \/ Quit \/ Over
  BY <1>6 DEF DriverMoves, QuitReturns, Flushed, Quit, Destroy, Over, driverVars
<1>7. QED BY <1>1, <1>2, <1>3, <1>4, <1>5, <1>6 DEF DriverMoves

LEMMA TunersStep ==
  ASSUME ~noop, [TunersNext]_tunersVars
  PROVE  ~noop' /\ [DriverNext]_driverVars
<1>1. CASE Generate
  BY <1>1 DEF Generate, DriverNext, OptimizeJob, driver
<1>2. CASE Ask
  <2>1. UNCHANGED driver /\ OptimizeAsk(Says)
    BY <1>2 DEF Ask
  <2>2. \E more \in BOOLEAN : OptimizeAsk(more)
    BY <2>1, SaysEither
  <2>3. QED BY <2>1, <2>2 DEF DriverNext, OptimizeJob, driver
<1>3. CASE Dispatch
  BY <1>3 DEF Dispatch, DriverNext, OptimizeJob, driver
<1>4. CASE Compile \/ Deliver
  BY <1>4 DEF Compile, Deliver, DriverNext, CodegenJob, CodegenStep, driver
<1>5. CASE Run
  BY <1>5 DEF Run, Use, DriverNext
<1>6. CASE DriverMoves
  BY <1>6 DEF DriverMoves, Keep, Judge, Deliverance, DriverNext, CallStep
<1>7. CASE UNCHANGED tunersVars
  BY <1>7 DEF tunersVars, driverVars, driver
<1>8. QED BY <1>1, <1>2, <1>3, <1>4, <1>5, <1>6, <1>7 DEF TunersNext

\* Every behaviour of an entry with a tuner is, for the driver, one of Driver's: what is
\* proved of Driver, and of Optimizer, holds whichever tuner is at work.
THEOREM TunersObey == TunersSpec => DriverSpec
<1>1. TunersInit => DriverInit /\ ~noop
  BY DEF TunersInit, DriverInit
<1>2. QED BY <1>1, TunersStep, PTL DEF TunersSpec, DriverSpec

------------------------------------------------------------------------------
(* The types, and who changes what.                                           *)

TunersShape ==
  /\ kind \in {"Random", "Bayes", "Anneal"}
  /\ configs \in Nat /\ predictions \in Nat
  /\ current \in 0..configs /\ walking \in 0..configs
  /\ aheadOfTime \in 0..CompileAhead
  /\ configOf \in Seq(Nat) /\ Len(configOf) = made
  /\ options \in Seq(Nat) /\ knobs \in Nat

\* A job of codegenQ_ and the caller leave the tuner alone, but for the quality of what
\* is measured, and for the options of the job.
LEMMA OthersLeave ==
  ASSUME Dispatch \/ Deliver \/ Run \/ DriverMoves \/ UNCHANGED tunersVars
  PROVE  /\ UNCHANGED <<kind, randomTuner, bayesian, annealing, travel, ahead, made>>
         /\ optPC' = "run" <=> optPC = "run"
<1> USE DEF tuners, travel
<1>1. CASE Dispatch
  BY <1>1 DEF Dispatch, OptimizeDispatch
<1>2. CASE Deliver
  BY <1>2 DEF Deliver, CodegenJob, CodegenStep, CodegenStart, AddToList, AddClearsFlag, CodegenFinish, optimize
<1>3. CASE Run
  BY <1>3 DEF Run, Use, vars, optimize
<1>4. CASE DriverMoves
  BY <1>4, MovesLeave
<1>5. QED BY <1>1, <1>2, <1>3, <1>4 DEF tunersVars, driverVars, vars, optimize

LEMMA CompileLeaves ==
  ASSUME Compile
  PROVE  /\ UNCHANGED <<kind, randomTuner, bayesian, annealing, good, configOf, knobs, options, driver>>
         /\ UNCHANGED <<list, recompileActive, optimize, client>>
BY DEF Compile, CodegenStart

\* The configurations of one job.
LEMMA GenerateEffect ==
  ASSUME IInv, TunersShape, Generate
  PROVE  /\ made' = made + 1 /\ optVer' = made + 1 /\ optPC' = "run"
         /\ optPC = "idle" /\ optimizeQ > 0 /\ optimizeQ' = optimizeQ - 1
         /\ configs' \in Nat /\ predictions' \in Nat
         /\ current' \in 0..configs' /\ walking' \in 0..configs'
         /\ \E c \in Nat : /\ configOf' = Append(configOf, c) /\ knobs' = c
                           /\ kind = "Anneal" => AnnealConfig(c)
         /\ kind # "Anneal" => UNCHANGED annealing
         /\ kind # "Bayes" => UNCHANGED bayesian
         /\ kind = "Bayes" => NextConfig
         /\ UNCHANGED <<driver, list, recompileActive, optEnd, ahead, codegen, client>>
         /\ UNCHANGED <<kind, aheadOfTime, good, options, codegenOptions>>
<1> USE DEF TunersShape
<1>1. /\ made' = made + 1 /\ optVer' = made + 1 /\ optPC' = "run"
      /\ optPC = "idle" /\ optimizeQ > 0 /\ optimizeQ' = optimizeQ - 1
      /\ UNCHANGED <<driver, list, recompileActive, optEnd, ahead, codegen, client>>
      /\ UNCHANGED <<kind, aheadOfTime, good, options, codegenOptions>>
  BY DEF Generate, OptimizeStart
<1>2. PICK c \in 1..(configs + 1) :
        /\ \/ kind = "Random" /\ NewConfig(c) /\ UNCHANGED <<bayesian, annealing>>
           \/ kind = "Bayes" /\ NextConfig /\ NewConfig(c) /\ UNCHANGED annealing
           \/ kind = "Anneal" /\ AnnealConfig(c) /\ UNCHANGED bayesian
        /\ configOf' = Append(configOf, c) /\ knobs' = c
  BY DEF Generate
<1>3. configs' \in Nat /\ predictions' \in Nat /\ current' \in 0..configs' /\ walking' \in 0..configs'
  <2>1. CASE kind # "Anneal"
    BY <1>2, <2>1, BatchAssumption DEF NewConfig, NextConfig, bayesian, annealing
  <2>2. CASE kind = "Anneal"
    BY <1>2, <2>2 DEF AnnealConfig, FirstStates, AsksAgain, Decides, NextStates, NewConfig, bayesian
  <2>3. QED BY <2>1, <2>2
<1>4. QED BY <1>1, <1>2, <1>3

LEMMA TunersShapeInit == TunersInit => TunersShape
BY KindsAssumption, OptimizerAssumption
DEF TunersInit, DriverInit, Init, RandomInit, BayesInit, AnnealInit, TunersShape

LEMMA TunersShapeStep == IInv /\ TunersShape /\ [TunersNext]_tunersVars => TunersShape'
<1> SUFFICES ASSUME IInv, TunersShape, [TunersNext]_tunersVars PROVE TunersShape'
  OBVIOUS
<1> USE DEF TunersShape
<1>1. CASE Generate
  <2>1. PICK c \in Nat : configOf' = Append(configOf, c) /\ knobs' = c
    BY <1>1, GenerateEffect
  <2>2. configOf' \in Seq(Nat) /\ Len(configOf') = made'
    BY <1>1, <2>1, GenerateEffect
  <2>3. QED BY <1>1, <2>1, <2>2, GenerateEffect
<1>2. CASE Ask
  <2>1. UNCHANGED <<kind, configs, bayesian, annealing, configOf, knobs, codegenOptions, made>>
    BY <1>2 DEF Ask, OptimizeAsk
  <2>2. aheadOfTime' \in 0..CompileAhead
    BY <1>2, OptimizerAssumption, BatchAssumption DEF Ask, Counts, CountUpTo, Bound
  <2>3. options' \in Seq(Nat)
    BY <1>2 DEF Ask
  <2>4. QED BY <2>1, <2>2, <2>3 DEF bayesian, annealing
<1>3. CASE Compile
  BY <1>3, CompileLeaves DEF randomTuner, bayesian, annealing, optimize
<1>4. CASE Dispatch \/ Deliver \/ Run \/ DriverMoves \/ UNCHANGED tunersVars
  BY <1>4, OthersLeave DEF randomTuner, bayesian, annealing, travel
<1>5. QED BY <1>1, <1>2, <1>3, <1>4 DEF TunersNext

\* In every reachable state the tuner's variables have their types, and the entry is not
\* that of a NoOpTuner.
THEOREM TunersTyped == TunersSpec => [](IInv /\ DInv /\ TunersShape)
<1>1. TunersSpec => [](IInv /\ DInv)
  BY TunersObey, DriverObeys, Invariance, DriverInvariance, PTL
<1>2. QED BY <1>1, TunersShapeInit, TunersShapeStep, PTL DEF TunersSpec

------------------------------------------------------------------------------
(* The count of versions compiled ahead.                                      *)

\* The optimizer's count, of which it relies on a bound, is at most the tuner's own: when
\* predictions are used up the tuner says no, but counts on.
CountsAgree == IF kind = "Anneal" THEN ahead = 0 ELSE ahead <= aheadOfTime

LEMMA CountsStep == IInv /\ TunersShape /\ CountsAgree /\ [TunersNext]_tunersVars => CountsAgree'
<1> SUFFICES ASSUME IInv, TunersShape, CountsAgree, [TunersNext]_tunersVars PROVE CountsAgree'
  OBVIOUS
<1> USE DEF CountsAgree
<1>0. ahead \in Nat
  BY DEF IInv, TypeOK
<1>1. CASE Ask
  <2>1. kind' = kind /\ Counts /\ ahead' = IF Says THEN ahead + 1 ELSE 0
    BY <1>1 DEF Ask, OptimizeAsk, ShouldCompileNext
  <2>2. CASE kind = "Anneal"
    <3>1. ~Says
      BY <2>2 DEF Says
    <3>2. QED BY <2>1, <2>2, <3>1
  <2>3. CASE kind # "Anneal" /\ ~Says
    BY <1>0, <2>1, <2>3, OptimizerAssumption, BatchAssumption DEF Counts, CountUpTo, Bound, TunersShape
  <2>4. CASE kind # "Anneal" /\ Says
    <3>1. aheadOfTime' = aheadOfTime + 1
      BY <2>1, <2>4 DEF Says, RandomYes, Yes, Counts, CountUpTo, TunersShape
    <3>2. QED BY <1>0, <2>1, <2>4, <3>1 DEF TunersShape
  <2>5. QED BY <2>2, <2>3, <2>4
<1>2. CASE Generate
  BY <1>2, GenerateEffect
<1>3. CASE Compile
  BY <1>3, CompileLeaves DEF optimize, randomTuner
<1>4. CASE Dispatch \/ Deliver \/ Run \/ DriverMoves \/ UNCHANGED tunersVars
  BY <1>4, OthersLeave DEF randomTuner
<1>5. QED BY <1>1, <1>2, <1>3, <1>4 DEF TunersNext

\* Each tuner's own count keeps its chains within the number of yes answers in a row that
\* the optimizer relies on.
THEOREM ChainsBounded == TunersSpec => []TunersKeepAhead
<1>1. TunersInit => CountsAgree
  BY DEF TunersInit, DriverInit, Init, RandomInit, CountsAgree
<1>2. IInv /\ TunersShape /\ CountsAgree => TunersKeepAhead
  <2> SUFFICES ASSUME IInv, TunersShape, CountsAgree, Says PROVE ahead < CompileAhead
    BY DEF TunersKeepAhead
  <2>1. kind # "Anneal" /\ aheadOfTime < CompileAhead
    BY OptimizerAssumption, BatchAssumption DEF Says, RandomYes, Yes, Bound, TunersShape
  <2>2. QED BY <2>1, OptimizerAssumption DEF CountsAgree, TunersShape, IInv, TypeOK
<1>3. QED BY <1>1, <1>2, CountsStep, TunersTyped, PTL DEF TunersSpec

------------------------------------------------------------------------------
(* The options of a version.                                                  *)

\* A job carries the options of the configuration that its version was generated with,
\* from the knobs to the code generator.
Traveled ==
  /\ Len(options) = IF optPC = "run" THEN made - 1 ELSE made
  /\ optPC # "idle" => optVer = made /\ made > 0
  /\ optPC = "run" => knobs = configOf[made]
  /\ \A v \in DOMAIN options : options[v] = configOf[v]
  /\ \A i \in DOMAIN codegenQ : codegenQ[i].ver \in DOMAIN options
  /\ cgPC # "idle" => cgJob.ver \in DOMAIN options /\ codegenOptions = configOf[cgJob.ver]

LEMMA TraveledStep == IInv /\ TunersShape /\ Traveled /\ [TunersNext]_tunersVars => Traveled'
<1> SUFFICES ASSUME IInv, TunersShape, Traveled, [TunersNext]_tunersVars PROVE Traveled'
  OBVIOUS
<1> USE DEF Traveled
<1>0. /\ made \in Nat /\ configOf \in Seq(Nat) /\ options \in Seq(Nat) /\ Len(configOf) = made
      /\ codegenQ \in Seq(Job) /\ DOMAIN options = 1..Len(options)
  BY DEF IInv, TypeOK, TunersShape
<1>1. CASE Generate
  <2>1. PICK c \in Nat : configOf' = Append(configOf, c) /\ knobs' = c
    BY <1>1, GenerateEffect
  <2>2. /\ made' = made + 1 /\ optVer' = made + 1 /\ optPC' = "run" /\ optPC = "idle"
        /\ UNCHANGED <<codegenQ, cgPC, cgJob, options, codegenOptions>>
    BY <1>1, GenerateEffect DEF codegen
  <2>3. configOf'[made + 1] = c /\ \A v \in 1..made : configOf'[v] = configOf[v]
    BY <1>0, <2>1
  <2>4. QED BY <1>0, <2>1, <2>2, <2>3
<1>2. CASE Ask
  <2>1. /\ optPC = "run" /\ optPC' = "dispatch" /\ options' = Append(options, knobs)
        /\ UNCHANGED <<made, optVer, configOf, codegenQ, cgPC, cgJob, codegenOptions>>
    BY <1>2 DEF Ask, OptimizeAsk, codegen
  <2>2. /\ Len(options') = made /\ options'[made] = knobs
        /\ \A v \in DOMAIN options : options'[v] = options[v]
        /\ DOMAIN options' = DOMAIN options \cup {made}
    BY <1>0, <2>1
  <2>3. QED BY <1>0, <2>1, <2>2
<1>3. CASE Dispatch
  <2>1. /\ optPC = "dispatch" /\ optPC' = "idle"
        /\ codegenQ' = Append(codegenQ, [ver |-> optVer, end |-> optEnd])
        /\ UNCHANGED <<made, cgPC, cgJob, configOf, options, codegenOptions>>
    BY <1>3 DEF Dispatch, OptimizeDispatch, tuners, travel
  <2>2. \A i \in DOMAIN codegenQ' : codegenQ'[i].ver \in DOMAIN options
    BY <1>0, <2>1
  <2>3. QED BY <1>0, <2>1, <2>2
<1>4. CASE Compile
  <2>1. /\ cgPC = "idle" /\ codegenQ # <<>> /\ cgJob' = Head(codegenQ) /\ codegenQ' = Tail(codegenQ)
        /\ codegenOptions' = options[cgJob'.ver]
        /\ UNCHANGED <<made, optPC, optVer, configOf, knobs, options>>
    BY <1>4 DEF Compile, CodegenStart, optimize
  <2>2. cgJob' = codegenQ[1] /\ \A i \in DOMAIN codegenQ' : codegenQ'[i] = codegenQ[i + 1] /\ i + 1 \in DOMAIN codegenQ
    BY <1>0, <2>1
  <2>3. 1 \in DOMAIN codegenQ
    BY <1>0, <2>1
  <2>4. QED BY <1>0, <2>1, <2>2, <2>3
<1>5. CASE Deliver
  <2>1. /\ cgPC # "idle" /\ cgJob' = cgJob /\ codegenQ' = codegenQ
        /\ UNCHANGED <<made, optPC, optVer, configOf, knobs, options, codegenOptions>>
    BY <1>5 DEF Deliver, CodegenJob, CodegenStep, CodegenStart, AddToList, AddClearsFlag, CodegenFinish,
       optimize, tuners, travel
  <2>2. QED BY <2>1
<1>6. CASE Run \/ DriverMoves \/ UNCHANGED tunersVars
  <2>1. UNCHANGED <<travel, made, optPC, optVer, codegen>>
    <3>1. CASE Run
      BY <3>1 DEF Run, Use, vars, optimize
    <3>2. CASE DriverMoves
      BY <3>2, MovesLeave DEF tuners
    <3>3. QED BY <1>6, <3>1, <3>2 DEF tunersVars, driverVars, vars, optimize, tuners
  <2>2. QED BY <2>1 DEF travel, codegen
<1>7. QED BY <1>1, <1>2, <1>3, <1>4, <1>5, <1>6 DEF TunersNext

\* Whatever the other worker does to the knobs meanwhile, a version is compiled with the
\* options of the configuration that its IR was optimized with.
THEOREM OptionsTravel == TunersSpec => []OwnOptions
<1>1. TunersInit => Traveled
  BY DEF TunersInit, DriverInit, Init, Traveled
<1>2. Traveled => OwnOptions
  BY DEF Traveled, OwnOptions
<1>3. QED BY <1>1, <1>2, TraveledStep, TunersTyped, PTL DEF TunersSpec

------------------------------------------------------------------------------
(* The training of the Bayesian tuner.                                        *)

\* The versions of an impatient entry are all judged when a task waits that will find no
\* predictions: it is the first of its chain, for a job that leaves none says no.
FirstOfChain ==
  kind = "Bayes" /\ optimizeQ > 0 /\ predictions = 0 =>
    /\ pc \in {"wait", "aborted"} /\ trial = 0 /\ made = taken
    /\ recompileDone = <<>> /\ optPC = "idle" /\ codegenQ = <<>> /\ cgPC = "idle"

\* When a chain is started.
LEMMA ChainStarts ==
  ASSUME IInv, DInv, Impatient, DriverMoves, StartChain
  PROVE  /\ pc' = "wait" /\ trial' = 0 /\ made' = taken'
         /\ recompileDone' = <<>> /\ optPC' = "idle" /\ codegenQ' = <<>> /\ cgPC' = "idle"
<1>1. pc = "dispatch" /\ pc' = "wait" /\ UNCHANGED <<list, made, optPC, codegen, taken>>
  BY DEF StartChain
<1>2. ~JobExists /\ recompileDone = <<>> /\ optimizeQ \in Nat
  BY <1>1 DEF IInv, TypeOK, ImpatientMeans
<1>3. made = taken + Len(recompileDone) + Compiling + Len(codegenQ) + Optimizing
  BY <1>1 DEF IInv, Numbered
<1>4. made = taken
  <2>1. optPC = "idle" /\ cgPC = "idle" /\ Len(recompileDone) = 0 /\ Len(codegenQ) = 0
    BY <1>2 DEF JobExists
  <2>2. Compiling = 0 /\ Optimizing = 0
    BY <2>1 DEF Compiling, Optimizing, B2N
  <2>3. taken \in Nat
    BY DEF IInv, TypeOK
  <2>4. QED BY <1>3, <2>1, <2>2, <2>3
<1>5. trial' = 0
  <2>1. dpc = "waiting" /\ trial = 0
    BY <1>1 DEF DInv, DriverTypeOK, CallShape, SlotShape
  <2>2. InCall
    BY <1>1, <2>1 DEF DriverMoves, Submit, Keep, KeepTrial, Judge, JudgeTrial, NoTrial, Enters, AskStatus, AskStatusAgain, Experiment,
       Call, Deliverance, Return, ReturnBest, QuitReturns, Quit, Over
  <2>3. QED BY <2>1, <2>2 DEF InCall, driver, slots
<1>6. QED BY <1>1, <1>2, <1>4, <1>5 DEF JobExists, list, codegen

\* While the caller waits in recompile() and nothing is ready, it goes on waiting.
LEMMA GoesOnWaiting ==
  ASSUME IInv, DInv, DriverMoves, pc \in {"wait", "aborted"}, recompileDone = <<>>
  PROVE  /\ pc' \in {"wait", "aborted"} /\ UNCHANGED <<recompileDone, taken, trial>>
<1>1. dpc = "waiting"
  BY DEF DInv, DriverTypeOK, CallShape
<1>2. InCall \/ Over
  BY <1>1 DEF DriverMoves, Submit, Keep, KeepTrial, Judge, JudgeTrial, NoTrial, Enters, AskStatus, AskStatusAgain, Experiment,
     Call, Deliverance, Return, ReturnBest, QuitReturns, Quit
<1>3. CASE InCall
  BY <1>3 DEF InCall, CheckActive, SetActive, StartChain, WaitPoll, PopResult, NoResult, Abort, list, driver, slots
<1>4. CASE Over
  BY <1>4 DEF Over, driverVars, vars, list, client, driver, slots
<1>5. QED BY <1>2, <1>3, <1>4

LEMMA FirstOfChainStep ==
  ASSUME Impatient, IInv, DInv, TunersShape, FirstOfChain, [TunersNext]_tunersVars
  PROVE  FirstOfChain'
<1> USE DEF FirstOfChain
<1>0. optimizeQ \in {0, 1} /\ predictions \in Nat
  BY DEF IInv, ChainShape, TunersShape
<1>1. CASE Generate
  BY <1>0, <1>1, GenerateEffect
<1>2. CASE Ask
  <2>1. /\ optPC = "run" /\ optimizeQ' = IF Says THEN optimizeQ + 1 ELSE optimizeQ
        /\ UNCHANGED <<kind, predictions>>
    BY <1>2 DEF Ask, OptimizeAsk, bayesian
  <2>2. optimizeQ = 0
    BY <2>1 DEF IInv, ChainShape
  <2>3. Says => kind # "Bayes" \/ predictions > 0
    BY DEF Says, Yes
  <2>4. QED BY <1>0, <2>1, <2>2, <2>3
<1>3. CASE Dispatch
  BY <1>3 DEF Dispatch, OptimizeDispatch, tuners, bayesian
<1>4. CASE Compile
  BY <1>4 DEF Compile, CodegenStart, bayesian, optimize
<1>5. CASE Deliver
  <2>1. cgPC # "idle" /\ UNCHANGED <<kind, predictions, optimizeQ>>
    BY <1>5 DEF Deliver, CodegenJob, CodegenStep, CodegenStart, AddToList, AddClearsFlag, CodegenFinish,
       optimize, tuners, bayesian
  <2>2. QED BY <2>1
<1>6. CASE Run
  BY <1>6 DEF Run, Use, vars, list, optimize, codegen, client, slots, bayesian
<1>7. CASE DriverMoves
  <2>1. /\ UNCHANGED <<optPC, made, codegenQ, cgPC, kind, predictions>>
        /\ UNCHANGED optimizeQ \/ StartChain
    BY <1>7, MovesLeave DEF codegen, tuners, bayesian
  <2>2. CASE StartChain
    BY <1>7, <2>2, ChainStarts
  <2>3. CASE UNCHANGED optimizeQ
    BY <1>7, <2>1, <2>3, GoesOnWaiting
  <2>4. QED BY <2>1, <2>2, <2>3
<1>8. CASE UNCHANGED tunersVars
  BY <1>8 DEF tunersVars, driverVars, vars, list, optimize, codegen, client, driver, slots, tuners, bayesian
<1>9. QED BY <1>1, <1>2, <1>3, <1>4, <1>5, <1>6, <1>7, <1>8 DEF TunersNext

\* The Bayesian tuner of an impatient entry trains on versions that were run, all of
\* them, whatever the workers and the caller do meanwhile.
THEOREM TrainedOnMeasured ==
  ASSUME Impatient
  PROVE  TunersSpec => []TrainsOnMeasured
<1>1. TunersInit => FirstOfChain /\ TrainsOnMeasured
  BY DEF TunersInit, DriverInit, Init, BayesInit, FirstOfChain, TrainsOnMeasured
<1>2. ASSUME IInv, DInv, TunersShape, FirstOfChain, TrainsOnMeasured, [TunersNext]_tunersVars
      PROVE  TrainsOnMeasured'
  <2> USE <1>2 DEF TrainsOnMeasured
  <2>1. CASE Generate
    <3>1. CASE kind = "Bayes" /\ predictions = 0
      <4>1. pc \in {"wait", "aborted"} /\ trial = 0 /\ made = taken /\ taken \in Nat
        BY <2>1, <3>1, GenerateEffect DEF FirstOfChain, IInv, TypeOK
      <4>2. NeverRun = {}
        BY <4>1 DEF NeverRun, NewestUnmeasured
      <4>3. NextConfig
        BY <2>1, <3>1, GenerateEffect
      <4>4. QED BY <4>2, <4>3 DEF NextConfig, bayesian
    <3>2. CASE kind = "Bayes" /\ predictions # 0
      <4>1. NextConfig
        BY <2>1, <3>2, GenerateEffect
      <4>2. QED BY <3>2, <4>1 DEF NextConfig
    <3>3. CASE kind # "Bayes"
      BY <2>1, <3>3, GenerateEffect DEF bayesian
    <3>4. QED BY <3>1, <3>2, <3>3
  <2>2. CASE Ask
    BY <2>2 DEF Ask, bayesian
  <2>3. CASE Compile
    BY <2>3 DEF Compile, bayesian
  <2>4. CASE Dispatch \/ Deliver \/ Run \/ DriverMoves \/ UNCHANGED tunersVars
    BY <2>4, OthersLeave DEF bayesian
  <2>5. QED BY <2>1, <2>2, <2>3, <2>4 DEF TunersNext
<1>3. QED BY <1>1, <1>2, FirstOfChainStep, TunersTyped, PTL DEF TunersSpec

------------------------------------------------------------------------------
(* The annealing walk.                                                        *)

\* The entry makes one version at a time: there is one more than were handed over only
\* while the caller waits for it.
OneAtATime ==
  kind = "Anneal" =>
    /\ made + optimizeQ <= taken + 1
    /\ pc \notin {"wait", "aborted"} => made + optimizeQ <= taken

\* What the client thread does to the numbers: it waits, or takes the next version, or
\* starts a chain.
LEMMA MovesCount ==
  ASSUME IInv, DInv, DriverMoves, UNCHANGED <<made, optimizeQ>> \/ StartChain
  PROVE  \/ StartChain
         \/ UNCHANGED <<optimizeQ, taken>> /\ (pc' \in {"wait", "aborted"} \/ pc \notin {"wait", "aborted"})
         \/ UNCHANGED optimizeQ /\ taken' = taken + 1
<1>1. CASE Call \/ InCall
  <2>1. CASE StartChain
    BY <2>1
  <2>2. CASE ~StartChain
    <3>1. pc # "destroyed"
      BY <1>1 DEF Call, InCall, Recompile, MayRecompile, CheckActive, SetActive, StartChain, WaitPoll, Abort
    <3>2. CASE PopResult
      BY <2>2, <3>1, <3>2, NextVersion
    <3>3. CASE ~PopResult
      BY <1>1, <2>2, <3>3 DEF Call, InCall, Recompile, MayRecompile, NoResult, CheckActive, SetActive,
         WaitPoll, Abort
    <3>4. QED BY <3>2, <3>3
  <2>3. QED BY <2>1, <2>2
<1>2. CASE Submit \/ Keep \/ Judge \/ NoTrial
  BY <1>2 DEF Submit, Keep, KeepTrial, Judge, JudgeTrial, NoTrial, vars, optimize, client
<1>3. CASE AskStatus \/ AskStatusAgain \/ Experiment
  BY <1>3 DEF AskStatus, StatusReadEmpty, AskStatusAgain, StatusReadActive, Experiment, vars, optimize, client
<1>4. CASE Deliverance \/ ReturnBest \/ QuitReturns \/ Quit
  BY <1>4 DEF Deliverance, Return, ReturnBest, QuitReturns, Flushed, Quit, Destroy, vars, optimize, client
<1>5. CASE Over
  BY <1>5 DEF Over, driverVars, vars, optimize, client
<1>6. QED BY <1>1, <1>2, <1>3, <1>4, <1>5 DEF DriverMoves

LEMMA OneAtATimeStep == IInv /\ DInv /\ TunersShape /\ OneAtATime /\ [TunersNext]_tunersVars => OneAtATime'
<1> SUFFICES ASSUME IInv, DInv, TunersShape, OneAtATime, [TunersNext]_tunersVars, kind' = "Anneal"
             PROVE  OneAtATime'
  BY DEF OneAtATime
<1> USE DEF OneAtATime
<1>0. made \in Nat /\ taken \in Nat /\ optimizeQ \in Nat
  BY DEF IInv, TypeOK
<1>1. CASE Generate
  BY <1>0, <1>1, GenerateEffect DEF client
<1>2. CASE Ask
  <2>1. ~Says
    BY <1>2 DEF Ask, Says
  <2>2. QED BY <1>0, <1>2, <2>1 DEF Ask, OptimizeAsk, client
<1>3. CASE Dispatch \/ Deliver \/ Compile
  <2>1. OptimizeJob \/ CodegenJob
    BY <1>3 DEF Dispatch, Deliver, Compile, OptimizeJob, CodegenJob, CodegenStep, tuners, driver
  <2>2. UNCHANGED <<kind, made, optimizeQ>>
    BY <1>3 DEF Dispatch, OptimizeDispatch, Deliver, CodegenJob, CodegenStep, Compile, CodegenStart, AddToList, AddClearsFlag,
       CodegenFinish, optimize, tuners
  <2>3. QED BY <2>1, <2>2, WorkersApart
<1>4. CASE Run \/ UNCHANGED tunersVars
  BY <1>4 DEF Run, Use, vars, optimize, client, tunersVars, driverVars, tuners
<1>5. CASE DriverMoves
  <2>1. kind = "Anneal" /\ made' = made /\ (UNCHANGED optimizeQ \/ StartChain)
    BY <1>5, MovesLeave DEF tuners
  <2>2. CASE StartChain
    BY <1>0, <2>1, <2>2 DEF StartChain
  <2>3. CASE ~StartChain
    BY <1>0, <1>5, <2>1, <2>3, MovesCount
  <2>4. QED BY <2>2, <2>3
<1>6. QED BY <1>1, <1>2, <1>3, <1>4, <1>5 DEF TunersNext

\* The newest version was generated with one of the two states of the walk.
LastWalked == kind = "Anneal" /\ made > 0 => configOf[made] \in {current, walking}

LEMMA LastWalkedStep == IInv /\ TunersShape /\ LastWalked /\ [TunersNext]_tunersVars => LastWalked'
<1> SUFFICES ASSUME IInv, TunersShape, LastWalked, [TunersNext]_tunersVars, kind' = "Anneal" PROVE LastWalked'
  BY DEF LastWalked
<1> USE DEF LastWalked
<1>1. CASE Generate
  <2>1. PICK c \in Nat : configOf' = Append(configOf, c) /\ (kind = "Anneal" => AnnealConfig(c))
    BY <1>1, GenerateEffect
  <2>2. made' = made + 1 /\ kind = "Anneal" /\ configOf'[made'] = c
    BY <1>1, <2>1, GenerateEffect DEF TunersShape
  <2>3. c \in {current', walking'}
    BY <2>1, <2>2 DEF AnnealConfig, FirstStates, AsksAgain, Decides
  <2>4. QED BY <2>2, <2>3
<1>2. CASE Ask
  BY <1>2 DEF Ask, OptimizeAsk, annealing
<1>3. CASE Compile
  BY <1>3, CompileLeaves DEF annealing, optimize
<1>4. CASE Dispatch \/ Deliver \/ Run \/ DriverMoves \/ UNCHANGED tunersVars
  BY <1>4, OthersLeave DEF annealing, travel
<1>5. QED BY <1>1, <1>2, <1>3, <1>4 DEF TunersNext

\* The version under trial is one of the two states that the walk will decide between.
THEOREM TrialsWalked == TunersSpec => []TrialIsWalked
<1>1. TunersInit => OneAtATime /\ LastWalked
  BY DEF TunersInit, DriverInit, Init, OneAtATime, LastWalked
<1>2. IInv /\ DInv /\ OneAtATime /\ LastWalked => TrialIsWalked
  <2> SUFFICES ASSUME IInv, DInv, OneAtATime, LastWalked, kind = "Anneal", dpc = "out", trial # 0
               PROVE  configOf[trial] \in {current, walking}
    BY DEF TrialIsWalked
  <2>1. pc = "idle" /\ trial = taken
    BY DEF DInv, CallShape, SlotsApart
  <2>2. made \in Nat /\ taken \in Nat /\ optimizeQ \in Nat /\ trial \in Nat
    BY DEF IInv, TypeOK, DInv, DriverTypeOK
  <2>3. made >= taken
    <3>1. Compiling \in Nat /\ Optimizing \in Nat /\ Len(recompileDone) \in Nat /\ Len(codegenQ) \in Nat
      BY DEF IInv, TypeOK, Compiling, Optimizing, B2N
    <3>2. made = taken + Len(recompileDone) + Compiling + Len(codegenQ) + Optimizing
      BY <2>1 DEF IInv, Numbered
    <3>3. QED BY <2>2, <3>1, <3>2
  <2>4. made = trial
    BY <2>1, <2>2, <2>3 DEF OneAtATime
  <2>5. QED BY <2>2, <2>4 DEF LastWalked
<1>3. QED BY <1>1, <1>2, OneAtATimeStep, LastWalkedStep, TunersTyped, PTL DEF TunersSpec

------------------------------------------------------------------------------
(* What the walk has measured.                                                *)

\* The versions up to this one were handed out and judged.
LastJudged == IF trial # 0 \/ (dpc = "waiting" /\ pc = "idle") THEN taken - 1 ELSE taken

WalkShape ==
  kind = "Anneal" =>
    \/ configs = 0 /\ walking = 0
    \/ configs >= 2 /\ walking = configs /\ current # 0 /\ (configs = 2 => current = 1)

\* A measurement that is good is of a configuration that was handed out.
GoodHanded == \A c \in good : \E v \in 1..taken : configOf[v] = c

WalkJudged ==
  kind = "Anneal" /\ walking > 2 =>
    \A c \in 1..(walking - 1) : \E v \in 1..LastJudged : configOf[v] = c

WalkInv == WalkShape /\ GoodHanded /\ WalkJudged

\* What the client thread does next never takes back that a version was judged.
LEMMA JudgedStays ==
  ASSUME IInv, DInv, DriverMoves
  PROVE  taken' \in Nat /\ taken' >= taken /\ LastJudged' \in Int /\ LastJudged' >= LastJudged
<1> USE DEF LastJudged
<1>0. taken \in Nat
  BY DEF IInv, TypeOK
<1>1. CASE Call \/ InCall
  BY <1>0, <1>1, InsideCall DEF DInv, slots
<1>2. CASE Submit \/ Keep \/ NoTrial
  BY <1>0, <1>2 DEF Submit, Keep, KeepTrial, NoTrial, Enters, Decision, vars, client, slots
<1>3. CASE Judge
  BY <1>0, <1>3 DEF Judge, JudgeTrial, Promote, vars, client
<1>4. CASE AskStatus \/ AskStatusAgain
  <2>1. UNCHANGED <<taken, trial>> /\ dpc' # "waiting"
    BY <1>4 DEF AskStatus, StatusReadEmpty, AskStatusAgain, StatusReadActive, Decide, slots
  <2>2. QED BY <1>0, <2>1
<1>5. CASE Experiment \/ ReturnBest
  BY <1>0, <1>5 DEF Experiment, ReturnBest, vars, client, slots
<1>6. CASE Deliverance
  BY <1>0, <1>6 DEF Deliverance, Return, vars, client
<1>7. CASE QuitReturns \/ Quit
  BY <1>0, <1>7 DEF QuitReturns, Flushed, Quit, Destroy, driver, slots
<1>8. CASE Over
  BY <1>0, <1>8 DEF Over, driverVars, vars, client, driver, slots
<1>9. QED BY <1>1, <1>2, <1>3, <1>4, <1>5, <1>6, <1>7, <1>8 DEF DriverMoves

\* When the annealing tuner generates, every version made was judged.
LEMMA AllJudged ==
  ASSUME IInv, DInv, OneAtATime, kind = "Anneal", Generate
  PROVE  trial = 0 /\ LastJudged = taken /\ taken = made /\ made \in Nat
<1>1. made \in Nat /\ taken \in Nat /\ optimizeQ \in Nat /\ optimizeQ > 0
  BY DEF IInv, TypeOK, Generate, OptimizeStart
<1>2. taken <= made
  <2>1. Compiling \in Nat /\ Optimizing \in Nat /\ Len(recompileDone) \in Nat /\ Len(codegenQ) \in Nat
    BY DEF IInv, TypeOK, Compiling, Optimizing, B2N
  <2>2. pc # "destroyed"
    BY <1>1 DEF IInv, ChainShape, JobExists
  <2>3. made = taken + Len(recompileDone) + Compiling + Len(codegenQ) + Optimizing
    BY <2>2 DEF IInv, Numbered
  <2>4. QED BY <1>1, <2>1, <2>3
<1>3. made = taken /\ pc \in {"wait", "aborted"}
  BY <1>1, <1>2 DEF OneAtATime
<1>4. dpc = "waiting" /\ trial = 0
  BY <1>3 DEF DInv, DriverTypeOK, CallShape, SlotShape
<1>5. QED BY <1>1, <1>3, <1>4 DEF LastJudged

LEMMA WalkGenerate ==
  ASSUME IInv, DInv, TunersShape, OneAtATime, WalkInv, Generate
  PROVE  WalkInv'
<1>1. PICK c \in Nat : configOf' = Append(configOf, c) /\ (kind = "Anneal" => AnnealConfig(c))
  BY GenerateEffect
<1>2. UNCHANGED <<kind, good, taken, trial, dpc, pc>>
  BY GenerateEffect DEF driver, slots, client
<1>3. configOf \in Seq(Nat) /\ Len(configOf) = made /\ made \in Nat
      /\ \A v \in 1..made : configOf'[v] = configOf[v]
  BY <1>1 DEF TunersShape, IInv, TypeOK
<1>4. taken \in Nat /\ taken <= made
  <2>1. Compiling \in Nat /\ Optimizing \in Nat /\ Len(recompileDone) \in Nat /\ Len(codegenQ) \in Nat
    BY DEF IInv, TypeOK, Compiling, Optimizing, B2N
  <2>2. pc # "destroyed"
    BY GenerateEffect DEF IInv, ChainShape, JobExists
  <2>3. made = taken + Len(recompileDone) + Compiling + Len(codegenQ) + Optimizing /\ taken \in Nat
    BY <2>2 DEF IInv, Numbered, TypeOK
  <2>4. QED BY <1>3, <2>1, <2>3
<1>5. GoodHanded'
  BY <1>2, <1>3, <1>4 DEF WalkInv, GoodHanded
<1>6. CASE kind # "Anneal"
  BY <1>2, <1>5, <1>6 DEF WalkInv, WalkShape, WalkJudged
<1>7. CASE kind = "Anneal"
  <2>1. LastJudged = taken /\ LastJudged' = taken
    BY <1>2, <1>7, AllJudged DEF LastJudged
  <2>2. configs \in Nat /\ walking \in 0..configs /\ current \in 0..configs
    BY DEF TunersShape
  <2>3. CASE FirstStates(c)
    BY <1>2, <1>5, <2>3 DEF FirstStates, WalkInv, WalkShape, WalkJudged
  <2>4. CASE AsksAgain(c)
    <3>1. UNCHANGED <<configs, current, walking>>
      BY <2>4 DEF AsksAgain
    <3>2. WalkShape'
      BY <1>2, <3>1 DEF WalkInv, WalkShape
    <3>3. WalkJudged'
      BY <1>2, <1>3, <1>4, <2>1, <3>1 DEF WalkInv, WalkJudged
    <3>4. QED BY <1>5, <3>2, <3>3 DEF WalkInv
  <2>5. CASE Decides(c)
    <3>1. /\ configs > 0 /\ current \in good /\ walking \in good
          /\ current' \in {current, walking} /\ configs' = configs + 1 /\ walking' = configs'
      BY <2>5 DEF Decides, MissingCost, NextStates, NewConfig
    <3>2. configs >= 2 /\ walking = configs /\ current # 0 /\ (configs = 2 => current = 1)
      BY <1>7, <2>2, <3>1 DEF WalkInv, WalkShape
    <3>3. WalkShape'
      BY <2>2, <3>1, <3>2 DEF WalkShape
    <3>4. ASSUME NEW s \in 1..configs
          PROVE  \E v \in 1..taken : configOf[v] = s
      <4>1. CASE s \in {current, walking}
        BY <3>1, <4>1 DEF WalkInv, GoodHanded
      <4>2. CASE s \notin {current, walking}
        <5>1. walking > 2 /\ s \in 1..(walking - 1)
          BY <2>2, <3>2, <4>2
        <5>2. QED BY <1>7, <2>1, <5>1 DEF WalkInv, WalkJudged
      <4>3. QED BY <4>1, <4>2
    <3>5. WalkJudged'
      <4>1. ASSUME NEW s \in 1..(walking' - 1)
            PROVE  \E v \in 1..LastJudged' : configOf'[v] = s
        <5>1. s \in 1..configs
          BY <2>2, <3>1, <4>1
        <5>2. PICK v \in 1..taken : configOf[v] = s
          BY <3>4, <5>1
        <5>3. QED BY <1>3, <1>4, <2>1, <5>2
      <4>2. QED BY <4>1 DEF WalkJudged
    <3>6. QED BY <1>5, <3>3, <3>5 DEF WalkInv
  <2>6. QED BY <1>1, <1>7, <2>3, <2>4, <2>5 DEF AnnealConfig
<1>8. QED BY <1>6, <1>7

LEMMA WalkStep ==
  ASSUME IInv, DInv, TunersShape, OneAtATime, WalkInv, [TunersNext]_tunersVars
  PROVE  WalkInv'
<1> USE DEF WalkInv, WalkShape, GoodHanded, WalkJudged
<1>1. CASE Generate
  BY <1>1, WalkGenerate
<1>2. CASE Ask \/ Dispatch \/ Compile \/ Deliver
  <2>1. Dispatch \/ Compile \/ Deliver => OptimizeJob \/ CodegenJob
    BY DEF Dispatch, Deliver, Compile, OptimizeJob, CodegenJob, CodegenStep, tuners, driver
  <2>2. UNCHANGED <<taken, trial, dpc, pc>>
    <3>1. Ask => UNCHANGED <<taken, trial, dpc, pc>>
      BY DEF Ask, OptimizeAsk, driver, slots, client
    <3>2. QED BY <1>2, <2>1, <3>1, WorkersApart DEF driver, slots
  <2>3. UNCHANGED <<kind, configs, annealing, good, configOf>>
    BY <1>2 DEF Ask, Dispatch, Deliver, Compile, tuners, travel, randomTuner
  <2>4. QED BY <2>2, <2>3 DEF LastJudged, annealing
<1>3. CASE Run
  <2>1. UNCHANGED <<taken, trial, dpc, pc, kind, configs, annealing, configOf>>
    BY <1>3 DEF Run, Use, vars, client, slots, randomTuner, travel
  <2>2. good' \subseteq good \cup {configOf[InUse]}
    BY <1>3 DEF Run
  <2>3. InUse \in 1..taken
    <3>1. InUse # 0 /\ InUse \in {trial, best}
      BY <1>3 DEF Run, Use, InUse
    <3>2. trial \in Nat /\ best \in Nat /\ taken \in Nat /\ trial <= taken /\ best <= taken
      BY DEF DInv, DriverTypeOK, SlotsApart, IInv, TypeOK
    <3>3. QED BY <3>1, <3>2
  <2>4. QED BY <2>1, <2>2, <2>3 DEF LastJudged, annealing
<1>4. CASE DriverMoves
  <2>1. UNCHANGED <<kind, configs, annealing, good, configOf>>
    BY <1>4, MovesLeave DEF tuners, travel, randomTuner
  <2>2. /\ taken \in Nat /\ taken' \in Nat /\ taken' >= taken
        /\ LastJudged \in Int /\ LastJudged' \in Int /\ LastJudged' >= LastJudged
    BY <1>4, JudgedStays DEF IInv, TypeOK, LastJudged
  <2>3. 1..taken \subseteq 1..taken' /\ 1..LastJudged \subseteq 1..LastJudged'
    BY <2>2
  <2>4. GoodHanded'
    BY <2>1, <2>3
  <2>5. WalkJudged'
    BY <2>1, <2>3 DEF annealing
  <2>6. QED BY <2>1, <2>4, <2>5 DEF annealing
<1>5. CASE UNCHANGED tunersVars
  BY <1>5 DEF tunersVars, driverVars, vars, client, driver, slots, tuners, travel, randomTuner, annealing, LastJudged
<1>6. QED BY <1>1, <1>2, <1>3, <1>4, <1>5 DEF TunersNext

\* The walk never decides on a state it has not measured: once it has moved, every
\* configuration before the newest was handed out and judged.
THEOREM DecidesOnMeasured == TunersSpec => []WalkMeasured
<1>1. TunersInit => OneAtATime /\ WalkInv
  BY DEF TunersInit, DriverInit, Init, RandomInit, AnnealInit, OneAtATime, WalkInv, WalkShape, GoodHanded, WalkJudged
<1>2. IInv /\ DInv /\ WalkInv => WalkMeasured
  <2> SUFFICES ASSUME IInv, DInv, WalkInv, kind = "Anneal", walking > 2, NEW c \in 1..(walking - 1)
               PROVE  \E v \in 1..taken : configOf[v] = c /\ v # trial
    BY DEF WalkMeasured
  <2>1. taken \in Nat /\ trial \in {0, taken}
    BY DEF IInv, TypeOK, DInv, SlotsApart
  <2>2. PICK v \in 1..LastJudged : configOf[v] = c
    BY DEF WalkInv, WalkJudged
  <2>3. v \in 1..taken /\ v # trial
    BY <2>1, <2>2 DEF LastJudged
  <2>4. QED BY <2>2, <2>3
<1>3. QED BY <1>1, <1>2, OneAtATimeStep, WalkStep, TunersTyped, PTL DEF TunersSpec
================================================================================
