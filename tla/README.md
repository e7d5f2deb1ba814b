# Verification of atJIT

atJIT recompiles a C++ function while the program runs, trying other optimization
settings each time, and keeps the fastest version. `tuner::ATDriver::reoptimize()` is
what a program calls; behind it, one `tuner::Optimizer` per function and context runs
a pipeline of compile jobs on two serial dispatch queues, a `tuner::Tuner` proposes
configurations, and `tuner::Feedback` objects measure the versions in use.

Before that, a compiler plugin embeds the bitcode of the functions that may be recompiled
into each unit, a tracker collects it when the program starts, and a context says what a
call binds to which parameter.

The modules here model all of this in TLA+, from the plugin to the report of a tuner's
results. TLC checks them on small instances; TLAPS proves the main safety properties for
every value of the constants.

## Inventory

| Part | State | Operations | What is hard | What makes it correct |
|---|---|---|---|---|
| **Optimizer** (`include/tuner/optimizer.h`, `runtime/tuner/Optimizer.cpp`) | the list `recompileDone_`, the atomics `doneQueueEmpty_` and `recompileActive_`, the queues `optimizeQ_`, `codegenQ_`, `mutate_recompileDone_` | `recompile()`, `status()`, destructor; `optimize_callback()`, `codegen_callback()`, the list callbacks | three actors, unsynchronized reads, a chain of jobs that prolongs itself, a bailout that aborts | flags tell the truth, results in order, one end mark per chain, bounded backlog, no wait for nothing, termination |
| **ATDriver** (`include/tuner/driver.h`) | per entry: slots Trial, Best, Others, the deployment threshold | `reoptimize()`, destructor, `exportStats()` | a protocol spread over many calls, an answer of `status()` that ages, an exception half-way | slots disjoint and filled, best never lost, optimizer used as it expects, calls return |
| **Feedback** (`include/tuner/Feedback.h`, `runtime/tuner/Feedback.cpp`) | ring buffer or running mean, deployed time, cached statistics | start/endMeasurement, updateStats, queries, resetDeployedTime, betterThan | measured in many threads, read by the driver and by the tuner's worker, fields outside the lock | no measurement lost, statistics of one moment, no lost reset |
| **Tuners** (`Tuner.h`, `RandomTuner.h`, `BayesianTuner.h`, `AnnealingTuner.h`, `AnalyzingTuner`) | the configurations generated and their feedback, predictions, temperature, compile-ahead count | `analyze`, `getNextConfig`, `shouldCompileNext`, `applyConfig`, `bestSeen` | run on a worker, look at feedback of versions still in the pipeline | bounded chains, training on measured configurations only, a version's options are its own, a walk decides between measured states |
| **Knobs and configurations** (`Knob*.{h,cpp}`, `CodegenOptions.h`, `param.h`) | a set of knobs, a value for each | generate, perturb, apply, export | ranges, identifiers | values stay legal; a row holds every knob once |
| **Loop knobs** (`LoopKnob`, `LoopSettingGen`, `MDUtils`, `pass/LoopNamer`) | optional settings per loop | generate, perturb, sections, write metadata | optional values, powers of two | settings stay legal; metadata says what the setting says |
| **Results** (`betterThan()`, `bestSeen()`, `dumpStats()`, the training of `BayesianTuner.h`) | the list of configurations, their statistics, the rows of two matrices, the model kept, the batch of predictions | retrain, learn, predict, compare, report | a comparison that is no order, over a list that is shuffled; one index over two matrices; a selection that drops good candidates | what is exploited is unbeaten; no model is judged by its training rows, the best one is kept; the batch is tried best first |
| **Contexts and code cache** (`easy/runtime/Context`, `easy/code_cache.h`) | key to entry maps | equality, hash, emplace | keys whose knobs turn, doubles, options that do not count | an entry serves the requests it was made for, and no other entry does |
| **Front end and wrappers** (`easy/param.h`, `options.h`, `meta.h`, `function_wrapper.h`, `jit.h`) | none | a context from a call, the type of the wrapper | the same type is computed twice, at compile time and at run time; integers lose their width | the compiled function has the type of its wrapper and passes on what the call bound |
| **Compiler plugin** (`pass/Easy.cpp`, `MayAliasTracer`) | the module of a unit | trace, mark, extract, name, register | what is marked decides what may be found at run time; local names become external | what a call may need is embedded; each reference can be resolved to what it meant |
| **Bitcode tracker and function loading** (`BitcodeTracker`, `Function.cpp`) | two tables, filled by static constructors | register, look up, resolve, serialize, deserialize | constructors run in any order, names may meet | the same, after linking and reading back |
| **IR passes at run time** (`InlineParameters`, `DevirtualizeConstant`) | the module under construction | wrap, link, devirtualize | linking overrides what has the same name; a lookup may throw | the same |
| **Statistics output, logging, benchmarks, tests, build** | | | | not modelled: formatting, and code outside the library |

How they meet: the caller's thread calls the driver, which calls `status()` and
`recompile()`; those touch the list, the flags and the queues. The worker of
`optimizeQ_` calls the tuner, optimizes, and dispatches to itself and to `codegenQ_`;
the worker of `codegenQ_` compiles and adds to the list. The caller runs the versions it
was handed, which writes their feedback; the driver and, on a worker, the tuner read it.
Static constructors fill the tracker before `main()`; a call makes a context, finds or
makes the entry of its key, and each version that the entry's optimizer compiles starts
from the tracker's bitcode, with other bitcode linked for its arguments.

`PROJECT.json` lists the same components with their status, and under `hazards` the
places where this code can go wrong in a way a test would hardly reach.

## Modules

| Module | Models | Extends |
|---|---|---|
| `CompileService` | the abstract specification of an Optimizer: numbered versions are generated and handed over, in order, a bounded number ahead | |
| `Optimizer` | `Optimizer.cpp`, at the grain of its atomic reads and writes; the client thread calls in one of two ways (`Impatient`) | |
| `OptimizerProofs` | theorems about `Optimizer`, and that it implements `CompileService` | `Optimizer` |
| `Driver` | one entry of `ATDriver`, as the client of its `Optimizer` | `Optimizer` |
| `DriverProofs` | theorems about `Driver` | `Driver`, `OptimizerProofs` |
| `RandomTuner` | the list of configurations and the count of versions compiled ahead | `Driver` |
| `BayesianTuner` | the random prior, the batches of predictions, the training sets | `RandomTuner` |
| `AnnealingTuner` | the walk between configurations, and the quality of what is measured of them | `RandomTuner` |
| `Tuners` | an entry with any of the three, and what each version is compiled from | `BayesianTuner`, `AnnealingTuner` |
| `TunersProofs` | theorems about `Tuners` | `Tuners`, `DriverProofs` |
| `FeedbackBuffer` | the base class of both measuring feedbacks: deployed time, the running and the updating threads, `betterThan()` | |
| `TotalExecutionTime`, `RecentExecutionTime` | the two measuring classes | `FeedbackBuffer` |
| `Feedback` | the feedback object of one version, of any kind `createFeedback()` makes | both |
| `FeedbackProofs` | theorems about `Feedback` | `Feedback`, `Recursion` |
| `LoopSettings` | the setting of a loop knob: its options as integers, the generators, the metadata it becomes (`LoopSettingGen.cpp`, `LoopKnob.cpp`, `MDUtils.h`, `Util`) | |
| `KnobConfigs` | the knobs of one tuner and the configurations made for them: analysis, generation, perturbation, application, export | `LoopSettings` |
| `KnobProofs` | theorems about the settings of loop knobs, configurations, the module they make and rows | `KnobConfigs`, `Recursion` |
| `Results` | what is made of the measurements: comparing them, training on them, choosing what to try next, reporting (`Feedback.h` `betterThan()`, `Tuner.h`, `BayesianTuner.h`) | |
| `ResultsProofs` | theorems about `Results` | `Results`, `Recursion` |
| `Contexts` | `easy::Context`: arguments, options, equality, hashes, placeholders, and the wrapper's type | |
| `MayAliasTracer` | what the argument of a call may point to, as the plugin traces it | |
| `RegisterBitcode` | the plugin's marking, extraction and naming | `MayAliasTracer` |
| `BitcodeTracker` | registration in the static constructors, the two tables | `RegisterBitcode` |
| `Specialize` | from a registered function and a context to code: linking, inlined parameters, devirtualized calls, resolution | `BitcodeTracker`, `Contexts` |
| `Jit` | a program that uses all this: constructors, calls, tuned versions, versions read back | `Specialize` |
| `JitProofs` | theorems about `Jit` | `Jit`, `Recursion` |
| `Recursion` | lemmas about loops, recursive functions, trees, joined sequences and closures, for the modules with theorems | |
| `MCOptimizer`, `MCDriver`, `MCTuners`, `MCFeedback`, `MCKnobConfigs`, `MCResults`, `MCJit` | model-checking instances | |

Correspondence, for `Optimizer`:

* A **version** is the number of the `getNextConfig()` call it was generated by. Modules,
  IR and code are not modelled: nothing in the pipeline's control depends on them.
* `optimizeQ` counts tasks (they all carry the same argument); `codegenQ` holds the
  `OptimizeResult` records, of which only the version and the flag `End` matter.
* Each worker takes a job in steps: `OptimizeStart` (analyze and getNextConfig),
  `OptimizeAsk` (shouldCompileNext and the dispatch of the next task), `OptimizeDispatch`
  (the dispatch to `codegenQ_`); `CodegenStart`, `AddToList` and `AddClearsFlag` (the two
  writes of `addToList_callback`, under the list's queue), `CodegenFinish` (the end of
  the chain).
* `recompile()` is `Recompile` (the first look at the list), `CheckActive`, `SetActive`,
  `StartChain`, then `WaitPoll` until there is a result or `Abort`. `status()` is two
  reads, `StatusReadEmpty` and `StatusReadActive`, between which the workers may go on; any
  client may call it, and an impatient one acts on the answer.
* The tuner answers `shouldCompileNext()` either way, but at most `CompileAhead` times
  yes in a row, which is what the tuners do (`RandomTuner.h` 47-54); `Tuners` shows it
  of each tuner's own count.

For `Driver`: `trial`, `best` and `others` hold the number of the version in a slot, 0 for
an empty one. `dpc` is the place in `reoptimize()`. `Submit`, `KeepTrial`, `JudgeTrial`,
`NoTrial` are the ways a call may begin; `AskStatus`, `AskStatusAgain` and `Experiment` the
decision; `Call`, `InCall`, `Return` and `ReturnBest` the rest. `Use` is the caller, running what it
was handed. Measurements are abstracted to what the driver asks of them (`calls`,
`deployed`, and a choice where it compares two versions).

For the tuners: a configuration is its place in `Configs_` (what it says is `KnobConfigs`' matter), and `configOf` the one
each version was generated with. `predictions` is the size of `Predictions_`, `aheadOfTime` the
count of versions compiled ahead, and `unmeasured` the rows of the last training set whose version was never run. An
optimize job sets `knobs` and leaves what the code generator needs in `options`, as the `OptimizeResult` it dispatches
does; `codegenOptions` is what the other worker uses. The annealing walk asks again for a configuration of poor
quality (`AsksAgain`), so several versions may share one configuration and with it one feedback (`Shares`,
`OneFeedback`): a run of one is a run of all, and a version delivered later comes with the measurements of the earlier.
`Driver` alone allows any versions to share; `Tuners` says which do. `good` is the set of configurations whose feedback
is of good quality; a run may add to it or, since a mean with few samples may lose its quality, take away.

For the feedback modules: each thread of `Threads` is somewhere in `endMeasurement()` (`mpc`), each of
`Updaters` somewhere in `updateStats()` or in the reads of `betterThan()` (`upc`); the mutex is a variable, so what
the code does outside it (`resetDeployedTime()`, the reads of the cached statistics, the second use of `sampleSz`)
interleaves with what it does inside. Statistics are exact fractions where the code has `double`; the truncation of
squares to 64 bits does not matter to any property and is left out. `samples`, `sinceReset` and `seen` are
history variables that say what was measured and what a reader saw. An update may see the mean of one moment and the
size of another: `FreshAnswers` only says that each value is from some moment since the update began.

For the knobs: a `std::optional` is the set of its value, or the empty set. A random generator is the set
of what it may return, so the coins that skip an option add nothing, and a normal distribution reaches its whole
range unless its deviation, which the code truncates to an integer, is zero. A loop goes by the ID of its knob; the
metadata of a loop is a function from option names to values, the transforms of a function a sequence of groups of
loops and sizes. `Job` is what a compile job does with a configuration: set the knobs, apply them to a fresh copy of
the module. `walk` is the order of the hash maps, any of a few. `row` is cleared by the next job.

For `Results`: a version is its configuration, and `stats` what its feedback says of it: any sample with more runs than
before. `BetterThan` is Welch's test in integers, squared where the code takes a root. `Retrain`, `LearnIteration` and
`Predict` are the parts of one job of `getNextConfig()`, between which the caller's runs change the statistics, as they
do in the code. The errors of a model and its forecasts are a choice, since xgboost makes them; `UpdateDataset` shuffles,
so any order of the list is next. `Picked` is one step of the selection. `Inserted` is what `std::sort` does to at most
sixteen elements (an insertion), since the comparison is not one for which the standard says what sorting means.

For `Contexts`, `Specialize` and `Jit`: an argument is a kind with what the kind holds; a hash is the set of what is
combined, with `^` as the set of what occurs an odd number of times, so two hashes are equal when the code's are unless
`std::hash` itself collides. An integer has the bits of its type in two's complement. Of IR only what the plugin looks at
is there: for each function or variable of a unit its linkage, its name or lack of one, what it refers to, the functions
of a virtual table, and the virtual calls; for tracing, a graph of the values that flow into each other. A module under
construction is its references: `open` while they are declarations, `bound` once a module linked in defines the name.
`visible` is what it defines for others, `mapping` the unit whose local variables `MapGlobals()` knows. `Jit` serves a call at once: how versions wait, and in what order
they come, is `Optimizer`'s and `Driver`'s matter, and nothing of it depends on what a context says.
`Tune` is a later version of an entry, with its knobs at any value in their ranges; `Reload` reads back what was
serialized. `ended` is a process that has thrown in a job, called an entry that was left empty, or met an unresolved name.

The modules define *seeded faults* beside some definitions: wrong variants of their own, used by no
action. Put in place of the definition it names, each makes some property fail.

## Runs

| Run | Instance | What it shows |
|---|---|---|
| `optimizer_blocking` | a client that recompiles, and asks `status()`, whenever it likes; 3 ahead, 9 requests | the flags, the order and the end marks are right under every interleaving; at most two chains of versions pile up; the service is implemented; chains and the destructor end |
| `optimizer_abort` | blocking client | **violated**: the bailout can end a process in which no compile job exists |
| `driver_impatient` | impatient driver, 2 ahead, 4 requests, trials judged after 2 runs | the unsynchronized `status()` does no harm: `Ready` is right, a waiting client has something to wait for and is answered, unless a compile job is slow; slots, hand-out, protocol, and that calls return |
| `driver_assert` | the function is not registered | **violated**: the second call fails `assert(... "logic error!")` |
| `tuners` | each tuner in turn, 2 ahead, batches of 4; 6 requests for the Bayesian tuner, 5 for the others | each count bounds its chains; versions are compiled with their own options; training uses measured configurations only; the walk decides between measured states and tries nothing else |
| `bayes_blocking` | batches of 3, blocking | **violated**: the tuner trains on versions that were compiled but not yet handed out |
| `feedback_all` | one version, run by two threads, under each kind of feedback | every measurement counts, what is read is up to date, the deployed time falls only when it is reset |
| `knobs` | one scalar knob, three loops: nested in a row, two in one, a pair beside one | however it is generated or perturbed, a configuration is legal; the module says what the configuration says, whatever the order of the knobs; an exported row holds every knob once and whole |
| `knobs_pick` | the same | **violated**: more knobs are kept for perturbation than there are |
| `feedback_bogus` | FB_Recent, two updates at a time | **violated**: an average over samples the update never received |
| `results` | batches of 2, a pool of 3, one in 3 held out, 5 configurations, two learning iterations, four samples that the test decides between or not | no result beats the one that is exploited; no model is judged by what it was trained on; the best is kept; the batch is in order and begins with the best of the pool; the report is sorted where the test is an order |
| `jit` | a program of two units, 38 calls, two entries, three versions | calls are served by the entry of their key, however it is tuned; specialized code has the type of its wrapper and binds what the call bound; it refers to what its source referred to; what the plugin marks is found |

Bounds. `CompileAhead` is 3, or 2 where the driver and the tuners take part; its value in the code is 2 (`DEFAULT_COMPILE_AHEAD`, `Util.h` 9). Nine requests let a
blocking client take a whole chain (four versions), overlap the rest of it with a second chain of four,
and ask once more; four requests give the driver a first trial, a lost or won comparison, two
filled `Others` and a swap. `Bailout` counts polls: 1 or 2 are enough for the client to poll in
vain, to be answered late, and to give up; the real bound of 120000 is only larger. `GoodCalls` is
2 in the driver's run, so a trial can be handed out again before it is judged. A batch of four
predictions is one more than a chain may use, so both limits on a chain are met; six requests reach the first batch after
four random configurations, five reach three decisions of a walk, or fewer and a configuration asked for again. `GoodCalls` is 1 there.
The feedback runs have two running threads, times 1 and 3, three runs, a minimum of two trials, a largest deployed
time of 5, so that a sum wraps, and a ring of two places, so that it is overwritten; in `feedback_all` a
`RecentExecutionTime` has a single updater, because two mix their samples, as `feedback_bogus` shows.
The knob runs have smaller ranges than the code (`UNROLL_CNT_MAX` 1, `SECTION_SIZE_MAX` 2 and so on: every option keeps
its unset value, both ends and the values between them), all settings of one loop (`Full`) and two settings of the others
(`Sample`), three shapes of nest, two walks, energies of 100 and 50: the second freezes the short ranges, the first does
not. A random configuration is only drawn after a default one, since it depends on nothing else.
In `results` the four samples are two pairs between which Welch's test decides and pairs where it does not, and two of
them replace the others as runs are added. A pool of three with batches of two fills the batch and makes the selection
drop one; five configurations give two batches after the prior, with one and with two rows held out. Two iterations of
learning can improve twice, or end with a worse one.
In `jit` a `bool` has 1 bit, an `int` 2 and an `int64_t` 3, so that each conversion can lose bits. Both units have a local
function of one name and a local variable without one; A has an external function that B defines, a virtual table whose
methods B overrides, a constant array of functions, and functions passed through phis, stores, copies and loads. Calls
differ in each part of a key, and two entries suffice for any two of them to meet; three versions are a
version, one that is linked into another, and one that is tuned or read back. Levels 0 and 3 are those with and without
devirtualization.

Fairness. Each queue's worker is weakly fair: libdispatch runs the next job of a queue. The client
thread is weakly fair inside a call (`pc # "idle"`, `dpc # "out"`), since its thread runs; nothing is
assumed about its calling again, nor about the runs of a version. A codegen job has no bound on its
duration, so the liveness of a waiting client allows the abort while a job or a late result exists,
and only then.

### What the violations say

* `optimizer_abort`. The last job of a chain adds its result at `Optimizer.cpp` 499 and clears
  `recompileActive_` at 508-509. A client that takes the result in between and calls `recompile()`
  again finds an empty list and an active chain, starts nothing, and waits until the process is
  aborted. `NoStrandedWait` shows that a client that asks `status()` first cannot get there.
* `driver_assert`. `reoptimize()` puts the entry into the map before `initialize()`, which throws for a
  function the tracker does not know. The entry stays behind without a trial or a best.
* `bayes_blocking`. Every version that was handed out has been run and judged (`driver.h` 140-159) before a call asks for the
  next. But with `blocking(true)` that call does not ask `status()` first, so `recompile()` may find the list empty while the chain
  before is still under way. Its last versions are then added (`Optimizer.cpp` 499) and `recompileActive_` is cleared (508-509)
  before the client reads it (360): it starts a second chain, whose first optimize job trains on those last versions, which lie in the list
  and were never run. The guard at `BayesianTuner.h` 157 is meant to catch this, and does not under the default feedback,
  which reports a mean of zero for no data (`Feedback.h` 269, 372).
* `feedback_bogus`. `updateStats()` stores `sampleSz` under the lock, unlocks, and reads it again at `Feedback.h` 223.
  A second update may have raised it by then; the first averages times it has not copied, which
  `DCHECK_F` at `Feedback.cpp` 91 calls bogus.
* `knobs_pick`. `perturbConfig()` is given a percentage, 100 to begin with when annealing and 30 for the Bayesian tuner,
  and `KnobConfig.cpp` 106 multiplies the number of knobs by it. The loop that follows inserts that many elements of a
  vector that has fewer: it reads beyond its end. Where the process survives, every knob is perturbed, always; the model
  goes on under that assumption.

More oddities are modelled as they are. The code says nothing that they violate, and where a property above has an
exception, it is one of them:

* The comment on `TotalExecutionTime`'s constructor (`Feedback.h` 289-290) says "return if you have at least 2 observations, where the
  precent std err of the mean is <= the value". The code asks for more than `DEFAULT_MIN_TRIALS` of them (369, and 230 in the other class), and
  that is 2 (`Util.h` 8): with two measurements, however alike, the answer is still no. The model, `FreshAnswers` included, follows
  the code; a `MinTrials` of 1 would be what the comment says. `FreshAnswers` is about the moment an answer is from, and proved for any `MinTrials`.
* `resetDeployedTime()` (`Feedback.h` 179-181) takes no lock, so a measurement of a `TotalExecutionTime` under way stores the
  sum over the reset, although the comment at 266 says of the lock that it "protects all fields of this object" (`deployedTime` is an inherited
  one): `ResetHolds` is false of it, and no run checks it; `RecentResets` states it of the other class.
* The driver moves a judged trial to another slot. A thread that still runs that trial reads `FB_` of the emptied slot at the end
  (`function_wrapper.h` 85): `HandedHolds` speaks of the time between calls of the one caller only.
* A number bound to a `bool` keeps its lowest bit (`InlineParameters.cpp` 69): 2 arrives as false.
* A context with a NaN equals none, itself included (`Context.h` 108), so each such call makes an entry.
* `dumpStats()` sorts by a comparison that holds both ways between results the test does not decide; the report is in
  order only when it decides all pairs.
* The selection of predictions (`BayesianTuner.h` 351) drops the smallest element that is greater than the new one, not
  the greatest: of the batch, only the first is sure to be among the best of the pool.
* Code that comes from another unit by linking refers to local variables which the mapping of the target's unit does not
  have, or has under the same name: resolution then fails or finds the other.
* `setBoolOpt()` tests a constant
(`LoopSettingGen.cpp` 165), so a flag is never switched off, only on or unset. `nearbyInt()` truncates twice
(`Util.h` 37-38), so a flag whose range is 1 never moves and a loop's flag (range 2) moves at energy 100 only. Since
metadata of the source is only replaced option by option, a loop can ask for a count of 8 and for full unrolling at once.

## Proofs

`OptimizerProofs` proves `Spec => []IInv` for every `CompileAhead`, `Bailout`, `MaxRequests` and both kinds of
client. None of the properties is inductive. What carries them:

* `ActiveMeansJobs` (the flag tells the truth) needs `ChainShape`: one task at most on `optimizeQ_`, the end
  mark on the last job of a chain and only there, wherever that job is.
* `InOrder` needs `Numbered`, which gives the number expected at every station of the pipeline.
* `BacklogBounded` needs `PotentialBounded`: the versions on the list, in flight, and still to be generated
  by the chain are bounded together; a client about to start a chain leaves at most one chain's worth.
* `ReadyIsReady` and `NoStrandedWait` need `SeenMeans` and `ImpatientMeans`: what an answer of `status()` still
  says when it is acted upon.

`OptimizerProofs` also proves that each step of `Optimizer` is a step of `CompileService` or none
(`Spec => Service!Spec`), from the same invariant.

`DriverProofs` first proves `DriverSpec => Spec`: the driver is one of `Optimizer`'s clients, so everything proved of
`Optimizer` holds under it. Its own invariant `DInv` is proved relative to `IInv`: where the two programs are
at the same time (`CallShape`), which slots are filled (`SlotShape`), that a version just handed over is newer than
any slot (`Fresh`), and the single chain of an entry without a tuner (`NoopShape`). From these follow `SlotsApart`,
`HandedHolds`, `KeepsProtocol`, `NoopCompilesOnce`, `JudgedBeforeChain`, `AssertHolds` and, as an action
property, `OnlyBeatenLeave`.

`TunersProofs` first proves `TunersSpec => DriverSpec`, so an entry with a tuner inherits all of the above. Then, for every bound on
chains and every size of batch:

* `TunersKeepAhead` from `CountsAgree`: the optimizer's count of yes answers in a row is at most the tuner's own, which may be ahead of
  it, because the Bayesian tuner counts on when a lack of predictions makes it say no.
* `OwnOptions` from `Traveled`: the knobs hold the newest configuration until they are saved, and each record on its way carries the
  options of its own.
* `TrainsOnMeasured`, for an impatient entry, from `FirstOfChain`: a task that will find no predictions left is the first of its
  chain, so nothing is in the pipeline and no trial is out. For a blocking one it is false (`bayes_blocking`).
* `TrialIsWalked` from `OneAtATime` and `LastWalked`: a chain of the annealing tuner is one version long, so the version under trial
  is the one its walk asked for last.
* `WalkMeasured` from `WalkInv`: what has a good measurement was handed out (`GoodHanded`), and every version made was judged when the
  tuner generates again.

`FeedbackProofs` proves `FInv` for any number of threads and updaters: whoever is in the critical section of a `TotalExecutionTime`
holds the mutex (`Held`), and a sum that passed the overflow check is no less than the deployed time until it is stored, since
only a reset can come between (`Checked`). From it follow `OnlyResetLowers` and, of a `RecentExecutionTime`, `RecentResets`.
`EveryRunCounts` rests on three more: `Count` (who is between counting and averaging), `Ring` (a circular buffer of any size holds the
last measurements; of a measurement between its first and its last step it says that it is in the buffer but not yet counted) and `Stats`
(`StatisticsExact`: the running mean and the running sum of squares, as fractions, are those of the definitions, an identity
that each `EndAverage` keeps). `FreshAnswersRead` proves `FreshAnswers`. Of a `TotalExecutionTime` each cached value is that of some moment since
the update began (`TotalFreshInv`), whoever else updates. Of a `RecentExecutionTime` all of them are of one moment: `RecentShape` follows the copy
of the one update under way, which is filled in order while measurements go on, to a rotation of the last samples whose sums are the same
(`RingRotated`). It assumes `OneUpdater`, the case the code is safe in: with two the answers mix, which is `feedback_bogus`.

`KnobProofs` proves `ConfLegal`, `RowsFaithful` and `ModuleMatches` for any number of knobs, loops and nests, every range of the options, with Polly or without. A random
setting of a loop knob is legal (`RandomLegal`) and a perturbed one is (`PerturbedLegal`): `Usable` is what perturbing preserves, and adds
to `LegalSetting` that an option has one value at most and a flag is never off. `Tuned` says it of every loop of a configuration, with the
shape that `GenSimpleRandConfig` and `GenNearbyConfig` leave, which go through the knobs one by one. For
`RowsFaithful`, the columns are those of the knobs in the order of the walk (`ColumnsExist`), so the place where an ID is first met is where its cells
were counted to.

`ModuleMatches` has two parts. Of usable settings `MetadataSays` shows that a loop's metadata says what they say, and every loop is in the group of
a top-level one (`TopsCover`), so each is adjusted. For the groups of the function, the sectioned loops from a loop down are its spine, and a spine
of two or more begins at a loop unless the loop above continues into it (`Begins`). What `AnalyzeSections` finds at a loop lists each spine that begins in that loop's
group exactly once (`FoundLists`, upwards from the leaves): the spine of the loop itself, if it is long enough, and what is found below where the walk
down stopped, whose groups lie side by side (`KidsApart`). The walk over the knob set joins what is found at the top-level loops, in any order (`TransformsList`). The
spines that begin somewhere are the maximal nests, each the one of its first loop (`SpineIsNest`, `NestIsSpine`), so there are as many groups as nests
(`ListedNests`). Since a job starts from a fresh copy of the module, what it makes matches its configuration whatever
the last one was (`JobMatches`).

`JitProofs` proves five properties for every program, every list of calls and any number of entries and versions.

* `EntryServesKey` is not inductive, since it says nothing of the entries that did not serve last: `JInv` adds their shape (`EntriesShape`)
  and says of the last call (`LastServed`) what `Tune` cannot disturb. Equality looks at no value of a knob, so a turned context makes the
  same requests (`TurnedSame`); the entry that a lookup finds is one of the same request, and a new one is made only where
  none is found.
* `TypesAgree`: `EntriesMirror` says that the context of an entry has a forwarded argument exactly where its call has a placeholder, of
  that number, which no turned knob changes; the first parameter of each is then the same one at compile time and at run time.
* `CallsBindAlike` from `CInv`: an entry's version was made for its call (`EntriesSound`) from a context of which every turned knob is in its
  range, and no pass but the one that fills in the operands touches them, whatever is linked (`LinksAllKeeps`). That a bool keeps the
  parity of its number and nothing more is `WrapKeepsParity`.
* `ResolvesOriginals` from `RInv`, which adds `VersionsCode`: every reference in the code of a version comes from the bitcode of some
  unit, every definition is a version under the name of its target or an object under its own name, and what is bound is bound by name. Linking
  keeps all three (`LinksSound`), in any order and number, with modules of versions that were linked themselves. That an extracted module
  refers only to what it keeps or declares (`Referenced`) is the closure that `GetReferencedFromEntry` computes (`Saturates`). What
  is left is resolution: a name of one unit's local variable has that unit's suffix, and every other name is defined once.
* `FindsBitcode` from `TrackerSound` (the constructors that have run registered what the plugin collected in their units) and a fact about
  the plugin's own search: what it traces from an argument of `jit()` is closed under taking the next step (`TracedWhole`, again by `Saturates`, over the
  values of the unit, each loaded and stored), so it has the end of every way that starts there, of any length (`FlowTraced`). That a
  method overrides one that the function calls makes it one of those that the plugin adds (`CollectedMethod`). Which way a call's function takes
  to `jit()` is part of the program (`flow`); the property is about the calls that have one.

`ResultsProofs` proves `KeepsBestModel` from `Learned` (the kept iteration is one of those evaluated, with the smallest
error), and `HeldOutApart`, for every held-out share and number of configurations, from `Listed`: the list is always a permutation of the
versions, so two numbers of rows that add up to its length, which a lemma about the rounding of `ValidateRows` gives, hold
each version once. Of Welch's test it proves that it prefers at most one of two results (`NeverBothBetter`) and that it is transitive
(`BetterIsTransitive`): the difference of the means grows by more than the root of the summed variances may. With that, one pass that compares with
the best so far suffices (`BestUnbeaten`), and where the test decides every pair, sorting by a comparison that is no strict weak order
is right all the same (`ReportOrdered`). `BestForecastFirst` follows from `Batched`, kept by each row of the pool: erasing the wrong element of the batch can only
lose elements after the new one, so the first stays the smallest of all rows looked at. That proof found `Picked` written with two cases
that overlapped; it now has the order of the code's branches.

`Recursion` has what the proofs about loops share: induction over a set instead of a predicate (`UpTo`), the function that a recursive definition over
1..n denotes (`RoundsExist`), or one over the nodes of a tree, which is defined by what is below (`Computed`, with induction from the leaves and from
the roots, `FromBelow` and `FromAbove`), sequences joined one after another (`Flattened`) and what they list once each (`Lists`), and a closure that is complete after as many rounds as there
are elements (`Saturates`). That is how loops and folds of the model are proved about although the library's induction theorems, which take
a predicate as a parameter, cannot be used.

The assumptions are those on the constants, which TLC evaluates in the runs: `OptimizerAssumption`, `DriverAssumption`, `BatchAssumption`, `KindsAssumption`,
`FeedbackAssumption`, `BufAssumption`, `LoopAssumption`, `KnobAssumption` (the knobs are finitely many, with IDs of their own; a walk of the set meets each once; the loops form trees, each in one other at most and one level deeper),
`ResultsAssumption`, `HalfAssumption` (the range of an integral type divides that of `int64_t`; no other type is integral), `ProgramAssumption` (the program links: what a unit
refers to is its own or is defined somewhere, its graph of values is finite, and the slots of a virtual table hold functions), `CallsAssumption` (a call binds to each parameter what `set_param()` has an overload for), and `VirtualAssumption` (C++'s rules for a virtual call: the method in the slot has the type that the call loads, but for the receiver); further that the
entry is impatient, and that a `RecentExecutionTime` has one updater, where a theorem says so. Model-checked only
are the liveness properties (`ChainEnds`, `DestructorReturns`, `AnsweredOrSlowJob`, `CallReturns`), out of the prover's reach.

## Not modelled, and the plan

Left out: what LLVM's own passes and code generator do to a function, libdispatch itself (serial
queues are taken to be serial), the xgboost model, the rounding of `double`, the formatting of statistics and logs. One caller thread is assumed, as
`Tuner.h` 84 and the driver's unlocked map demand; for the same reason what `exportStats()` may read while a
job appends to the list is not modelled: it is undefined, and no property could say more. The two kinds of feedback for which
`createFeedback()` throws (`Feedback.cpp` 134) are left out. A cache with keys of the user's own does
what the user says.

What remains: the report and the training with a list that changes during them, if the code comes to say what they may see.
