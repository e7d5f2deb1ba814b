------------------------------- MODULE Driver -------------------------------
(***************************************************************************)
(* tuner::ATDriver::reoptimize() for one function and context, on top of   *)
(* the Optimizer of that entry.                                            *)
(*                                                                         *)
(* An entry keeps compiled versions in three slots: Trial is the one being *)
(* evaluated, Best is the winner so far, Others are the evaluated ones     *)
(* that lost against the best of their time.  A call hands the caller a    *)
(* reference to the slot Trial or to the slot Best; between two calls the  *)
(* caller runs what it was handed, which feeds the measurements.           *)
(*                                                                         *)
(* Measurements are abstracted to what the driver asks of them: whether    *)
(* the trial was run often enough to be judged, which versions are         *)
(* deployed for longer than the threshold, and whether one version is      *)
(* better than another, which may come out either way.  A tuner may ask    *)
(* for a configuration again: versions of one configuration share their    *)
(* feedback.                                                               *)
(***************************************************************************)
EXTENDS Optimizer, SequencesExt

CONSTANTS
  GoodCalls,  \* DEFAULT_MIN_TRIALS + 1: runs a trial needs to be judged
  Registered  \* the function's bitcode is registered: initialize() succeeds

ASSUME DriverAssumption ==
  /\ GoodCalls \in Nat \ {0}
  /\ Registered \in BOOLEAN

VARIABLES
  dpc,       \* where the call of reoptimize() is; "out" between calls
  known,     \* the entry is in DriverState_
  noop,      \* isNoopTuner_ of its optimizer
  trial,     \* the version in the slot Trial, 0 when it is empty
  best,      \* the version in the slot Best, 0 when it is empty
  others,    \* the versions in Others
  calls,     \* how often the trial was run
  deployed,  \* versions whose deployed time has reached the threshold
  handed     \* the slot the last call handed out

slots      == <<trial, best, others>>
measured   == <<calls, deployed>>
driver     == <<dpc, known, noop, slots, measured, handed>>
driverVars == <<vars, driver>>

Slots == ({trial, best} \ {0}) \cup ToSet(others)

DriverTypeOK ==
  /\ dpc \in {"out", "status", "second", "experiment", "recompile", "waiting",
              "best", "assert", "gone"}
  /\ known \in BOOLEAN /\ noop \in BOOLEAN
  /\ trial \in Nat /\ best \in Nat /\ others \in Seq(Version)
  /\ calls \in 0..GoodCalls
  /\ deployed \in SUBSET Version
  /\ handed \in {"none", "trial", "best"}

DriverInit ==
  /\ Init
  /\ dpc = "out" /\ known = FALSE /\ noop = FALSE
  /\ trial = 0 /\ best = 0 /\ others = <<>>
  /\ calls = 0 /\ deployed = {} /\ handed = "none"

-----------------------------------------------------------------------------
(* Seeded faults, for the properties to notice; no action uses them.         *)

\* Promote, without erasing the slot Trial: a moved-from wrapper is not empty.
PromoteKeepsTrial ==
  /\ \/ best' = trial /\ UNCHANGED others
     \/ best # 0 /\ others' = Append(others, trial) /\ UNCHANGED best
  /\ calls' = 0
  /\ UNCHANGED <<trial, deployed>>

\* Promote, which puts a trial away before there is a best.
PromoteRejectsFirst ==
  /\ trial' = 0 /\ calls' = 0
  /\ \/ best' = trial /\ UNCHANGED others
     \/ others' = Append(others, trial) /\ UNCHANGED best
  /\ UNCHANGED deployed

\* Decision, for which every tuner has something to try.
AlwaysExperiments == IF Impatient THEN "status" ELSE "experiment"

\* Decide, which looks at the deployed time alone.
IgnoresWorking(answer) == IF best \notin deployed THEN "best" ELSE "experiment"

\* Swap, which drops the best it replaces.
SwapDrops ==
  \/ UNCHANGED <<best, others, deployed>>
  \/ \E i \in 1..Len(others) :
       /\ best' = others[i]
       /\ others' = SelectSeq(others, LAMBDA v : v # others[i])
       /\ UNCHANGED deployed

-----------------------------------------------------------------------------
(* The caller, between two calls.                                           *)

\* A run of version v, and with it of the slots that share its feedback.
Deploy(v) ==
  \/ UNCHANGED deployed
  \/ \E same \in SUBSET Slots : deployed' = deployed \cup {v} \cup same

\* It runs the version it was handed, which adds to that version's feedback.
Use ==
  /\ dpc = "out"
  /\ \/ /\ handed = "trial" /\ trial # 0
        /\ calls' = IF calls < GoodCalls THEN calls + 1 ELSE calls
        /\ Deploy(trial)
     \/ /\ handed = "best" /\ best # 0
        /\ Deploy(best)
        /\ UNCHANGED calls
  /\ UNCHANGED <<vars, dpc, known, noop, slots, handed>>

-----------------------------------------------------------------------------
(* One call of reoptimize().                                                *)

Enters ==
  /\ dpc = "out"
  /\ requests < MaxRequests
  /\ handed' = "none"

\* Not in the cache: the entry is made, then initialize() may throw.
Submit ==
  /\ Enters /\ ~known
  /\ known' = TRUE
  /\ IF Registered
       THEN noop' \in BOOLEAN /\ dpc' = "recompile"
       ELSE UNCHANGED <<noop, dpc>>
  /\ UNCHANGED <<vars, slots, measured>>

\* The trial is not evaluated yet: it goes out again.
KeepTrial ==
  /\ dpc = "out" /\ known /\ requests < MaxRequests
  /\ trial # 0
  /\ handed' = "trial"
  /\ UNCHANGED <<vars, dpc, known, noop, slots, measured>>

\* Where a call goes when there is no trial: to status() if it is impatient.
Decision == IF noop THEN "best" ELSE IF Impatient THEN "status" ELSE "experiment"

\* The better of trial and best stays; a best that loses is freed.
Promote ==
  /\ trial' = 0
  /\ calls' = 0
  /\ \/ /\ best' = trial
        /\ deployed' = deployed \ {best}
        /\ UNCHANGED others
     \/ /\ best # 0
        /\ others' = Append(others, trial)
        /\ UNCHANGED <<best, deployed>>

\* goodQuality(): enough runs, and a small error or not.
JudgeTrial ==
  /\ Enters /\ known
  /\ trial # 0 /\ calls = GoodCalls
  /\ Promote
  /\ dpc' = Decision
  /\ UNCHANGED <<vars, known, noop>>

\* No trial: the call relies on a best version, and asserts that there is one.
NoTrial ==
  /\ Enters /\ known
  /\ trial = 0
  /\ dpc' = IF best = 0 THEN "assert" ELSE Decision
  /\ UNCHANGED <<vars, known, noop, slots, measured>>

\* What an impatient call does with the answer of status().
Decide(answer) ==
  IF answer = "Working" \/ best \notin deployed THEN "best" ELSE "experiment"

AskStatus ==
  /\ dpc = "status" /\ StatusReadEmpty
  /\ dpc' = IF doneQueueEmpty THEN "second" ELSE Decide("Ready")
  /\ UNCHANGED <<known, noop, slots, measured, handed>>

AskStatusAgain ==
  /\ dpc = "second" /\ StatusReadActive
  /\ dpc' = Decide(seen')
  /\ UNCHANGED <<known, noop, slots, measured, handed>>

\* Best's deployed time restarts, and a higher threshold holds for all.
Experiment ==
  /\ dpc = "experiment"
  /\ deployed' \in SUBSET (deployed \ {best})
  /\ dpc' = "recompile"
  /\ UNCHANGED <<vars, known, noop, slots, calls, handed>>

Call ==
  /\ dpc = "recompile" /\ Recompile
  /\ dpc' = "waiting"
  /\ UNCHANGED <<known, noop, slots, measured, handed>>

InCall ==
  /\ dpc = "waiting"
  /\ CheckActive \/ SetActive \/ StartChain \/ WaitPoll \/ Abort
  /\ UNCHANGED driver

\* Trial = jit_with_optimizer(...), and the reference to Trial is returned.  Its feedback
\* is new, or that of a version judged before.
Return ==
  /\ dpc = "waiting" /\ pc = "idle"
  /\ trial' = taken
  /\ calls' \in {0, GoodCalls}
  /\ deployed' \in {deployed, deployed \cup {taken}}
  /\ handed' = "trial"
  /\ dpc' = "out"
  /\ UNCHANGED <<vars, known, noop, best, others>>

\* The fast experiment: the last of the others that beats the best replaces it; which
\* one that is, if any, depends on the measurements.
Swap ==
  \/ UNCHANGED <<best, others, deployed>>
  \/ \E i \in 1..Len(others) :
       /\ best' = others[i]
       /\ others' = [others EXCEPT ![i] = best]
       /\ \E same \in SUBSET Slots : deployed' = deployed \ ({others[i]} \cup same)

ReturnBest ==
  /\ dpc = "best"
  /\ IF best \in deployed THEN Swap ELSE UNCHANGED <<best, others, deployed>>
  /\ handed' = "best"
  /\ dpc' = "out"
  /\ UNCHANGED <<vars, known, noop, trial, calls>>

-----------------------------------------------------------------------------
(* ~ATDriver(): the slots go first, then the optimizer.                     *)

Quit ==
  /\ dpc = "out" /\ known /\ Destroy
  /\ dpc' = "gone" /\ handed' = "none"
  /\ trial' = 0 /\ best' = 0 /\ others' = <<>>
  /\ calls' = 0 /\ deployed' = {}
  /\ UNCHANGED <<known, noop>>

QuitReturns ==
  /\ dpc = "gone" /\ Flushed
  /\ UNCHANGED driver

\* assert(!Best.isEmpty() && "logic error!") ends the process, and so does abort().
Over ==
  /\ dpc = "assert" \/ pc \in {"aborted", "destroyed"}
  /\ UNCHANGED driverVars

-----------------------------------------------------------------------------
CallStep ==
  \/ JudgeTrial \/ NoTrial \/ AskStatus \/ AskStatusAgain \/ Experiment
  \/ Call \/ InCall \/ Return \/ ReturnBest \/ QuitReturns

\* The NoOpTuner answers shouldCompileNext() with no, the others with either.
OptimizeJob ==
  /\ \/ OptimizeStart \/ OptimizeDispatch
     \/ \E more \in BOOLEAN : (noop => ~more) /\ OptimizeAsk(more)
  /\ UNCHANGED driver

CodegenJob == CodegenStep /\ UNCHANGED driver

DriverNext ==
  Use \/ Submit \/ KeepTrial \/ CallStep \/ OptimizeJob \/ CodegenJob \/ Quit \/ Over

DriverSpec == DriverInit /\ [][DriverNext]_driverVars

\* The workers run their jobs and a call goes on; nobody has to call again.
DriverFairness ==
  /\ WF_driverVars(OptimizeJob)
  /\ WF_driverVars(CodegenJob)
  /\ WF_driverVars(dpc # "out" /\ CallStep)

FairDriverSpec == DriverSpec /\ DriverFairness

-----------------------------------------------------------------------------
(* Correctness.                                                             *)

\* driver.h 140-152 and 222-228: moving wrappers between the slots never leaves one
\* version in two of them, and the trial is the version compiled last.
SlotsApart ==
  /\ trial \in {0, taken} /\ best <= taken
  /\ trial # 0 => trial # best
  /\ \A i \in 1..Len(others) : others[i] <= taken /\ others[i] \notin {trial, best}
  /\ \A i, j \in 1..Len(others) : others[i] = others[j] => i = j

\* driver.h 158-161 and 234: the caller's reference is to a slot that holds a compiled
\* version, and goes on doing so until the next call.
HandedHolds ==
  /\ dpc = "out" /\ handed = "trial" => trial # 0
  /\ dpc = "out" /\ handed = "best" => best # 0

\* driver.h 140-152 and 222-228: an evaluated version is given up only when a trial
\* beats the best, and then it is that best.
OnlyBeatenLeave ==
  [][\A v \in Slots : v \notin Slots' => dpc' = "gone" \/ (v = best /\ best' = trial)]_driverVars

\* driver.h 170-189 with Optimizer.cpp 333-364: the driver is the client the optimizer
\* is made for: an impatient one calls recompile() only on an answer other than Working.
KeepsProtocol == dpc = "recompile" => MayRecompile

\* driver.h 167-168: an entry without a tuner compiles its function once, however often
\* it is asked for.
NoopCompilesOnce == noop => requests <= 1 /\ made <= 1

\* driver.h 170-189 with BayesianTuner.h 421-427: when an impatient entry starts a chain,
\* every version generated before was handed over and judged, so the tuner may learn
\* from all of them.
JudgedBeforeChain == Impatient /\ pc = "dispatch" => made = taken /\ trial = 0

\* driver.h 101-236: a call returns, and so does the destructor, unless a compile job
\* outlasts the bailout.
CallReturns ==
  dpc # "out" ~>
    \/ dpc = "out" \/ pc = "destroyed"
    \/ pc = "aborted" /\ (JobExists \/ recompileDone # <<>>)

\* driver.h 161: the assertion "logic error!" does not fail.
NoLogicError == dpc # "assert"

\* driver.h 131-161 with Optimizer.cpp 192: it fails for no function whose bitcode is
\* registered.
AssertHolds == Registered => NoLogicError

-----------------------------------------------------------------------------
(* The inductive invariant behind the properties above.                     *)

\* Where the two programs are at the same time.
CallShape ==
  /\ dpc = "second" <=> pc = "status"
  /\ dpc \in {"out", "status", "experiment", "recompile", "best", "assert"} => pc = "idle"
  /\ dpc = "waiting" =>
       pc \in {"idle", "check", "activate", "dispatch", "wait", "aborted"}
  /\ dpc = "gone" => pc \in {"flush", "destroyed"}
  /\ dpc \in {"status", "second"} => Impatient
  /\ dpc \in {"status", "second", "experiment", "recompile"} => requests < MaxRequests
  /\ dpc = "experiment" /\ Impatient => seen \in {"Empty", "Ready"}

\* Which slots are filled.
SlotShape ==
  /\ ~known => requests = 0 /\ dpc = "out" /\ best = 0 /\ handed = "none"
  /\ dpc \in {"status", "second", "experiment", "best"} => best # 0
  /\ dpc \notin {"out"} => trial = 0
  /\ others # <<>> => best # 0
  /\ trial = 0 /\ best = 0 /\ dpc \notin {"waiting", "gone"} => requests = 0
  /\ requests = 0 /\ Registered /\ known => dpc = "recompile"
  /\ requests = 0 => made = 0 /\ taken = 0

\* A version that recompile() has just handed over is in no slot.
Fresh ==
  dpc = "waiting" /\ pc = "idle" =>
    /\ taken > best /\ requests > 0
    /\ \A i \in 1..Len(others) : taken > others[i]

\* The only chain of an entry without a tuner.
NoopShape ==
  noop =>
    /\ requests <= 1 /\ made + optimizeQ <= 1
    /\ dpc \notin {"status", "second", "experiment"}
    /\ dpc = "recompile" => requests = 0
    /\ pc \in {"check", "activate", "dispatch"} => made = 0 /\ optimizeQ = 0
    /\ optPC = "run" => optimizeQ = 0

\* driver.h 101-236: the slots, the call under way and the optimizer's client thread
\* fit together at every step.
DInv ==
  /\ DriverTypeOK
  /\ CallShape
  /\ SlotShape
  /\ SlotsApart
  /\ HandedHolds
  /\ KeepsProtocol
  /\ Fresh
  /\ NoopShape
  /\ AssertHolds
=============================================================================
