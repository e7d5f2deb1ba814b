------------------------------ MODULE Optimizer ------------------------------
(***************************************************************************)
(* tuner::Optimizer, the concurrent JIT pipeline of one function.          *)
(*                                                                         *)
(* Three actors share one object.  The client thread calls recompile(),    *)
(* status() and the destructor.  optimizeQ_ and codegenQ_ are serial       *)
(* dispatch queues, each run by one worker: a job of optimizeQ_ asks the   *)
(* tuner for a configuration and optimizes the IR, a job of codegenQ_      *)
(* compiles it and adds the result to the list recompileDone_.  A chain of *)
(* jobs starts in recompile() and prolongs itself while the tuner says so; *)
(* recompileActive_ tells whether a chain is under way.                    *)
(*                                                                         *)
(* A version is the number of the getNextConfig() call it comes from.      *)
(***************************************************************************)
EXTENDS Naturals, Sequences

CONSTANTS
  CompileAhead, \* DEFAULT_COMPILE_AHEAD: the yes answers a tuner gives in a row
  Bailout,      \* COMPILE_JOB_BAILOUT_MS, counted in polls of one millisecond
  MaxRequests,  \* bound on the calls of recompile()
  Impatient     \* the client asks status() first and never recompiles on Working

ASSUME OptimizerAssumption ==
  /\ CompileAhead \in Nat
  /\ Bailout \in Nat
  /\ MaxRequests \in Nat
  /\ Impatient \in BOOLEAN

VARIABLES
  \* members of the object
  recompileDone,   \* the compiled versions nobody took yet, oldest first
  doneQueueEmpty,  \* atomic flag of the members, read by status() alone
  recompileActive, \* atomic flag: a chain of jobs is under way
  ahead,           \* the tuner's count of consecutive yes answers
  made,            \* configurations generated so far
  \* optimizeQ_ and its worker
  optimizeQ,       \* number of optimize tasks waiting (they are all alike)
  optPC, optVer, optEnd,
  \* codegenQ_ and its worker
  codegenQ,        \* the OptimizeResult records waiting, oldest first
  cgPC, cgJob,
  \* the client thread
  pc, requests, waitIters,
  seen,            \* what the last status() answered
  taken            \* the version the last recompile() returned

list     == <<recompileDone, doneQueueEmpty>>
optimize == <<optimizeQ, optPC, optVer, optEnd, ahead, made>>
codegen  == <<codegenQ, cgPC, cgJob>>
client   == <<pc, requests, waitIters, seen, taken>>
vars     == <<list, recompileActive, optimize, codegen, client>>

Version == Nat \ {0}
Job     == [ver : Version, end : BOOLEAN]
NoJob   == [ver |-> 1, end |-> FALSE]

TypeOK ==
  /\ recompileDone \in Seq(Version)
  /\ doneQueueEmpty \in BOOLEAN
  /\ recompileActive \in BOOLEAN
  /\ ahead \in 0..CompileAhead
  /\ made \in Nat
  /\ optimizeQ \in Nat
  /\ optPC \in {"idle", "run", "dispatch"}
  /\ optVer \in Version
  /\ optEnd \in BOOLEAN
  /\ codegenQ \in Seq(Job)
  /\ cgPC \in {"idle", "compile", "flag", "finish"}
  /\ cgJob \in Job
  /\ pc \in {"idle", "status", "check", "activate", "dispatch", "wait",
             "flush", "destroyed", "aborted"}
  /\ requests \in 0..MaxRequests
  /\ waitIters \in 0..Bailout
  /\ seen \in {"none", "Empty", "Working", "Ready"}
  /\ taken \in Nat

Init ==
  /\ recompileDone = <<>> /\ doneQueueEmpty = TRUE /\ recompileActive = FALSE
  /\ ahead = 0 /\ made = 0
  /\ optimizeQ = 0 /\ optPC = "idle" /\ optVer = 1 /\ optEnd = FALSE
  /\ codegenQ = <<>> /\ cgPC = "idle" /\ cgJob = NoJob
  /\ pc = "idle" /\ requests = 0 /\ waitIters = 0 /\ seen = "none" /\ taken = 0

\* The process is still there.
Running == pc # "aborted"

-----------------------------------------------------------------------------
(* Seeded faults.  No action uses them: each stands for a plausible mistake  *)
(* in the definition it names, and some property must notice it.             *)

\* PopResult, without the update of the flag.
PopKeepsFlag ==
  /\ recompileDone # <<>>
  /\ taken' = Head(recompileDone)
  /\ recompileDone' = Tail(recompileDone)
  /\ UNCHANGED doneQueueEmpty

\* StatusReadActive, which takes a chain under way for an idle pipeline.
StatusIgnoresActive ==
  /\ pc = "status"
  /\ seen' = "Empty"
  /\ pc' = "idle"
  /\ UNCHANGED <<list, recompileActive, optimize, codegen,
                 requests, waitIters, taken>>

\* CheckActive, which starts a chain whether or not one is under way.
StartsAnyway ==
  /\ pc = "check"
  /\ pc' = "activate"
  /\ UNCHANGED <<list, recompileActive, optimize, codegen,
                 requests, waitIters, seen, taken>>

\* Flushed, which does not wait for the end of the chain.
FlushedAtOnce ==
  /\ pc = "flush"
  /\ pc' = "destroyed"
  /\ recompileDone' = <<>>
  /\ UNCHANGED <<doneQueueEmpty, recompileActive, optimize, codegen,
                 requests, waitIters, seen, taken>>

\* OptimizeAsk, which never marks the end of the chain.
NeverTheEnd(more) ==
  /\ Running /\ optPC = "run"
  /\ ahead' = IF more THEN ahead + 1 ELSE 0
  /\ more => ahead < CompileAhead
  /\ optimizeQ' = IF more THEN optimizeQ + 1 ELSE optimizeQ
  /\ optEnd' = FALSE
  /\ optPC' = "dispatch"
  /\ UNCHANGED <<list, recompileActive, optVer, made, codegen, client>>

\* OptimizeDispatch, ahead of the jobs that already wait.
DispatchFirst ==
  /\ Running /\ optPC = "dispatch"
  /\ codegenQ' = <<[ver |-> optVer, end |-> optEnd]>> \o codegenQ
  /\ optPC' = "idle"
  /\ UNCHANGED <<list, recompileActive, optimizeQ, optVer, optEnd, ahead, made,
                 cgPC, cgJob, client>>

\* AddClearsFlag, without its write.
AddForgetsFlag ==
  /\ Running /\ cgPC = "flag"
  /\ cgPC' = "finish"
  /\ UNCHANGED <<list, recompileActive, optimize, codegenQ, cgJob, client>>

\* CodegenFinish, for which every job is the last.
EveryJobEnds ==
  /\ Running /\ cgPC = "finish"
  /\ recompileActive' = FALSE
  /\ cgPC' = "idle"
  /\ UNCHANGED <<list, optimize, codegenQ, cgJob, client>>

\* CodegenFinish, for which a chain lasts until its versions are taken.
EndsWhenTaken ==
  /\ Running /\ cgPC = "finish"
  /\ recompileActive' = (recompileActive /\ ~(cgJob.end /\ recompileDone = <<>>))
  /\ cgPC' = "idle"
  /\ UNCHANGED <<list, optimize, codegenQ, cgJob, client>>

-----------------------------------------------------------------------------
(* The list.  mutate_recompileDone_ is a serial queue used as a lock: only a *)
(* codegen job between its two writes can keep the client out.               *)

ListFree == cgPC # "flag"

\* obtain_callback on a list that holds a result.
PopResult ==
  /\ recompileDone # <<>>
  /\ taken' = Head(recompileDone)
  /\ recompileDone' = Tail(recompileDone)
  /\ doneQueueEmpty' = (Tail(recompileDone) = <<>>)

\* obtain_callback on an empty list.
NoResult ==
  /\ recompileDone = <<>>
  /\ doneQueueEmpty' = TRUE
  /\ UNCHANGED <<recompileDone, taken>>

-----------------------------------------------------------------------------
(* The client thread: status().                                             *)

\* The first of the two unsynchronized reads.  Any client may ask; some never do.
StatusReadEmpty ==
  /\ pc = "idle" /\ requests > 0
  /\ IF doneQueueEmpty
       THEN pc' = "status" /\ UNCHANGED seen
       ELSE seen' = "Ready" /\ UNCHANGED pc
  /\ UNCHANGED <<list, recompileActive, optimize, codegen,
                 requests, waitIters, taken>>

\* The second read, some time later.
StatusReadActive ==
  /\ pc = "status"
  /\ seen' = IF recompileActive THEN "Working" ELSE "Empty"
  /\ pc' = "idle"
  /\ UNCHANGED <<list, recompileActive, optimize, codegen,
                 requests, waitIters, taken>>

(* The client thread: recompile().                                          *)

MayRecompile ==
  /\ pc = "idle"
  /\ requests < MaxRequests
  /\ Impatient /\ requests > 0 => seen \in {"Empty", "Ready"}

\* The call and its first look at the list.
Recompile ==
  /\ MayRecompile
  /\ ListFree
  /\ requests' = requests + 1
  /\ seen' = "none"
  /\ waitIters' = 0
  /\ \/ PopResult /\ UNCHANGED pc
     \/ NoResult /\ pc' = "check"
  /\ UNCHANGED <<recompileActive, optimize, codegen>>

\* if (recompileActive_ == false)
CheckActive ==
  /\ pc = "check"
  /\ pc' = IF recompileActive THEN "wait" ELSE "activate"
  /\ UNCHANGED <<list, recompileActive, optimize, codegen,
                 requests, waitIters, seen, taken>>

\* recompileActive_ = true
SetActive ==
  /\ pc = "activate"
  /\ recompileActive' = TRUE
  /\ pc' = "dispatch"
  /\ UNCHANGED <<list, optimize, codegen, requests, waitIters, seen, taken>>

\* dispatch_async_f(optimizeQ_, this, optimizeTask)
StartChain ==
  /\ pc = "dispatch"
  /\ optimizeQ' = optimizeQ + 1
  /\ pc' = "wait"
  /\ UNCHANGED <<list, recompileActive, optPC, optVer, optEnd, ahead, made,
                 codegen, requests, waitIters, seen, taken>>

\* One turn of the waiting loop: sleep, then look at the list again.
WaitPoll ==
  /\ pc = "wait"
  /\ waitIters < Bailout
  /\ ListFree
  /\ waitIters' = waitIters + 1
  /\ \/ PopResult /\ pc' = "idle"
     \/ NoResult /\ UNCHANGED pc
  /\ UNCHANGED <<recompileActive, optimize, codegen, requests, seen>>

\* The bailout: std::abort() ends the process, every worker with it.
Abort ==
  /\ pc = "wait"
  /\ waitIters >= Bailout
  /\ pc' = "aborted"
  /\ UNCHANGED <<list, recompileActive, optimize, codegen,
                 requests, waitIters, seen, taken>>

(* The client thread: ~Optimizer().                                         *)

Destroy ==
  /\ pc = "idle"
  /\ pc' = "flush"
  /\ UNCHANGED <<list, recompileActive, optimize, codegen,
                 requests, waitIters, seen, taken>>

\* The loop on recompileActive_ ends: the tuner, the queues and the list go.
Flushed ==
  /\ pc = "flush"
  /\ ~recompileActive
  /\ pc' = "destroyed"
  /\ recompileDone' = <<>>
  /\ UNCHANGED <<doneQueueEmpty, recompileActive, optimize, codegen,
                 requests, waitIters, seen, taken>>

-----------------------------------------------------------------------------
(* The worker of optimizeQ_: optimize_callback().                           *)

\* The task leaves the queue; analyze(), getNextConfig() and applyConfig().
OptimizeStart ==
  /\ Running /\ optPC = "idle" /\ optimizeQ > 0
  /\ optimizeQ' = optimizeQ - 1
  /\ made' = made + 1
  /\ optVer' = made + 1
  /\ optPC' = "run"
  /\ UNCHANGED <<list, recompileActive, optEnd, ahead, codegen, client>>

\* What every tuner guarantees: at most CompileAhead yes answers in a row.
ShouldCompileNext(more) ==
  /\ more => ahead < CompileAhead
  /\ ahead' = IF more THEN ahead + 1 ELSE 0

\* The IR is optimized; the tuner says whether the chain goes on.
OptimizeAsk(more) ==
  /\ Running /\ optPC = "run"
  /\ ShouldCompileNext(more)
  /\ optimizeQ' = IF more THEN optimizeQ + 1 ELSE optimizeQ
  /\ optEnd' = ~more
  /\ optPC' = "dispatch"
  /\ UNCHANGED <<list, recompileActive, optVer, made, codegen, client>>

\* dispatch_async_f(codegenQ_, OR, codegenTask)
OptimizeDispatch ==
  /\ Running /\ optPC = "dispatch"
  /\ codegenQ' = Append(codegenQ, [ver |-> optVer, end |-> optEnd])
  /\ optPC' = "idle"
  /\ UNCHANGED <<list, recompileActive, optimizeQ, optVer, optEnd, ahead, made,
                 cgPC, cgJob, client>>

(* The worker of codegenQ_: codegen_callback().                             *)

CodegenStart ==
  /\ Running /\ cgPC = "idle" /\ codegenQ # <<>>
  /\ cgJob' = Head(codegenQ)
  /\ codegenQ' = Tail(codegenQ)
  /\ cgPC' = "compile"
  /\ UNCHANGED <<list, recompileActive, optimize, client>>

\* addToList_callback, first write; the list stays locked.
AddToList ==
  /\ Running /\ cgPC = "compile"
  /\ recompileDone' = Append(recompileDone, cgJob.ver)
  /\ cgPC' = "flag"
  /\ UNCHANGED <<doneQueueEmpty, recompileActive, optimize, codegenQ, cgJob, client>>

\* addToList_callback, second write; the list is free again.
AddClearsFlag ==
  /\ Running /\ cgPC = "flag"
  /\ doneQueueEmpty' = FALSE
  /\ cgPC' = "finish"
  /\ UNCHANGED <<recompileDone, recompileActive, optimize, codegenQ, cgJob, client>>

\* if (OR->End) recompileActive_ = false
CodegenFinish ==
  /\ Running /\ cgPC = "finish"
  /\ recompileActive' = (recompileActive /\ ~cgJob.end)
  /\ cgPC' = "idle"
  /\ UNCHANGED <<list, optimize, codegenQ, cgJob, client>>

-----------------------------------------------------------------------------
ClientStep ==
  \/ StatusReadEmpty \/ StatusReadActive
  \/ Recompile \/ CheckActive \/ SetActive \/ StartChain \/ WaitPoll \/ Abort
  \/ Destroy \/ Flushed

OptimizeStep == OptimizeStart \/ (\E more \in BOOLEAN : OptimizeAsk(more)) \/ OptimizeDispatch

CodegenStep == CodegenStart \/ AddToList \/ AddClearsFlag \/ CodegenFinish

\* The object, or the whole process, is gone.
Terminated == pc \in {"destroyed", "aborted"} /\ UNCHANGED vars

Next == ClientStep \/ OptimizeStep \/ CodegenStep \/ Terminated

Spec == Init /\ [][Next]_vars

\* The dispatch workers always run their next job, a thread inside a call goes on.
\* Nothing makes the client call again.
Fairness ==
  /\ WF_vars(OptimizeStep)
  /\ WF_vars(CodegenStep)
  /\ WF_vars(pc # "idle" /\ ClientStep)

FairSpec == Spec /\ Fairness

-----------------------------------------------------------------------------
(* Correctness.                                                             *)

JobExists == optimizeQ > 0 \/ optPC # "idle" \/ codegenQ # <<>> \/ cgPC # "idle"

\* Optimizer.cpp 137-156, 181-183 and 508-509.  When recompileActive_ is false no
\* job is left on either queue, so the destructor may free what the jobs use and
\* a second chain may start; when it is true, some job will set it to false.
ActiveMeansJobs == recompileActive <=> (JobExists \/ pc = "dispatch")

\* Optimizer.cpp 308-331: away from the codegen job's critical section the atomic
\* flag that status() reads agrees with the list.
FlagAgrees == ListFree /\ pc # "destroyed" => doneQueueEmpty = (recompileDone = <<>>)

\* The versions under way, oldest first.
Pipeline ==
  recompileDone
  \o (IF cgPC = "compile" THEN <<cgJob.ver>> ELSE <<>>)
  \o [i \in 1..Len(codegenQ) |-> codegenQ[i].ver]
  \o (IF optPC # "idle" THEN <<optVer>> ELSE <<>>)

\* Optimizer.cpp 277-331 and 475-499: whatever the interleaving, the pipeline holds
\* exactly the versions generated and not yet taken, each once, in the order of
\* generation.
InOrder == pc # "destroyed" => Pipeline = [i \in 1..(made - taken) |-> taken + i]

\* The versions nobody took yet, wherever they are.
Backlog == made - taken

\* How many a chain makes, and two of them for a client that may overlap them.
Limit == IF Impatient THEN CompileAhead + 1 ELSE 2 * (CompileAhead + 1)

\* Optimizer.cpp 347-397: how many versions nobody took can pile up.  A client that
\* found the list empty just before the end of a chain starts a second chain beside
\* the rest of the first.
BacklogBounded == pc # "destroyed" => Backlog <= Limit

\* driver.h 170-177 with Optimizer.cpp 333-341: the answer Ready is never wrong for
\* the only client of the object, although it is given without synchronization.
ReadyIsReady == pc = "idle" /\ seen = "Ready" => recompileDone # <<>>

\* Optimizer.cpp 366-386: a client in the waiting loop waits for something, a job
\* under way or a result on the list.
WaitHasSource == pc = "wait" => (JobExists \/ recompileDone # <<>>)

\* driver.h 170-177: a client that never recompiles on Working waits for a result
\* that is coming, and never waits for the rest of an earlier chain.
NoStrandedWait == Impatient => WaitHasSource

\* Optimizer.cpp 370-378: "A compile job took too long": the process is only ended
\* because of a job that has not finished, or has just done so.
AbortMeansSlowJob == pc = "aborted" => (JobExists \/ recompileDone # <<>>)

\* Optimizer.cpp 457-475 and 508-509: a chain always comes to its end.
ChainEnds == recompileActive ~> (~recompileActive \/ pc = "aborted")

\* Optimizer.cpp 137-145: the destructor's loop ends.
DestructorReturns == pc = "flush" ~> pc = "destroyed"

\* Optimizer.cpp 366-386: a waiting client is answered, unless a compile job outlasts
\* the bailout.
AnsweredOrSlowJob ==
  pc = "wait" ~> (pc = "idle" \/ (pc = "aborted" /\ (JobExists \/ recompileDone # <<>>)))

-----------------------------------------------------------------------------
(* The inductive invariant behind the properties above.                     *)

B2N(b) == IF b THEN 1 ELSE 0

Compiling == B2N(cgPC = "compile")
Optimizing == B2N(optPC # "idle")

\* The chain may still go on: a task waits, or the tuner was not yet asked.
HeadOpen == optimizeQ = 1 \/ optPC = "run"

\* One chain at a time, and only its very last job carries the end mark.
ChainShape ==
  /\ optimizeQ \in {0, 1}
  /\ optPC = "run" => optimizeQ = 0
  /\ optPC = "dispatch" => (optEnd <=> optimizeQ = 0)
  /\ ~HeadOpen => ahead = 0
  /\ \A i \in 1..Len(codegenQ) :
        codegenQ[i].end <=> (i = Len(codegenQ) /\ ~HeadOpen /\ optPC = "idle")
  /\ cgPC # "idle" =>
        (cgJob.end <=> (codegenQ = <<>> /\ ~HeadOpen /\ optPC = "idle"))
  /\ pc \in {"activate", "dispatch", "destroyed"} => ~JobExists

\* The numbers at each station of the pipeline, from the oldest to the newest.
Numbered ==
  pc # "destroyed" =>
    /\ made = taken + Len(recompileDone) + Compiling + Len(codegenQ) + Optimizing
    /\ \A i \in 1..Len(recompileDone) : recompileDone[i] = taken + i
    /\ cgPC = "compile" => cgJob.ver = taken + Len(recompileDone) + 1
    /\ \A i \in 1..Len(codegenQ) :
          codegenQ[i].ver = taken + Len(recompileDone) + Compiling + i
    /\ optPC # "idle" => optVer = made

\* The versions the chain under way may still generate.
Potential ==
  IF optimizeQ = 1 THEN CompileAhead - ahead + 1
  ELSE IF optPC = "run" THEN CompileAhead - ahead ELSE 0

InFlight == Compiling + Len(codegenQ) + Optimizing + Potential

\* No interleaving makes more than one chain's worth of work in flight; a client
\* about to start a chain leaves at most one other chain's worth behind.
PotentialBounded ==
  /\ InFlight <= CompileAhead + 1
  /\ pc # "destroyed" =>
       /\ Len(recompileDone) + InFlight <= Limit
       /\ pc \in {"check", "activate", "dispatch"} =>
             Len(recompileDone) + InFlight <= CompileAhead + 1

\* Nothing is generated before the first call, which returns some version.
CallsMean ==
  /\ requests = 0 => ~JobExists
  /\ requests > 0 /\ pc \in {"idle", "status", "flush"} => taken > 0

\* What a flag or an answer of status() still says about the list later on.
SeenMeans ==
  /\ pc # "destroyed" /\ (~doneQueueEmpty \/ cgPC = "flag") => recompileDone # <<>>
  /\ pc \in {"check", "activate", "dispatch", "wait"} => seen = "none" /\ requests > 0
  /\ pc \in {"idle", "status"} /\ seen = "Ready" => recompileDone # <<>>

\* A version is ready, or some job has yet to generate or to add one.
ResultComing ==
  recompileDone # <<>> \/ cgPC = "compile" \/ codegenQ # <<>> \/ optPC # "idle" \/ optimizeQ > 0

\* Where the impatient client finds the pipeline when it acts on the answer.
ImpatientMeans ==
  Impatient =>
    /\ pc \in {"idle", "status"} /\ seen = "Empty" => ~JobExists
    /\ pc \in {"check", "activate", "dispatch"} => ~JobExists /\ recompileDone = <<>>
    /\ pc = "wait" => ResultComing

\* optimizer.h 85-95 with Optimizer.cpp 277-480: the queues, the flags, the end marks
\* and the numbers of the versions fit together at every step; the properties above
\* follow from it.
IInv ==
  /\ TypeOK
  /\ ActiveMeansJobs
  /\ FlagAgrees
  /\ ChainShape
  /\ Numbered
  /\ PotentialBounded
  /\ CallsMean
  /\ SeenMeans
  /\ ImpatientMeans

-----------------------------------------------------------------------------
(* The pipeline implements the service its client counts on.                *)

\* What the client is doing, as the service sees it.
Phase ==
  CASE pc \in {"idle", "status"} -> "open"
    [] pc \in {"check", "activate", "dispatch", "wait"} -> "asked"
    [] pc = "flush" -> "closing"
    [] OTHER -> "closed"

Service == INSTANCE CompileService WITH phase <- Phase

\* optimizer.h 64-147 as its client sees it: versions are handed over in the order of
\* their generation, each once, with a bounded number of them made ahead of time, and
\* nothing is generated for nobody.
ImplementsService == Service!Spec
=============================================================================
