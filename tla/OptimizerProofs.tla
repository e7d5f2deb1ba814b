--------------------------- MODULE OptimizerProofs ---------------------------
(***************************************************************************)
(* Theorems about Optimizer, for every compile-ahead depth, bailout and    *)
(* number of requests, and for both kinds of client; and that it           *)
(* implements CompileService.                                              *)
(***************************************************************************)
EXTENDS Optimizer, SequenceTheorems, TLAPS

-----------------------------------------------------------------------------
(* What the operations on the list and on the queue do.                     *)

\* obtain_callback takes the oldest version and shifts the others.
LEMMA PopEffect ==
  ASSUME recompileDone \in Seq(Version), PopResult
  PROVE  /\ recompileDone' \in Seq(Version)
         /\ taken' \in Version
         /\ taken' = recompileDone[1]
         /\ Len(recompileDone) \in Nat \ {0}
         /\ Len(recompileDone') = Len(recompileDone) - 1
         /\ \A i \in 1..Len(recompileDone') : recompileDone'[i] = recompileDone[i + 1]
         /\ recompileDone # <<>>
         /\ recompileDone' = <<>> <=> Len(recompileDone) = 1
         /\ doneQueueEmpty' \in BOOLEAN
         /\ doneQueueEmpty' <=> recompileDone' = <<>>
<1>1. recompileDone # <<>> /\ recompileDone' = Tail(recompileDone)
  BY DEF PopResult
<1>2. /\ recompileDone' \in Seq(Version)
      /\ Len(recompileDone') = Len(recompileDone) - 1
      /\ \A i \in 1..Len(recompileDone') : recompileDone'[i] = recompileDone[i + 1]
  BY <1>1, HeadTailProperties
<1>3. taken' \in Version
  BY <1>1, HeadTailProperties DEF PopResult
<1>4. taken' = recompileDone[1]
  BY DEF PopResult
<1>5. Len(recompileDone) \in Nat \ {0}
  BY <1>1, EmptySeq
<1>6. doneQueueEmpty' \in BOOLEAN /\ (doneQueueEmpty' <=> recompileDone' = <<>>)
  BY Zenon DEF PopResult
<1>7. recompileDone' = <<>> <=> Len(recompileDone) = 1
  BY <1>2, <1>5, EmptySeq
<1>8. QED BY <1>1, <1>2, <1>3, <1>4, <1>5, <1>6, <1>7

\* addToList_callback puts the version at the end.
LEMMA AddEffect ==
  ASSUME recompileDone \in Seq(Version), cgJob \in Job, AddToList
  PROVE  /\ recompileDone' \in Seq(Version)
         /\ recompileDone' # <<>>
         /\ Len(recompileDone') = Len(recompileDone) + 1
         /\ Len(recompileDone) \in Nat
         /\ \A i \in 1..Len(recompileDone) : recompileDone'[i] = recompileDone[i]
         /\ recompileDone'[Len(recompileDone) + 1] = cgJob.ver
<1>1. cgJob.ver \in Version
  BY DEF Job
<1>2. recompileDone' = Append(recompileDone, cgJob.ver)
  BY DEF AddToList
<1>3. Len(recompileDone) \in Nat
  BY LenProperties
<1>4. QED BY <1>1, <1>2, <1>3, AppendProperties

\* A codegen job is queued behind the others.
LEMMA DispatchEffect ==
  ASSUME codegenQ \in Seq(Job), optVer \in Version, optEnd \in BOOLEAN, OptimizeDispatch
  PROVE  /\ codegenQ' \in Seq(Job)
         /\ codegenQ' # <<>>
         /\ Len(codegenQ') = Len(codegenQ) + 1
         /\ Len(codegenQ) \in Nat
         /\ \A i \in 1..Len(codegenQ) : codegenQ'[i] = codegenQ[i]
         /\ codegenQ'[Len(codegenQ) + 1].ver = optVer
         /\ codegenQ'[Len(codegenQ) + 1].end = optEnd
<1> DEFINE J == [ver |-> optVer, end |-> optEnd]
<1>1. J \in Job /\ J.ver = optVer /\ J.end = optEnd
  BY DEF Job
<1>2. codegenQ' = Append(codegenQ, J)
  BY DEF OptimizeDispatch
<1>3. Len(codegenQ) \in Nat
  BY LenProperties
<1> HIDE DEF J
<1>4. QED BY <1>1, <1>2, <1>3, AppendProperties

\* The worker of codegenQ_ takes the oldest job.
LEMMA CodegenEffect ==
  ASSUME codegenQ \in Seq(Job), CodegenStart
  PROVE  /\ codegenQ' \in Seq(Job)
         /\ cgJob' \in Job
         /\ cgJob' = codegenQ[1]
         /\ codegenQ # <<>>
         /\ Len(codegenQ) \in Nat \ {0}
         /\ Len(codegenQ') = Len(codegenQ) - 1
         /\ codegenQ' = <<>> <=> Len(codegenQ) = 1
         /\ \A i \in 1..Len(codegenQ') : codegenQ'[i] = codegenQ[i + 1]
<1>1. codegenQ # <<>> /\ codegenQ' = Tail(codegenQ) /\ cgJob' = Head(codegenQ)
  BY DEF CodegenStart
<1>2. /\ codegenQ' \in Seq(Job) /\ cgJob' \in Job
      /\ Len(codegenQ') = Len(codegenQ) - 1
      /\ \A i \in 1..Len(codegenQ') : codegenQ'[i] = codegenQ[i + 1]
  BY <1>1, HeadTailProperties
<1>3. Len(codegenQ) \in Nat \ {0}
  BY <1>1, EmptySeq
<1>4. codegenQ' = <<>> <=> Len(codegenQ) = 1
  BY <1>2, <1>3, EmptySeq
<1>5. QED BY <1>1, <1>2, <1>3, <1>4

-----------------------------------------------------------------------------
(* Types.                                                                   *)

LEMMA TypeInit == Init => TypeOK
<1> SUFFICES ASSUME Init PROVE TypeOK
  OBVIOUS
<1>1. /\ recompileDone \in Seq(Version) /\ codegenQ \in Seq(Job)
  BY DEF Init
<1>2. /\ cgJob \in Job /\ optVer \in Version
  BY DEF Init, NoJob, Job, Version
<1>3. /\ ahead \in 0..CompileAhead /\ requests \in 0..MaxRequests
      /\ waitIters \in 0..Bailout
  BY OptimizerAssumption DEF Init
<1>4. QED BY <1>1, <1>2, <1>3 DEF Init, TypeOK

LEMMA TypeStep == TypeOK /\ [Next]_vars => TypeOK'
<1> SUFFICES ASSUME TypeOK, [Next]_vars PROVE TypeOK'
  OBVIOUS
<1> USE OptimizerAssumption DEF TypeOK, list, optimize, codegen, client
<1>1. CASE StatusReadEmpty BY <1>1 DEF StatusReadEmpty
<1>2. CASE StatusReadActive BY <1>2 DEF StatusReadActive
<1>3. CASE Recompile
  <2>1. CASE PopResult
    BY <1>3, <2>1, PopEffect DEF Recompile, MayRecompile, Version
  <2>2. CASE NoResult
    BY <1>3, <2>2 DEF Recompile, MayRecompile, NoResult
  <2>3. QED BY <1>3, <2>1, <2>2 DEF Recompile
<1>4. CASE CheckActive BY <1>4 DEF CheckActive
<1>5. CASE SetActive BY <1>5 DEF SetActive
<1>6. CASE StartChain BY <1>6 DEF StartChain
<1>7. CASE WaitPoll
  <2>1. CASE PopResult
    BY <1>7, <2>1, PopEffect DEF WaitPoll, Version
  <2>2. CASE NoResult
    BY <1>7, <2>2 DEF WaitPoll, NoResult
  <2>3. QED BY <1>7, <2>1, <2>2 DEF WaitPoll
<1>8. CASE Abort BY <1>8 DEF Abort
<1>9. CASE Destroy BY <1>9 DEF Destroy
<1>10. CASE Flushed BY <1>10 DEF Flushed
<1>11. CASE OptimizeStart BY <1>11 DEF OptimizeStart, Version
<1>12. ASSUME NEW more \in BOOLEAN, OptimizeAsk(more) PROVE TypeOK'
  BY <1>12 DEF OptimizeAsk, ShouldCompileNext
<1>13. CASE OptimizeDispatch BY <1>13, DispatchEffect DEF OptimizeDispatch
<1>14. CASE CodegenStart BY <1>14, CodegenEffect DEF CodegenStart
<1>15. CASE AddToList BY <1>15, AddEffect DEF AddToList
<1>16. CASE AddClearsFlag BY <1>16 DEF AddClearsFlag
<1>17. CASE CodegenFinish BY <1>17 DEF CodegenFinish
<1>18. CASE Terminated BY <1>18 DEF Terminated, vars
<1>19. CASE UNCHANGED vars BY <1>19 DEF vars
<1>20. QED
  BY <1>1, <1>2, <1>3, <1>4, <1>5, <1>6, <1>7, <1>8, <1>9, <1>10, <1>11, <1>12,
     <1>13, <1>14, <1>15, <1>16, <1>17, <1>18, <1>19
  DEF Next, ClientStep, OptimizeStep, CodegenStep

-----------------------------------------------------------------------------
(* The inductive invariant, one lemma for each of its parts.                *)

LEMMA ActiveStep ==
  ASSUME TypeOK, ActiveMeansJobs, ChainShape, [Next]_vars
  PROVE  ActiveMeansJobs'
<1> USE DEF TypeOK, ActiveMeansJobs, JobExists, list, optimize, codegen, client
<1>1. CASE StatusReadEmpty BY <1>1 DEF StatusReadEmpty
<1>2. CASE StatusReadActive BY <1>2 DEF StatusReadActive
<1>3. CASE Recompile BY <1>3 DEF Recompile, MayRecompile
<1>4. CASE CheckActive BY <1>4 DEF CheckActive
<1>5. CASE SetActive BY <1>5 DEF SetActive
<1>6. CASE StartChain BY <1>6 DEF StartChain
<1>7. CASE WaitPoll BY <1>7 DEF WaitPoll
<1>8. CASE Abort BY <1>8 DEF Abort
<1>9. CASE Destroy BY <1>9 DEF Destroy
<1>10. CASE Flushed BY <1>10 DEF Flushed
<1>11. CASE OptimizeStart BY <1>11 DEF OptimizeStart
<1>12. ASSUME NEW more \in BOOLEAN, OptimizeAsk(more) PROVE ActiveMeansJobs'
  BY <1>12 DEF OptimizeAsk
<1>13. CASE OptimizeDispatch BY <1>13, DispatchEffect DEF OptimizeDispatch
<1>14. CASE CodegenStart BY <1>14 DEF CodegenStart
<1>15. CASE AddToList BY <1>15 DEF AddToList
<1>16. CASE AddClearsFlag BY <1>16 DEF AddClearsFlag
<1>17. CASE CodegenFinish
  \* Only the last job of a chain carries the end mark.
  <2>1. /\ cgPC = "finish" /\ cgPC' = "idle"
        /\ recompileActive' = (recompileActive /\ ~cgJob.end)
        /\ UNCHANGED <<optimizeQ, optPC, codegenQ, pc>>
    BY <1>17 DEF CodegenFinish
  <2>2. recompileActive = TRUE /\ pc # "dispatch"
    BY <2>1 DEF ChainShape
  <2>3. cgJob.end <=> (codegenQ = <<>> /\ ~HeadOpen /\ optPC = "idle")
    BY <2>1 DEF ChainShape
  <2>4. ~HeadOpen /\ optPC = "idle" => optimizeQ = 0
    BY DEF ChainShape, HeadOpen
  <2>5. HeadOpen => optimizeQ > 0 \/ optPC # "idle"
    BY DEF HeadOpen
  <2>6. CASE cgJob.end
    <3>1. ~recompileActive'
      BY <2>1, <2>6
    <3>2. codegenQ' = <<>> /\ optimizeQ' = 0 /\ optPC' = "idle" /\ pc' # "dispatch"
      BY <2>1, <2>2, <2>3, <2>4, <2>6
    <3>3. QED BY <2>1, <3>1, <3>2
  <2>7. CASE ~cgJob.end
    BY <2>1, <2>2, <2>3, <2>5, <2>7
  <2>8. QED BY <2>6, <2>7
<1>18. CASE Terminated BY <1>18 DEF Terminated, vars
<1>19. CASE UNCHANGED vars BY <1>19 DEF vars
<1>20. QED
  BY <1>1, <1>2, <1>3, <1>4, <1>5, <1>6, <1>7, <1>8, <1>9, <1>10, <1>11, <1>12,
     <1>13, <1>14, <1>15, <1>16, <1>17, <1>18, <1>19
  DEF Next, ClientStep, OptimizeStep, CodegenStep

LEMMA FlagStep ==
  ASSUME TypeOK, ActiveMeansJobs, FlagAgrees, SeenMeans, [Next]_vars
  PROVE  FlagAgrees'
<1> USE DEF TypeOK, FlagAgrees, ListFree, list, optimize, codegen, client
<1>1. CASE StatusReadEmpty BY <1>1 DEF StatusReadEmpty
<1>2. CASE StatusReadActive BY <1>2 DEF StatusReadActive
<1>3. CASE Recompile
  <2>1. CASE PopResult BY <1>3, <2>1, PopEffect DEF Recompile, MayRecompile
  <2>2. CASE NoResult BY <1>3, <2>2 DEF Recompile, NoResult
  <2>3. QED BY <1>3, <2>1, <2>2 DEF Recompile
<1>4. CASE CheckActive BY <1>4 DEF CheckActive
<1>5. CASE SetActive BY <1>5 DEF SetActive
<1>6. CASE StartChain BY <1>6 DEF StartChain
<1>7. CASE WaitPoll
  <2>1. CASE PopResult BY <1>7, <2>1, PopEffect DEF WaitPoll
  <2>2. CASE NoResult BY <1>7, <2>2 DEF WaitPoll, NoResult
  <2>3. QED BY <1>7, <2>1, <2>2 DEF WaitPoll
<1>8. CASE Abort BY <1>8 DEF Abort
<1>9. CASE Destroy BY <1>9 DEF Destroy
<1>10. CASE Flushed BY <1>10 DEF Flushed
<1>11. CASE OptimizeStart BY <1>11 DEF OptimizeStart
<1>12. ASSUME NEW more \in BOOLEAN, OptimizeAsk(more) PROVE FlagAgrees'
  BY <1>12 DEF OptimizeAsk
<1>13. CASE OptimizeDispatch BY <1>13 DEF OptimizeDispatch
<1>14. CASE CodegenStart BY <1>14 DEF CodegenStart
<1>15. CASE AddToList BY <1>15 DEF AddToList
<1>16. CASE AddClearsFlag BY <1>16 DEF AddClearsFlag, SeenMeans
<1>17. CASE CodegenFinish BY <1>17 DEF CodegenFinish
<1>18. CASE Terminated BY <1>18 DEF Terminated, vars
<1>19. CASE UNCHANGED vars BY <1>19 DEF vars
<1>20. QED
  BY <1>1, <1>2, <1>3, <1>4, <1>5, <1>6, <1>7, <1>8, <1>9, <1>10, <1>11, <1>12,
     <1>13, <1>14, <1>15, <1>16, <1>17, <1>18, <1>19
  DEF Next, ClientStep, OptimizeStep, CodegenStep

LEMMA ShapeStep ==
  ASSUME TypeOK, ActiveMeansJobs, ChainShape, [Next]_vars
  PROVE  ChainShape'
<1> USE OptimizerAssumption
    DEF TypeOK, ActiveMeansJobs, ChainShape, JobExists, HeadOpen,
        list, optimize, codegen, client
<1>1. CASE StatusReadEmpty BY <1>1 DEF StatusReadEmpty
<1>2. CASE StatusReadActive BY <1>2 DEF StatusReadActive
<1>3. CASE Recompile BY <1>3 DEF Recompile, MayRecompile
<1>4. CASE CheckActive BY <1>4 DEF CheckActive
<1>5. CASE SetActive BY <1>5 DEF SetActive
<1>6. CASE StartChain BY <1>6, EmptySeq DEF StartChain
<1>7. CASE WaitPoll BY <1>7 DEF WaitPoll
<1>8. CASE Abort BY <1>8 DEF Abort
<1>9. CASE Destroy BY <1>9 DEF Destroy
<1>10. CASE Flushed BY <1>10 DEF Flushed
<1>11. CASE OptimizeStart BY <1>11 DEF OptimizeStart
<1>12. ASSUME NEW more \in BOOLEAN, OptimizeAsk(more) PROVE ChainShape'
  <2>1. CASE more
    <3>1. /\ optPC = "run" /\ optPC' = "dispatch" /\ optimizeQ = 0 /\ optimizeQ' = 1
          /\ UNCHANGED <<codegenQ, cgPC, cgJob, pc>>
      BY <1>12, <2>1 DEF OptimizeAsk
    <3>2. ~optEnd'
      BY <1>12, <2>1 DEF OptimizeAsk
    <3>3. ~(pc' \in {"activate", "dispatch", "destroyed"})
      BY <3>1
    <3>4. \A i \in 1..Len(codegenQ) : ~codegenQ[i].end
      BY <3>1
    <3>5. cgPC # "idle" => ~cgJob.end
      BY <3>1
    <3>6. QED BY <3>1, <3>2, <3>3, <3>4, <3>5
  <2>2. CASE ~more
    BY <1>12, <2>2 DEF OptimizeAsk, ShouldCompileNext
  <2>3. QED BY <2>1, <2>2
<1>13. CASE OptimizeDispatch BY <1>13, DispatchEffect DEF OptimizeDispatch
<1>14. CASE CodegenStart
  <2>1. /\ cgPC = "idle" /\ UNCHANGED <<optimizeQ, optPC, optEnd, ahead, pc>>
    BY <1>14 DEF CodegenStart
  <2>2. cgJob'.end <=> (codegenQ' = <<>> /\ ~HeadOpen' /\ optPC' = "idle")
    BY <1>14, <2>1, CodegenEffect
  <2>3. \A i \in 1..Len(codegenQ') :
          codegenQ'[i].end <=> (i = Len(codegenQ') /\ ~HeadOpen' /\ optPC' = "idle")
    BY <1>14, <2>1, CodegenEffect
  <2>4. ~(pc' \in {"activate", "dispatch", "destroyed"})
    BY <1>14, <2>1, CodegenEffect
  <2>5. QED BY <2>1, <2>2, <2>3, <2>4
<1>15. CASE AddToList BY <1>15 DEF AddToList
<1>16. CASE AddClearsFlag BY <1>16 DEF AddClearsFlag
<1>17. CASE CodegenFinish BY <1>17 DEF CodegenFinish
<1>18. CASE Terminated BY <1>18 DEF Terminated, vars
<1>19. CASE UNCHANGED vars BY <1>19 DEF vars
<1>20. QED
  BY <1>1, <1>2, <1>3, <1>4, <1>5, <1>6, <1>7, <1>8, <1>9, <1>10, <1>11, <1>12,
     <1>13, <1>14, <1>15, <1>16, <1>17, <1>18, <1>19
  DEF Next, ClientStep, OptimizeStep, CodegenStep

\* The numbers of the stations are small naturals.
LEMMA CountTypes ==
  ASSUME TypeOK, ChainShape
  PROVE  /\ Len(recompileDone) \in Nat /\ Len(codegenQ) \in Nat
         /\ Compiling \in {0, 1} /\ Optimizing \in {0, 1}
         /\ Potential \in Nat /\ InFlight \in Nat
         /\ recompileDone = <<>> <=> Len(recompileDone) = 0
         /\ codegenQ = <<>> <=> Len(codegenQ) = 0
<1>1. Len(recompileDone) \in Nat /\ Len(codegenQ) \in Nat
  BY LenProperties DEF TypeOK
<1>2. Compiling \in {0, 1} /\ Optimizing \in {0, 1}
  BY DEF Compiling, Optimizing, B2N
<1>3. Potential \in Nat
  BY OptimizerAssumption DEF TypeOK, Potential
<1>4. InFlight \in Nat
  BY <1>1, <1>2, <1>3 DEF InFlight
<1>5. recompileDone = <<>> <=> Len(recompileDone) = 0
  BY EmptySeq DEF TypeOK
<1>6. codegenQ = <<>> <=> Len(codegenQ) = 0
  BY EmptySeq DEF TypeOK
<1>7. QED BY <1>1, <1>2, <1>3, <1>4, <1>5, <1>6

LEMMA NumberedStep ==
  ASSUME TypeOK, ActiveMeansJobs, ChainShape, Numbered, [Next]_vars
  PROVE  Numbered'
<1> USE DEF Numbered, list, optimize, codegen, client
<1>0. /\ Len(recompileDone) \in Nat /\ Len(codegenQ) \in Nat
      /\ Compiling \in {0, 1} /\ Optimizing \in {0, 1}
      /\ made \in Nat /\ taken \in Nat
      /\ recompileDone \in Seq(Version) /\ codegenQ \in Seq(Job)
      /\ optVer \in Version /\ optEnd \in BOOLEAN /\ cgJob \in Job
  BY CountTypes DEF TypeOK
<1>1. ASSUME UNCHANGED <<recompileDone, cgPC, cgJob, codegenQ, optPC, optVer, made, taken>>,
             pc' = "destroyed" <=> pc = "destroyed"
      PROVE  Numbered'
  <2>1. Compiling' = Compiling /\ Optimizing' = Optimizing
    BY <1>1 DEF Compiling, Optimizing
  <2>2. /\ recompileDone' = recompileDone /\ codegenQ' = codegenQ /\ made' = made
        /\ cgPC' = cgPC /\ cgJob' = cgJob /\ taken' = taken
        /\ optPC' = optPC /\ optVer' = optVer
    BY <1>1
  <2>3. CASE pc' = "destroyed"
    BY <2>3
  <2>4. CASE pc' # "destroyed"
    BY <1>1, <2>1, <2>2, <2>4
  <2>5. QED BY <2>3, <2>4
<1>2. ASSUME PopResult, UNCHANGED <<cgPC, cgJob, codegenQ, optPC, optVer, made>>,
             pc # "destroyed"
      PROVE  Numbered'
  <2>1. Compiling' = Compiling /\ Optimizing' = Optimizing
    BY <1>2 DEF Compiling, Optimizing
  <2>2. taken' = taken + 1 /\ Len(recompileDone') = Len(recompileDone) - 1
    BY <1>0, <1>2, PopEffect
  <2>3. \A i \in 1..Len(recompileDone') : recompileDone'[i] = taken' + i
    BY <1>0, <1>2, <2>2, PopEffect
  <2>4. QED BY <1>0, <1>2, <2>1, <2>2, <2>3
<1>3. CASE Recompile \/ WaitPoll
  <2>1. CASE PopResult
    BY <1>2, <1>3, <2>1 DEF Recompile, MayRecompile, WaitPoll
  <2>2. CASE NoResult
    BY <1>1, <1>3, <2>2 DEF Recompile, MayRecompile, WaitPoll, NoResult
  <2>3. QED BY <1>3, <2>1, <2>2 DEF Recompile, WaitPoll
<1>4. CASE \/ StatusReadEmpty \/ StatusReadActive \/ CheckActive \/ SetActive
           \/ StartChain \/ Abort \/ Destroy
  BY <1>1, <1>4
  DEF StatusReadEmpty, StatusReadActive, CheckActive, SetActive, StartChain, Abort, Destroy
<1>5. CASE Flushed BY <1>5 DEF Flushed
<1>6. CASE OptimizeStart
  <2>1. /\ optPC = "idle" /\ optPC' = "run" /\ made' = made + 1 /\ optVer' = made + 1
        /\ UNCHANGED <<recompileDone, codegenQ, cgPC, cgJob, taken, pc>>
    BY <1>6 DEF OptimizeStart
  <2>2. Compiling' = Compiling /\ Optimizing = 0 /\ Optimizing' = 1
    BY <2>1 DEF Compiling, Optimizing, B2N
  <2>3. QED BY <1>0, <2>1, <2>2
<1>7. ASSUME NEW more \in BOOLEAN, OptimizeAsk(more) PROVE Numbered'
  <2>1. /\ optPC = "run" /\ optPC' = "dispatch"
        /\ UNCHANGED <<recompileDone, codegenQ, cgPC, cgJob, optVer, made, taken, pc>>
    BY <1>7 DEF OptimizeAsk
  <2>2. Compiling' = Compiling /\ Optimizing' = Optimizing
    BY <2>1 DEF Compiling, Optimizing, B2N
  <2>3. QED BY <2>1, <2>2
<1>8. CASE OptimizeDispatch
  <2>1. /\ optPC = "dispatch" /\ optPC' = "idle"
        /\ UNCHANGED <<recompileDone, cgPC, cgJob, optVer, made, taken, pc>>
    BY <1>8 DEF OptimizeDispatch
  <2>2. Compiling' = Compiling /\ Optimizing = 1 /\ Optimizing' = 0
    BY <2>1 DEF Compiling, Optimizing, B2N
  <2>3. Len(codegenQ') = Len(codegenQ) + 1
    BY <1>0, <1>8, DispatchEffect
  <2>4. ASSUME pc # "destroyed", NEW i \in 1..Len(codegenQ')
        PROVE  codegenQ'[i].ver = taken + Len(recompileDone) + Compiling + i
    <3>1. CASE i \in 1..Len(codegenQ)
      BY <1>0, <1>8, <2>4, <3>1, DispatchEffect
    <3>2. CASE i = Len(codegenQ) + 1
      <4>1. codegenQ'[i].ver = optVer
        BY <1>0, <1>8, <3>2, DispatchEffect
      <4>2. QED BY <1>0, <2>1, <2>2, <2>4, <3>2, <4>1
    <3>3. QED BY <1>0, <2>3, <3>1, <3>2
  <2>5. QED BY <1>0, <2>1, <2>2, <2>3, <2>4
<1>9. CASE CodegenStart
  <2>1. /\ cgPC = "idle" /\ cgPC' = "compile"
        /\ UNCHANGED <<recompileDone, optPC, optVer, made, taken, pc>>
    BY <1>9 DEF CodegenStart
  <2>2. Compiling = 0 /\ Compiling' = 1 /\ Optimizing' = Optimizing
    BY <2>1 DEF Compiling, Optimizing, B2N
  <2>3. /\ Len(codegenQ') = Len(codegenQ) - 1 /\ Len(codegenQ) \in Nat \ {0}
        /\ cgJob' = codegenQ[1]
        /\ \A i \in 1..Len(codegenQ') : codegenQ'[i] = codegenQ[i + 1]
    BY <1>0, <1>9, CodegenEffect
  <2>4. ASSUME pc # "destroyed"
        PROVE  /\ made = taken + Len(recompileDone) + 1 + Len(codegenQ') + Optimizing
               /\ cgJob'.ver = taken + Len(recompileDone) + 1
               /\ \A i \in 1..Len(codegenQ') :
                     codegenQ'[i].ver = taken + Len(recompileDone) + 1 + i
    <3>1. 1 \in 1..Len(codegenQ)
      BY <2>3
    <3>2. made = taken + Len(recompileDone) + Len(codegenQ) + Optimizing
      BY <1>0, <2>2, <2>4
    <3>3. \A i \in 1..Len(codegenQ) : codegenQ[i].ver = taken + Len(recompileDone) + i
      BY <1>0, <2>2, <2>4
    <3>4. \A i \in 1..Len(codegenQ') : i + 1 \in 1..Len(codegenQ)
      BY <1>0, <2>3
    <3>5. made = taken + Len(recompileDone) + 1 + Len(codegenQ') + Optimizing
      BY <1>0, <2>3, <3>2
    <3>6. cgJob'.ver = taken + Len(recompileDone) + 1
      BY <2>3, <3>1, <3>3
    <3>7. ASSUME NEW i \in 1..Len(codegenQ')
          PROVE  codegenQ'[i].ver = taken + Len(recompileDone) + 1 + i
      <4>1. codegenQ'[i] = codegenQ[i + 1] /\ i + 1 \in 1..Len(codegenQ)
        BY <2>3, <3>4
      <4>2. codegenQ[i + 1].ver = taken + Len(recompileDone) + (i + 1)
        BY <3>3, <4>1
      <4>3. QED BY <1>0, <4>1, <4>2
    <3>8. QED BY <3>5, <3>6, <3>7
  <2>5. QED BY <1>0, <2>1, <2>2, <2>4
<1>10. CASE AddToList
  <2>1. /\ cgPC = "compile" /\ cgPC' = "flag"
        /\ UNCHANGED <<codegenQ, cgJob, optPC, optVer, made, taken, pc>>
    BY <1>10 DEF AddToList
  <2>2. Compiling = 1 /\ Compiling' = 0 /\ Optimizing' = Optimizing
    BY <2>1 DEF Compiling, Optimizing, B2N
  <2>3. Len(recompileDone') = Len(recompileDone) + 1
    BY <1>0, <1>10, AddEffect
  <2>4. ASSUME pc # "destroyed", NEW i \in 1..Len(recompileDone')
        PROVE  recompileDone'[i] = taken + i
    <3>1. CASE i \in 1..Len(recompileDone)
      BY <1>0, <1>10, <2>4, <3>1, AddEffect
    <3>2. CASE i = Len(recompileDone) + 1
      BY <1>0, <1>10, <2>1, <2>4, <3>2, AddEffect
    <3>3. QED BY <1>0, <2>3, <3>1, <3>2
  <2>5. QED BY <1>0, <2>1, <2>2, <2>3, <2>4
<1>11. CASE AddClearsFlag \/ CodegenFinish
  <2>1. /\ cgPC # "compile" /\ cgPC' # "compile"
        /\ UNCHANGED <<recompileDone, codegenQ, optPC, optVer, made, taken, pc>>
    BY <1>11 DEF AddClearsFlag, CodegenFinish
  <2>2. Compiling' = Compiling /\ Optimizing' = Optimizing
    BY <2>1 DEF Compiling, Optimizing, B2N
  <2>3. QED BY <2>1, <2>2
<1>12. CASE Terminated \/ UNCHANGED vars
  BY <1>1, <1>12 DEF Terminated, vars
<1>13. QED
  BY <1>3, <1>4, <1>5, <1>6, <1>7, <1>8, <1>9, <1>10, <1>11, <1>12
  DEF Next, ClientStep, OptimizeStep, CodegenStep

\* How one step moves the work in flight: it grows only when a chain starts, and
\* then nothing was in flight.
LEMMA InFlightStep ==
  ASSUME TypeOK, ChainShape, [Next]_vars
  PROVE  \/ /\ InFlight' \in Nat /\ Len(recompileDone') \in Nat
            /\ InFlight' <= InFlight
            /\ Len(recompileDone') + InFlight' <= Len(recompileDone) + InFlight
         \/ /\ StartChain
            /\ InFlight = 0 /\ InFlight' = CompileAhead + 1
<1> DEFINE Goal == /\ InFlight' \in Nat /\ Len(recompileDone') \in Nat
                   /\ InFlight' <= InFlight
                   /\ Len(recompileDone') + InFlight' <= Len(recompileDone) + InFlight
<1> USE DEF list, optimize, codegen, client
<1>0. /\ Len(recompileDone) \in Nat /\ Len(codegenQ) \in Nat
      /\ Compiling \in {0, 1} /\ Optimizing \in {0, 1} /\ Potential \in Nat
      /\ InFlight = Compiling + Len(codegenQ) + Optimizing + Potential
      /\ InFlight' = Compiling' + Len(codegenQ') + Optimizing' + Potential'
      /\ recompileDone \in Seq(Version) /\ codegenQ \in Seq(Job)
      /\ optVer \in Version /\ optEnd \in BOOLEAN /\ cgJob \in Job
      /\ CompileAhead \in Nat /\ ahead \in 0..CompileAhead
  BY CountTypes, OptimizerAssumption DEF TypeOK, InFlight
<1>1. ASSUME UNCHANGED <<optimizeQ, optPC, ahead, codegenQ, cgPC>>,
             Len(recompileDone') \in Nat, Len(recompileDone') <= Len(recompileDone)
      PROVE  Goal
  <2>1. /\ Compiling' = Compiling /\ Optimizing' = Optimizing
        /\ Potential' = Potential /\ Len(codegenQ') = Len(codegenQ)
    BY <1>1 DEF Compiling, Optimizing, Potential
  <2>2. QED BY <1>0, <1>1, <2>1
<1>2. CASE Recompile \/ WaitPoll
  <2>1. UNCHANGED <<optimizeQ, optPC, ahead, codegenQ, cgPC>>
    BY <1>2 DEF Recompile, WaitPoll
  <2>2. CASE PopResult BY <1>0, <1>1, <2>1, <2>2, PopEffect
  <2>3. CASE NoResult BY <1>0, <1>1, <2>1, <2>3 DEF NoResult
  <2>4. QED BY <1>2, <2>2, <2>3 DEF Recompile, WaitPoll
<1>3. CASE \/ StatusReadEmpty \/ StatusReadActive \/ CheckActive \/ SetActive
           \/ Abort \/ Destroy
  BY <1>0, <1>1, <1>3
  DEF StatusReadEmpty, StatusReadActive, CheckActive, SetActive, Abort, Destroy
<1>4. CASE Flushed
  <2>1. Len(recompileDone') = 0
    BY <1>4 DEF Flushed
  <2>2. QED BY <1>0, <1>1, <1>4, <2>1 DEF Flushed
<1>5. CASE StartChain
  <2>1. /\ optimizeQ = 0 /\ optPC = "idle" /\ codegenQ = <<>> /\ cgPC = "idle"
        /\ ahead = 0 /\ optimizeQ' = 1
        /\ UNCHANGED <<optPC, codegenQ, cgPC, ahead>>
    BY <1>5 DEF StartChain, ChainShape, JobExists, HeadOpen, TypeOK
  <2>2. /\ Compiling = 0 /\ Optimizing = 0 /\ Len(codegenQ) = 0 /\ Potential = 0
    BY <2>1 DEF Compiling, Optimizing, B2N, Potential
  <2>3. /\ Compiling' = 0 /\ Optimizing' = 0 /\ Len(codegenQ') = 0
        /\ Potential' = CompileAhead - 0 + 1
    BY <2>1 DEF Compiling, Optimizing, B2N, Potential
  <2>4. QED BY <1>0, <1>5, <2>2, <2>3
<1>6. CASE OptimizeStart
  <2>1. /\ optimizeQ = 1 /\ optimizeQ' = 0 /\ optPC = "idle" /\ optPC' = "run"
        /\ UNCHANGED <<recompileDone, codegenQ, cgPC, ahead>>
    BY <1>6 DEF OptimizeStart, ChainShape
  <2>2. /\ Compiling' = Compiling /\ Optimizing = 0 /\ Optimizing' = 1
        /\ Potential = CompileAhead - ahead + 1 /\ Potential' = CompileAhead - ahead
    BY <2>1 DEF Compiling, Optimizing, B2N, Potential
  <2>3. QED BY <1>0, <2>1, <2>2
<1>7. ASSUME NEW more \in BOOLEAN, OptimizeAsk(more) PROVE Goal
  <2>1. /\ optimizeQ = 0 /\ optPC = "run" /\ optPC' = "dispatch"
        /\ UNCHANGED <<recompileDone, codegenQ, cgPC>>
    BY <1>7 DEF OptimizeAsk, ChainShape
  <2>2. /\ Compiling' = Compiling /\ Optimizing' = Optimizing
        /\ Potential = CompileAhead - ahead
    BY <2>1 DEF Compiling, Optimizing, B2N, Potential
  <2>3. CASE more
    <3>1. optimizeQ' = 1 /\ ahead' = ahead + 1
      BY <1>7, <2>1, <2>3 DEF OptimizeAsk, ShouldCompileNext
    <3>2. Potential' = CompileAhead - (ahead + 1) + 1
      BY <3>1 DEF Potential
    <3>3. QED BY <1>0, <2>1, <2>2, <3>2
  <2>4. CASE ~more
    <3>1. optimizeQ' = 0
      BY <1>7, <2>1, <2>4 DEF OptimizeAsk
    <3>2. Potential' = 0
      BY <2>1, <3>1 DEF Potential
    <3>3. QED BY <1>0, <2>1, <2>2, <3>2
  <2>5. QED BY <2>3, <2>4
<1>8. CASE OptimizeDispatch
  <2>1. /\ optPC = "dispatch" /\ optPC' = "idle"
        /\ UNCHANGED <<recompileDone, cgPC, optimizeQ, ahead>>
    BY <1>8 DEF OptimizeDispatch
  <2>2. /\ Compiling' = Compiling /\ Optimizing = 1 /\ Optimizing' = 0
        /\ Potential' = Potential
    BY <2>1 DEF Compiling, Optimizing, B2N, Potential
  <2>3. Len(codegenQ') = Len(codegenQ) + 1
    BY <1>0, <1>8, DispatchEffect
  <2>4. QED BY <1>0, <2>1, <2>2, <2>3
<1>9. CASE CodegenStart
  <2>1. /\ cgPC = "idle" /\ cgPC' = "compile"
        /\ UNCHANGED <<recompileDone, optimizeQ, optPC, ahead>>
    BY <1>9 DEF CodegenStart
  <2>2. /\ Compiling = 0 /\ Compiling' = 1 /\ Optimizing' = Optimizing
        /\ Potential' = Potential
    BY <2>1 DEF Compiling, Optimizing, B2N, Potential
  <2>3. Len(codegenQ') = Len(codegenQ) - 1 /\ Len(codegenQ) \in Nat \ {0}
    BY <1>0, <1>9, CodegenEffect
  <2>4. QED BY <1>0, <2>1, <2>2, <2>3
<1>10. CASE AddToList
  <2>1. /\ cgPC = "compile" /\ cgPC' = "flag"
        /\ UNCHANGED <<codegenQ, optimizeQ, optPC, ahead>>
    BY <1>10 DEF AddToList
  <2>2. /\ Compiling = 1 /\ Compiling' = 0 /\ Optimizing' = Optimizing
        /\ Potential' = Potential
    BY <2>1 DEF Compiling, Optimizing, B2N, Potential
  <2>3. Len(recompileDone') = Len(recompileDone) + 1
    BY <1>0, <1>10, AddEffect
  <2>4. QED BY <1>0, <2>1, <2>2, <2>3
<1>11. CASE AddClearsFlag \/ CodegenFinish
  <2>1. /\ cgPC # "compile" /\ cgPC' # "compile"
        /\ UNCHANGED <<recompileDone, codegenQ, optimizeQ, optPC, ahead>>
    BY <1>11 DEF AddClearsFlag, CodegenFinish
  <2>2. /\ Compiling = 0 /\ Compiling' = 0 /\ Optimizing' = Optimizing
        /\ Potential' = Potential
    BY <2>1 DEF Compiling, Optimizing, B2N, Potential
  <2>3. QED BY <1>0, <2>1, <2>2
<1>12. CASE Terminated \/ UNCHANGED vars
  BY <1>0, <1>1, <1>12 DEF Terminated, vars
<1>13. QED
  BY <1>2, <1>3, <1>4, <1>5, <1>6, <1>7, <1>8, <1>9, <1>10, <1>11, <1>12
  DEF Next, ClientStep, OptimizeStep, CodegenStep

\* Where a step finds the client when it leaves it destroyed, or about to start a chain.
LEMMA ClientMoves ==
  ASSUME TypeOK, [Next]_vars
  PROVE  /\ pc = "destroyed" => pc' = "destroyed"
         /\ pc' \in {"check", "activate", "dispatch"} =>
              \/ pc \in {"check", "activate", "dispatch"}
              \/ Recompile /\ NoResult
         /\ pc' = "wait" =>
              \/ pc = "wait"
              \/ StartChain
              \/ CheckActive /\ recompileActive
<1> USE DEF list, optimize, codegen, client
<1>1. CASE ClientStep
  <2>1. CASE Recompile
    BY <2>1 DEF Recompile, MayRecompile
  <2>2. CASE CheckActive
    BY <2>2 DEF CheckActive
  <2>3. CASE WaitPoll
    BY <2>3 DEF WaitPoll
  <2>4. CASE StatusReadEmpty \/ StatusReadActive \/ SetActive \/ StartChain
    BY <2>4 DEF StatusReadEmpty, StatusReadActive, SetActive, StartChain
  <2>5. CASE Abort \/ Destroy \/ Flushed
    BY <2>5 DEF Abort, Destroy, Flushed
  <2>6. QED BY <1>1, <2>1, <2>2, <2>3, <2>4, <2>5 DEF ClientStep
<1>2. CASE OptimizeStep
  <2>1. pc' = pc
    BY <1>2 DEF OptimizeStep, OptimizeStart, OptimizeAsk, OptimizeDispatch
  <2>2. QED BY <2>1
<1>3. CASE CodegenStep
  <2>1. pc' = pc
    BY <1>3 DEF CodegenStep, CodegenStart, AddToList, AddClearsFlag, CodegenFinish
  <2>2. QED BY <2>1
<1>4. CASE Terminated \/ UNCHANGED vars
  BY <1>4 DEF Terminated, vars
<1>5. QED BY <1>1, <1>2, <1>3, <1>4 DEF Next

LEMMA PotentialStep ==
  ASSUME TypeOK, ChainShape, ImpatientMeans, PotentialBounded, [Next]_vars
  PROVE  PotentialBounded'
<1> DEFINE Chain == CompileAhead + 1
<1>0. /\ Len(recompileDone) \in Nat /\ InFlight \in Nat
      /\ Chain \in Nat /\ Impatient \in BOOLEAN
  BY CountTypes, OptimizerAssumption
<1>1. CASE /\ InFlight' \in Nat /\ Len(recompileDone') \in Nat
           /\ InFlight' <= InFlight
           /\ Len(recompileDone') + InFlight' <= Len(recompileDone) + InFlight
  <2>1. InFlight' <= Chain
    BY <1>0, <1>1 DEF PotentialBounded
  <2>2. ASSUME pc' # "destroyed"
        PROVE  Len(recompileDone') + InFlight' <= IF Impatient THEN Chain ELSE 2 * Chain
    <3>1. pc # "destroyed"
      BY <2>2, ClientMoves
    <3>2. QED BY <1>0, <1>1, <3>1 DEF PotentialBounded, Limit
  <2>3. ASSUME pc' \in {"check", "activate", "dispatch"}
        PROVE  Len(recompileDone') + InFlight' <= Chain
    <3>1. CASE pc \in {"check", "activate", "dispatch"}
      BY <1>0, <1>1, <3>1 DEF PotentialBounded, Limit
    <3>2. CASE Recompile /\ NoResult
      <4>1. Len(recompileDone') = 0
        BY <3>2 DEF NoResult
      <4>2. QED BY <1>0, <1>1, <2>1, <4>1
    <3>3. QED BY <2>3, <3>1, <3>2, ClientMoves
  <2>4. QED BY <2>1, <2>2, <2>3 DEF PotentialBounded, Limit
<1>2. CASE StartChain /\ InFlight = 0 /\ InFlight' = Chain
  <2>1. /\ pc = "dispatch" /\ pc' = "wait" /\ recompileDone' = recompileDone
    BY <1>2 DEF StartChain, list
  <2>2. Len(recompileDone) <= Chain
    BY <1>0, <1>2, <2>1 DEF PotentialBounded
  <2>3. Impatient => Len(recompileDone) = 0
    BY <2>1 DEF ImpatientMeans
  <2>4. QED BY <1>0, <1>2, <2>1, <2>2, <2>3 DEF PotentialBounded, Limit
<1>3. QED BY <1>1, <1>2, InFlightStep

LEMMA SeenStep ==
  ASSUME TypeOK, ActiveMeansJobs, FlagAgrees, SeenMeans, [Next]_vars
  PROVE  SeenMeans'
<1> USE DEF TypeOK, SeenMeans, list, optimize, codegen, client
<1>1. CASE StatusReadEmpty BY <1>1 DEF StatusReadEmpty
<1>2. CASE StatusReadActive BY <1>2 DEF StatusReadActive
<1>3. CASE Recompile
  <2>1. CASE PopResult BY <1>3, <2>1, PopEffect DEF Recompile, MayRecompile, ListFree
  <2>2. CASE NoResult BY <1>3, <2>2 DEF Recompile, MayRecompile, ListFree, NoResult
  <2>3. QED BY <1>3, <2>1, <2>2 DEF Recompile
<1>4. CASE CheckActive BY <1>4 DEF CheckActive
<1>5. CASE SetActive BY <1>5 DEF SetActive
<1>6. CASE StartChain BY <1>6 DEF StartChain
<1>7. CASE WaitPoll
  <2>1. CASE PopResult BY <1>7, <2>1, PopEffect DEF WaitPoll, ListFree
  <2>2. CASE NoResult BY <1>7, <2>2 DEF WaitPoll, ListFree, NoResult
  <2>3. QED BY <1>7, <2>1, <2>2 DEF WaitPoll
<1>8. CASE Abort BY <1>8 DEF Abort
<1>9. CASE Destroy BY <1>9 DEF Destroy
<1>10. CASE Flushed BY <1>10 DEF Flushed
<1>11. CASE OptimizeStart BY <1>11 DEF OptimizeStart
<1>12. ASSUME NEW more \in BOOLEAN, OptimizeAsk(more) PROVE SeenMeans'
  BY <1>12 DEF OptimizeAsk
<1>13. CASE OptimizeDispatch BY <1>13 DEF OptimizeDispatch
<1>14. CASE CodegenStart BY <1>14 DEF CodegenStart
<1>15. CASE AddToList
  <2>1. recompileDone' # <<>>
    BY <1>15, AddEffect
  <2>2. QED BY <1>15, <2>1 DEF AddToList
<1>16. CASE AddClearsFlag BY <1>16 DEF AddClearsFlag
<1>17. CASE CodegenFinish BY <1>17 DEF CodegenFinish
<1>18. CASE Terminated BY <1>18 DEF Terminated, vars
<1>19. CASE UNCHANGED vars BY <1>19 DEF vars
<1>20. QED
  BY <1>1, <1>2, <1>3, <1>4, <1>5, <1>6, <1>7, <1>8, <1>9, <1>10, <1>11, <1>12,
     <1>13, <1>14, <1>15, <1>16, <1>17, <1>18, <1>19
  DEF Next, ClientStep, OptimizeStep, CodegenStep

\* Without jobs, and without a client starting a chain, no job appears.
LEMMA NoJobsStay ==
  ASSUME TypeOK, ~JobExists, [Next]_vars, ~StartChain
  PROVE  ~JobExists' /\ (recompileDone = <<>> => recompileDone' = <<>>)
<1> USE DEF TypeOK, JobExists, list, optimize, codegen, client
<1>1. CASE Recompile \/ WaitPoll
  BY <1>1 DEF Recompile, WaitPoll, PopResult, NoResult
<1>2. CASE StatusReadEmpty \/ StatusReadActive \/ CheckActive \/ SetActive
  BY <1>2 DEF StatusReadEmpty, StatusReadActive, CheckActive, SetActive
<1>3. CASE Abort \/ Destroy \/ Flushed
  BY <1>3 DEF Abort, Destroy, Flushed
<1>4. CASE OptimizeStep
  BY <1>4 DEF OptimizeStep, OptimizeStart, OptimizeAsk, OptimizeDispatch
<1>5. CASE CodegenStep
  BY <1>5 DEF CodegenStep, CodegenStart, AddToList, AddClearsFlag, CodegenFinish
<1>6. CASE Terminated \/ UNCHANGED vars
  BY <1>6 DEF Terminated, vars
<1>7. QED BY <1>1, <1>2, <1>3, <1>4, <1>5, <1>6 DEF Next, ClientStep

LEMMA CallsStep ==
  ASSUME TypeOK, CallsMean, SeenMeans, [Next]_vars
  PROVE  CallsMean'
<1> USE DEF list, optimize, codegen, client
<1>1. ASSUME requests' = 0 PROVE ~JobExists'
  <2>1. requests = 0
    <3>1. CASE Recompile BY <1>1, <3>1 DEF Recompile, TypeOK
    <3>2. CASE StatusReadEmpty \/ StatusReadActive \/ CheckActive \/ SetActive \/ StartChain
      BY <1>1, <3>2 DEF StatusReadEmpty, StatusReadActive, CheckActive, SetActive, StartChain
    <3>3. CASE WaitPoll \/ Abort \/ Destroy \/ Flushed
      BY <1>1, <3>3 DEF WaitPoll, Abort, Destroy, Flushed
    <3>4. CASE OptimizeStep
      BY <1>1, <3>4 DEF OptimizeStep, OptimizeStart, OptimizeAsk, OptimizeDispatch
    <3>5. CASE CodegenStep
      BY <1>1, <3>5 DEF CodegenStep, CodegenStart, AddToList, AddClearsFlag, CodegenFinish
    <3>6. CASE Terminated \/ UNCHANGED vars BY <1>1, <3>6 DEF Terminated, vars
    <3>7. QED BY <3>1, <3>2, <3>3, <3>4, <3>5, <3>6 DEF Next, ClientStep
  <2>2. ~StartChain
    BY <2>1 DEF StartChain, SeenMeans
  <2>3. QED BY <2>1, <2>2, NoJobsStay DEF CallsMean
<1>2. ASSUME requests' > 0, pc' \in {"idle", "status", "flush"} PROVE taken' > 0
  <2>1. CASE PopResult
    <3>1. taken' \in Version
      BY <2>1, PopEffect DEF TypeOK
    <3>2. QED BY <3>1 DEF Version
  <2>2. CASE ~PopResult
    <3>1. taken' = taken /\ requests' = requests /\ pc \in {"idle", "status", "flush"}
      <4>1. CASE Recompile \/ WaitPoll
        BY <1>2, <2>2, <4>1 DEF Recompile, WaitPoll, NoResult
      <4>2. CASE StatusReadEmpty \/ StatusReadActive \/ CheckActive \/ SetActive \/ StartChain
        BY <1>2, <4>2 DEF StatusReadEmpty, StatusReadActive, CheckActive, SetActive, StartChain
      <4>3. CASE Abort \/ Destroy \/ Flushed
        BY <1>2, <4>3 DEF Abort, Destroy, Flushed
      <4>4. CASE OptimizeStep
        BY <1>2, <4>4 DEF OptimizeStep, OptimizeStart, OptimizeAsk, OptimizeDispatch
      <4>5. CASE CodegenStep
        BY <1>2, <4>5 DEF CodegenStep, CodegenStart, AddToList, AddClearsFlag, CodegenFinish
      <4>6. CASE Terminated \/ UNCHANGED vars BY <1>2, <4>6 DEF Terminated, vars
      <4>7. QED BY <4>1, <4>2, <4>3, <4>4, <4>5, <4>6 DEF Next, ClientStep
    <3>2. QED BY <1>2, <3>1 DEF CallsMean
  <2>3. QED BY <2>1, <2>2
<1>3. QED BY <1>1, <1>2 DEF CallsMean

LEMMA ImpatientStep ==
  ASSUME TypeOK, ActiveMeansJobs, CallsMean, SeenMeans, ImpatientMeans, [Next]_vars
  PROVE  ImpatientMeans'
<1> SUFFICES ASSUME Impatient
             PROVE  /\ pc' \in {"idle", "status"} /\ seen' = "Empty" => ~JobExists'
                    /\ pc' \in {"check", "activate", "dispatch"} =>
                          ~JobExists' /\ recompileDone' = <<>>
                    /\ pc' = "wait" => ResultComing'
  BY DEF ImpatientMeans
<1> USE DEF list, optimize, codegen, client
<1>1. ASSUME pc' \in {"idle", "status"}, seen' = "Empty" PROVE ~JobExists'
  <2>1. CASE StatusReadActive
    <3>1. ~recompileActive /\ UNCHANGED <<optimizeQ, optPC, codegenQ, cgPC>>
      BY <1>1, <2>1 DEF StatusReadActive
    <3>2. QED BY <3>1 DEF ActiveMeansJobs, JobExists
  <2>2. CASE ~StatusReadActive
    <3>1. pc \in {"idle", "status"} /\ seen = "Empty"
      <4>1. CASE StatusReadEmpty BY <1>1, <4>1 DEF StatusReadEmpty
      <4>2. CASE Recompile BY <1>1, <4>2 DEF Recompile
      <4>3. CASE CheckActive \/ SetActive \/ StartChain
        BY <1>1, <4>3 DEF CheckActive, SetActive, StartChain
      <4>4. CASE WaitPoll BY <1>1, <4>4 DEF WaitPoll, SeenMeans
      <4>5. CASE Abort \/ Destroy \/ Flushed
        BY <1>1, <4>5 DEF Abort, Destroy, Flushed
      <4>6. CASE OptimizeStep
        BY <1>1, <4>6 DEF OptimizeStep, OptimizeStart, OptimizeAsk, OptimizeDispatch
      <4>7. CASE CodegenStep
        BY <1>1, <4>7 DEF CodegenStep, CodegenStart, AddToList, AddClearsFlag, CodegenFinish
      <4>8. CASE Terminated \/ UNCHANGED vars BY <1>1, <4>8 DEF Terminated, vars
      <4>9. QED
        BY <2>2, <4>1, <4>2, <4>3, <4>4, <4>5, <4>6, <4>7, <4>8 DEF Next, ClientStep
    <3>2. ~StartChain
      BY <3>1 DEF StartChain
    <3>3. QED BY <3>1, <3>2, NoJobsStay DEF ImpatientMeans
  <2>3. QED BY <2>1, <2>2
<1>2. ASSUME pc' \in {"check", "activate", "dispatch"}
      PROVE  ~JobExists' /\ recompileDone' = <<>>
  <2>1. CASE pc \in {"check", "activate", "dispatch"}
    <3>1. ~StartChain
      BY <1>2 DEF StartChain
    <3>2. QED BY <2>1, <3>1, NoJobsStay DEF ImpatientMeans
  <2>2. CASE Recompile /\ NoResult
    <3>1. /\ pc = "idle" /\ recompileDone = <<>> /\ recompileDone' = <<>>
          /\ requests > 0 => seen \in {"Empty", "Ready"}
      BY <2>2 DEF Recompile, MayRecompile, NoResult
    <3>2. requests = 0 \/ seen = "Empty"
      BY <3>1 DEF SeenMeans, TypeOK
    <3>3. ~JobExists /\ ~StartChain
      BY <3>1, <3>2 DEF ImpatientMeans, CallsMean, StartChain
    <3>4. QED BY <3>1, <3>3, NoJobsStay
  <2>3. QED BY <1>2, <2>1, <2>2, ClientMoves
<1>3. ASSUME pc' = "wait" PROVE ResultComing'
  <2>1. CASE StartChain
    BY <2>1 DEF StartChain, ResultComing, TypeOK
  <2>2. CASE CheckActive /\ recompileActive
    <3>1. pc = "check"
      BY <2>2 DEF CheckActive
    <3>2. QED BY <2>2, <3>1 DEF ImpatientMeans, ActiveMeansJobs
  <2>3. CASE pc = "wait"
    <3>0. ResultComing
      BY <2>3 DEF ImpatientMeans
    <3>1. CASE ClientStep
      BY <1>3, <2>3, <3>0, <3>1
      DEF ClientStep, StatusReadEmpty, StatusReadActive, Recompile, MayRecompile, CheckActive,
          SetActive, StartChain, WaitPoll, NoResult, Abort, Destroy, Flushed, ResultComing
    <3>2. CASE OptimizeStart \/ (\E more \in BOOLEAN : OptimizeAsk(more))
      BY <3>2 DEF OptimizeStart, OptimizeAsk, ResultComing
    <3>3. CASE OptimizeDispatch
      BY <3>3, DispatchEffect DEF ResultComing, TypeOK
    <3>4. CASE CodegenStart
      BY <3>4 DEF CodegenStart, ResultComing
    <3>5. CASE AddToList
      BY <3>5, AddEffect DEF ResultComing, TypeOK
    <3>6. CASE AddClearsFlag \/ CodegenFinish
      BY <3>0, <3>6 DEF AddClearsFlag, CodegenFinish, ResultComing
    <3>7. CASE Terminated \/ UNCHANGED vars
      BY <3>0, <3>7 DEF Terminated, vars, ResultComing
    <3>8. QED
      BY <3>1, <3>2, <3>3, <3>4, <3>5, <3>6, <3>7 DEF Next, OptimizeStep, CodegenStep
  <2>4. QED BY <1>3, <2>1, <2>2, <2>3, ClientMoves
<1>4. QED BY <1>1, <1>2, <1>3

\* Two runs of consecutive numbers, put together, are one.
LEMMA ConcatNumbered ==
  ASSUME NEW s \in Seq(Version), NEW t \in Seq(Version), NEW b \in Nat,
         \A i \in 1..Len(s) : s[i] = b + i,
         \A i \in 1..Len(t) : t[i] = b + Len(s) + i
  PROVE  /\ s \o t \in Seq(Version)
         /\ Len(s \o t) = Len(s) + Len(t)
         /\ \A i \in 1..Len(s \o t) : (s \o t)[i] = b + i
<1>1. s \o t \in Seq(Version) /\ Len(s \o t) = Len(s) + Len(t)
      /\ Len(s) \in Nat /\ Len(t) \in Nat
  BY ConcatProperties, LenProperties
<1>2. ASSUME NEW i \in 1..(Len(s) + Len(t)) PROVE (s \o t)[i] = b + i
  <2>1. (s \o t)[i] = IF i <= Len(s) THEN s[i] ELSE t[i - Len(s)]
    BY ConcatProperties
  <2>2. CASE i <= Len(s)
    BY <1>1, <2>1, <2>2
  <2>3. CASE ~(i <= Len(s))
    <3>1. i - Len(s) \in 1..Len(t)
      BY <1>1, <2>3
    <3>2. t[i - Len(s)] = b + Len(s) + (i - Len(s))
      BY <3>1
    <3>3. QED BY <1>1, <2>1, <2>3, <3>2
  <2>4. QED BY <2>2, <2>3
<1>3. QED BY <1>1, <1>2

-----------------------------------------------------------------------------
(* The inductive invariant.                                                 *)

LEMMA InvInit == Init => IInv
<1> SUFFICES ASSUME Init PROVE IInv
  OBVIOUS
<1>1. TypeOK
  BY TypeInit
<1>2. ActiveMeansJobs
  BY DEF Init, ActiveMeansJobs, JobExists
<1>3. FlagAgrees
  BY Zenon DEF Init, FlagAgrees
<1>4. ChainShape
  BY EmptySeq DEF Init, ChainShape, HeadOpen, JobExists
<1>5. Compiling = 0 /\ Optimizing = 0 /\ Potential = 0
  BY DEF Init, Compiling, Optimizing, B2N, Potential
<1>6. Numbered
  BY <1>5, EmptySeq DEF Init, Numbered
<1>7. PotentialBounded
  BY <1>5, EmptySeq, OptimizerAssumption DEF Init, PotentialBounded, InFlight, Limit
<1>8. CallsMean /\ SeenMeans /\ ImpatientMeans
  BY DEF Init, CallsMean, SeenMeans, ImpatientMeans, JobExists
<1>9. QED BY <1>1, <1>2, <1>3, <1>4, <1>6, <1>7, <1>8 DEF IInv

LEMMA InvStep == IInv /\ [Next]_vars => IInv'
  BY TypeStep, ActiveStep, FlagStep, ShapeStep, NumberedStep, PotentialStep, CallsStep,
     SeenStep, ImpatientStep
  DEF IInv

-----------------------------------------------------------------------------
(* The theorems.                                                            *)

\* Queues, flags, end marks and numbers fit together in every reachable state
\* (Optimizer.cpp 277-510).
THEOREM Invariance == Spec => []IInv
<1>1. IInv /\ UNCHANGED vars => IInv'
  BY InvStep
<1>2. QED BY InvInit, InvStep, PTL DEF Spec

\* Every variable keeps the type of the member, queue or local it stands for.
THEOREM TypeCorrect == Spec => []TypeOK
<1>1. IInv => TypeOK
  BY DEF IInv
<1>2. QED BY <1>1, Invariance, PTL

\* recompileActive_ is true exactly while a job is queued or running, so the
\* destructor frees nothing a job still uses (Optimizer.cpp 137-156, 508-509).
THEOREM ActiveIsAccurate == Spec => []ActiveMeansJobs
<1>1. IInv => ActiveMeansJobs
  BY DEF IInv
<1>2. QED BY <1>1, Invariance, PTL

\* The flag behind status() agrees with the list (Optimizer.cpp 308-331).
THEOREM FlagIsAccurate == Spec => []FlagAgrees
<1>1. IInv => FlagAgrees
  BY DEF IInv
<1>2. QED BY <1>1, Invariance, PTL

\* No version is lost, repeated or overtaken on its way to the client
\* (Optimizer.cpp 308-331, 459-475, 499).
THEOREM OrderKept == Spec => []InOrder
<1>1. IInv => InOrder
  <2> SUFFICES ASSUME IInv, pc # "destroyed"
               PROVE  Pipeline = [i \in 1..(made - taken) |-> taken + i]
    BY DEF InOrder
  <2> DEFINE c == IF cgPC = "compile" THEN <<cgJob.ver>> ELSE <<>>
             q == [i \in 1..Len(codegenQ) |-> codegenQ[i].ver]
             o == IF optPC # "idle" THEN <<optVer>> ELSE <<>>
             goal == [i \in 1..(made - taken) |-> taken + i]
             D == Len(recompileDone)
             Q == Len(codegenQ)
  <2>1. /\ D \in Nat /\ Q \in Nat /\ Compiling \in {0, 1} /\ Optimizing \in {0, 1}
        /\ recompileDone \in Seq(Version) /\ codegenQ \in Seq(Job)
        /\ made \in Nat /\ taken \in Nat /\ optVer \in Version /\ cgJob.ver \in Version
    BY CountTypes DEF IInv, TypeOK, Job
  <2>2. /\ made = taken + D + Compiling + Q + Optimizing
        /\ \A i \in 1..D : recompileDone[i] = taken + i
        /\ cgPC = "compile" => cgJob.ver = taken + D + 1
        /\ \A i \in 1..Q : codegenQ[i].ver = taken + D + Compiling + i
        /\ optPC # "idle" => optVer = made
    BY DEF IInv, Numbered
  <2>3. /\ c \in Seq(Version) /\ Len(c) = Compiling
        /\ \A i \in 1..Compiling : c[i] = taken + D + i
    <3>1. CASE cgPC = "compile"
      <4>1. Compiling = 1 /\ c = <<cgJob.ver>>
        BY <3>1 DEF Compiling, B2N
      <4>2. QED BY <2>1, <2>2, <3>1, <4>1
    <3>2. CASE cgPC # "compile"
      <4>1. Compiling = 0 /\ c = <<>>
        BY <3>2 DEF Compiling, B2N
      <4>2. QED BY <4>1, EmptySeq
    <3>3. QED BY <3>1, <3>2
  <2>4. /\ q \in Seq(Version) /\ Len(q) = Q
        /\ \A i \in 1..Q : q[i] = taken + D + Compiling + i
    <3>1. \A i \in 1..Q : codegenQ[i].ver \in Version
      <4> TAKE i \in 1..Q
      <4>1. codegenQ[i] \in Job
        BY <2>1, ElementOfSeq
      <4>2. QED BY <4>1 DEF Job
    <3>2. QED BY <2>1, <2>2, <3>1
  <2>5. /\ o \in Seq(Version) /\ Len(o) = Optimizing
        /\ \A i \in 1..Optimizing : o[i] = taken + D + Compiling + Q + i
    <3>1. CASE optPC # "idle"
      <4>1. Optimizing = 1 /\ o = <<optVer>>
        BY <3>1 DEF Optimizing, B2N
      <4>2. QED BY <2>1, <2>2, <3>1, <4>1
    <3>2. CASE optPC = "idle"
      <4>1. Optimizing = 0 /\ o = <<>>
        BY <3>2 DEF Optimizing, B2N
      <4>2. QED BY <4>1, EmptySeq
    <3>3. QED BY <3>1, <3>2
  <2> HIDE DEF c, q, o
  <2>6. /\ recompileDone \o c \in Seq(Version)
        /\ Len(recompileDone \o c) = D + Compiling
        /\ \A i \in 1..(D + Compiling) : (recompileDone \o c)[i] = taken + i
    BY <2>1, <2>2, <2>3, ConcatProperties
  <2>7. /\ (recompileDone \o c) \o q \in Seq(Version)
        /\ Len((recompileDone \o c) \o q) = D + Compiling + Q
        /\ \A i \in 1..(D + Compiling + Q) : ((recompileDone \o c) \o q)[i] = taken + i
    <3> DEFINE s == recompileDone \o c
    <3>1. s \in Seq(Version) /\ Len(s) = D + Compiling
          /\ \A i \in 1..Len(s) : s[i] = taken + i
      BY <2>1, <2>6
    <3>2. q \in Seq(Version) /\ \A i \in 1..Len(q) : q[i] = taken + Len(s) + i
      BY <2>1, <2>4, <3>1
    <3>3. taken \in Nat
      BY <2>1
    <3> HIDE DEF s
    <3>4. /\ s \o q \in Seq(Version)
          /\ Len(s \o q) = Len(s) + Len(q)
          /\ \A i \in 1..Len(s \o q) : (s \o q)[i] = taken + i
      BY ONLY <3>1, <3>2, <3>3, ConcatNumbered
    <3>5. QED BY <2>1, <2>4, <3>1, <3>4 DEF s
  <2>8. /\ Pipeline \in Seq(Version)
        /\ Len(Pipeline) = D + Compiling + Q + Optimizing
        /\ \A i \in 1..(D + Compiling + Q + Optimizing) : Pipeline[i] = taken + i
    <3> DEFINE s == (recompileDone \o c) \o q
    <3>1. s \in Seq(Version) /\ Len(s) = D + Compiling + Q
          /\ \A i \in 1..Len(s) : s[i] = taken + i
      BY <2>1, <2>7
    <3>2. o \in Seq(Version) /\ \A i \in 1..Len(o) : o[i] = taken + Len(s) + i
      BY <2>1, <2>5, <3>1
    <3>3. taken \in Nat
      BY <2>1
    <3>4. Pipeline = s \o o
      BY DEF Pipeline, c, q, o
    <3> HIDE DEF s
    <3>5. /\ s \o o \in Seq(Version)
          /\ Len(s \o o) = Len(s) + Len(o)
          /\ \A i \in 1..Len(s \o o) : (s \o o)[i] = taken + i
      BY ONLY <3>1, <3>2, <3>3, ConcatNumbered
    <3>6. QED BY <2>1, <2>5, <3>1, <3>4, <3>5
  <2>9. made - taken = D + Compiling + Q + Optimizing
    BY <2>1, <2>2
  <2>10. goal \in Seq(Nat) /\ Len(goal) = made - taken
    BY <2>1, <2>9
  <2>11. Pipeline \in Seq(Nat)
    BY <2>8, SeqMonotonic DEF Version
  <2>12. QED BY <2>1, <2>8, <2>9, <2>10, <2>11, SeqEqual
<1>2. QED BY <1>1, Invariance, PTL

\* The number of versions made ahead of time is bounded, by one chain for a client
\* that asks status() first and by two for one that does not (Optimizer.cpp 347-397).
THEOREM BacklogIsBounded == Spec => []BacklogBounded
<1>1. IInv => BacklogBounded
  <2> SUFFICES ASSUME IInv, pc # "destroyed" PROVE Backlog <= Limit
    BY DEF BacklogBounded
  <2>1. /\ Len(recompileDone) \in Nat /\ Len(codegenQ) \in Nat
        /\ Compiling \in {0, 1} /\ Optimizing \in {0, 1} /\ Potential \in Nat
        /\ made \in Nat /\ taken \in Nat /\ Limit \in Nat
    BY CountTypes, OptimizerAssumption DEF IInv, TypeOK, Limit
  <2>2. made = taken + Len(recompileDone) + Compiling + Len(codegenQ) + Optimizing
    BY DEF IInv, Numbered
  <2>3. Len(recompileDone) + InFlight <= Limit
    BY DEF IInv, PotentialBounded
  <2>4. QED BY <2>1, <2>2, <2>3 DEF Backlog, InFlight
<1>2. QED BY <1>1, Invariance, PTL

\* The answer Ready holds until the client acts on it (Optimizer.cpp 333-341).
THEOREM ReadyHolds == Spec => []ReadyIsReady
<1>1. IInv => ReadyIsReady
  BY DEF IInv, SeenMeans, ReadyIsReady
<1>2. QED BY <1>1, Invariance, PTL

\* The waiting loop of a client that never recompiles on Working always has a result
\* coming (Optimizer.cpp 366-386, driver.h 170-177).
THEOREM ImpatientNeverStranded == Spec => []NoStrandedWait
<1>1. IInv => NoStrandedWait
  BY DEF IInv, ImpatientMeans, NoStrandedWait, WaitHasSource, ResultComing, JobExists
<1>2. QED BY <1>1, Invariance, PTL

-----------------------------------------------------------------------------
(* Optimizer implements CompileService: every step of the pipeline is a    *)
(* step of the service, or one the service does not see.                   *)

\* What the inductive invariant says in the terms of the service.
LEMMA ServiceFacts ==
  ASSUME IInv, pc # "destroyed"
  PROVE  /\ made \in Nat /\ taken \in Nat /\ Limit \in Nat
         /\ made = taken + Len(recompileDone) + Compiling + Len(codegenQ) + Optimizing
         /\ Len(recompileDone) \in Nat /\ Len(codegenQ) \in Nat
         /\ Compiling \in {0, 1} /\ Optimizing \in {0, 1} /\ Potential \in Nat
         /\ Len(recompileDone) + InFlight <= Limit
<1>1. /\ Len(recompileDone) \in Nat /\ Len(codegenQ) \in Nat
      /\ Compiling \in {0, 1} /\ Optimizing \in {0, 1} /\ Potential \in Nat
  BY CountTypes DEF IInv
<1>2. made \in Nat /\ taken \in Nat /\ Limit \in Nat
  BY OptimizerAssumption DEF IInv, TypeOK, Limit
<1>3. made = taken + Len(recompileDone) + Compiling + Len(codegenQ) + Optimizing
  BY DEF IInv, Numbered
<1>4. Len(recompileDone) + InFlight <= Limit
  BY DEF IInv, PotentialBounded
<1>5. QED BY <1>1, <1>2, <1>3, <1>4

\* The oldest version of the list is the one after the last version taken.
LEMMA PopHandsOver ==
  ASSUME IInv, PopResult, pc # "destroyed"
  PROVE  taken < made /\ taken' = taken + 1
<1>1. recompileDone \in Seq(Version)
  BY DEF IInv, TypeOK
<1>2. /\ Len(recompileDone) \in Nat \ {0}
      /\ taken' = recompileDone[1]
  BY <1>1, PopEffect
<1>3. recompileDone[1] = taken + 1
  BY <1>2 DEF IInv, Numbered
<1>4. taken < made
  BY <1>2, ServiceFacts
<1>5. QED BY <1>2, <1>3, <1>4

\* A configuration is generated within the limit, and for a client that exists.
LEMMA StartGenerates ==
  ASSUME IInv, OptimizeStart
  PROVE  Service!Generate
<1>1. /\ optPC = "idle" /\ optimizeQ > 0 /\ made' = made + 1
      /\ pc # "aborted" /\ pc' = pc /\ taken' = taken
  BY DEF OptimizeStart, Running, client
<1>2. JobExists
  BY <1>1 DEF JobExists
<1>3. pc \notin {"activate", "dispatch", "destroyed"}
  BY <1>2 DEF IInv, ChainShape
<1>4. Potential >= 1
  <2>1. optimizeQ = 1
    BY <1>1 DEF IInv, ChainShape
  <2>2. ahead \in 0..CompileAhead /\ CompileAhead \in Nat
    BY OptimizerAssumption DEF IInv, TypeOK
  <2>3. QED BY <2>1, <2>2 DEF Potential
<1>5. made - taken < Limit
  BY <1>3, <1>4, ServiceFacts DEF InFlight
<1>6. pc \in {"idle", "status", "flush"} => taken > 0
  <2>1. requests > 0
    BY <1>2 DEF IInv, CallsMean, TypeOK
  <2>2. QED BY <2>1 DEF IInv, CallsMean
<1>7. Phase = "asked" \/ (Phase \in {"open", "closing"} /\ taken > 0)
  BY <1>1, <1>3, <1>6 DEF Phase, IInv, TypeOK
<1>8. Phase' = Phase
  BY <1>1 DEF Phase
<1>9. QED BY <1>1, <1>5, <1>7, <1>8 DEF Service!Generate

\* A step of the pipeline is a step of the service, or one it does not see.
LEMMA ServiceStep ==
  ASSUME IInv, [Next]_vars
  PROVE  Service!Next \/ UNCHANGED <<made, taken, Phase>>
<1> USE DEF list, optimize, codegen, client
<1>1. CASE Recompile
  <2>1. pc = "idle" /\ made' = made
    BY <1>1 DEF Recompile, MayRecompile
  <2>2. CASE PopResult /\ UNCHANGED pc
    <3>1. taken < made /\ taken' = taken + 1
      BY <2>1, <2>2, PopHandsOver
    <3>2. QED BY <2>1, <2>2, <3>1 DEF Phase, Service!Next, Service!Answer
  <2>3. CASE NoResult /\ pc' = "check"
    <3>1. taken' = taken
      BY <2>3 DEF NoResult
    <3>2. QED BY <2>1, <2>3, <3>1 DEF Phase, Service!Next, Service!Ask
  <2>4. QED BY <1>1, <2>2, <2>3 DEF Recompile
<1>2. CASE WaitPoll
  <2>1. pc = "wait" /\ made' = made
    BY <1>2 DEF WaitPoll
  <2>2. CASE PopResult /\ pc' = "idle"
    <3>1. taken < made /\ taken' = taken + 1
      BY <2>1, <2>2, PopHandsOver
    <3>2. QED BY <2>1, <2>2, <3>1 DEF Phase, Service!Next, Service!Answer
  <2>3. CASE NoResult /\ UNCHANGED pc
    BY <2>1, <2>3 DEF NoResult, Phase
  <2>4. QED BY <1>2, <2>2, <2>3 DEF WaitPoll
<1>3. CASE Abort
  BY <1>3 DEF Abort, Phase, Service!Next, Service!GiveUp
<1>4. CASE Destroy
  BY <1>4 DEF Destroy, Phase, Service!Next, Service!Close
<1>5. CASE Flushed
  BY <1>5 DEF Flushed, Phase, Service!Next, Service!Close
<1>6. CASE StatusReadEmpty \/ StatusReadActive
  BY <1>6 DEF StatusReadEmpty, StatusReadActive, Phase
<1>7. CASE CheckActive \/ SetActive \/ StartChain
  BY <1>7 DEF CheckActive, SetActive, StartChain, Phase
<1>8. CASE OptimizeStart
  BY <1>8, StartGenerates DEF Service!Next
<1>9. ASSUME NEW more \in BOOLEAN, OptimizeAsk(more)
      PROVE  UNCHANGED <<made, taken, Phase>>
  BY <1>9 DEF OptimizeAsk, Phase
<1>10. CASE OptimizeDispatch
  BY <1>10 DEF OptimizeDispatch, Phase
<1>11. CASE CodegenStep
  BY <1>11 DEF CodegenStep, CodegenStart, AddToList, AddClearsFlag, CodegenFinish, Phase
<1>12. CASE Terminated \/ UNCHANGED vars
  BY <1>12 DEF Terminated, vars, Phase
<1>13. QED
  BY <1>1, <1>2, <1>3, <1>4, <1>5, <1>6, <1>7, <1>8, <1>9, <1>10, <1>11, <1>12
  DEF Next, ClientStep, OptimizeStep

\* The pipeline is a correct implementation of the service its client counts on
\* (optimizer.h 64-147), with any depth, bailout and number of requests.
THEOREM ServiceImplemented == Spec => ImplementsService
<1>1. Init => Service!Init
  BY DEF Init, Phase, Service!Init
<1>2. IInv /\ [Next]_vars => [Service!Next]_(Service!serviceVars)
  BY ServiceStep DEF Service!serviceVars
<1>3. QED BY <1>1, <1>2, Invariance, PTL DEF Spec, ImplementsService, Service!Spec
=============================================================================
