----------------------------- MODULE DriverProofs -----------------------------
(***************************************************************************)
(* Theorems about Driver: it uses its optimizer as the optimizer expects,  *)
(* so what is proved of Optimizer holds of it too, and its slots are kept  *)
(* as the callers of reoptimize() rely on.                                 *)
(***************************************************************************)
EXTENDS Driver, OptimizerProofs

-----------------------------------------------------------------------------
(* The optimizer's part of a step.                                          *)

\* Every step of the driver is a step of its optimizer, or leaves it alone.
LEMMA OptimizerStep ==
  ASSUME [DriverNext]_driverVars
  PROVE  [Next]_vars
<1>1. CASE Use \/ Submit \/ KeepTrial \/ JudgeTrial \/ NoTrial
  BY <1>1 DEF Use, Submit, KeepTrial, JudgeTrial, NoTrial
<1>2. CASE Experiment \/ Return \/ ReturnBest
  BY <1>2 DEF Experiment, Return, ReturnBest
<1>3. CASE AskStatus \/ AskStatusAgain \/ Call \/ InCall \/ QuitReturns \/ Quit
  BY <1>3 DEF AskStatus, AskStatusAgain, Call, InCall, QuitReturns, Quit, Next, ClientStep
<1>4. CASE OptimizeJob \/ CodegenJob
  BY <1>4 DEF OptimizeJob, CodegenJob, Next, OptimizeStep
<1>5. CASE Over \/ UNCHANGED driverVars
  BY <1>5 DEF Over, driverVars
<1>6. QED BY <1>1, <1>2, <1>3, <1>4, <1>5 DEF DriverNext, CallStep

\* What the workers do is not seen by the client thread, nor by the driver.
LEMMA WorkersApart ==
  ASSUME OptimizeJob \/ CodegenJob
  PROVE  UNCHANGED <<driver, pc, requests, waitIters, seen, taken>>
<1>1. CASE OptimizeJob
  BY <1>1 DEF OptimizeJob, OptimizeStart, OptimizeAsk, OptimizeDispatch, client
<1>2. CASE CodegenJob
  BY <1>2 DEF CodegenJob, CodegenStep, CodegenStart, AddToList, AddClearsFlag,
              CodegenFinish, client
<1>3. QED BY <1>1, <1>2

\* A version handed over is the next one.
LEMMA NextVersion ==
  ASSUME IInv, pc # "destroyed", PopResult
  PROVE  taken' = taken + 1 /\ taken \in Nat
<1>1. recompileDone \in Seq(Version) /\ taken \in Nat
  BY DEF IInv, TypeOK
<1>2. Len(recompileDone) \in Nat \ {0} /\ taken' = recompileDone[1]
  BY <1>1, PopEffect
<1>3. recompileDone[1] = taken + 1
  BY <1>2 DEF IInv, Numbered
<1>4. QED BY <1>1, <1>2, <1>3

\* The steps of a call inside the optimizer, as the driver sees them.
LEMMA InsideCall ==
  ASSUME IInv, CallShape, Call \/ InCall
  PROVE  /\ UNCHANGED <<known, noop, slots, measured, handed>>
         /\ dpc' = "waiting"
         /\ requests' = requests \/ requests' = requests + 1
         /\ requests' > 0
         /\ requests' \in Nat
         /\ \/ pc' \in {"check", "activate", "dispatch", "wait", "aborted"} /\ taken' = taken
            \/ pc' = "idle" /\ taken' = taken + 1
         /\ taken \in Nat
         /\ made' = made
<1> USE DEF driver, optimize, client
<1>1. taken \in Nat /\ requests \in Nat
  BY OptimizerAssumption DEF IInv, TypeOK
<1>2. CASE Call
  <2>1. /\ dpc' = "waiting" /\ UNCHANGED <<known, noop, slots, measured, handed>>
        /\ pc = "idle" /\ requests' = requests + 1 /\ made' = made
    BY <1>2 DEF Call, Recompile, MayRecompile
  <2>2. CASE PopResult /\ UNCHANGED pc
    BY <1>1, <2>1, <2>2, NextVersion
  <2>3. CASE NoResult /\ pc' = "check"
    BY <1>1, <2>1, <2>3 DEF NoResult
  <2>4. QED BY <1>2, <2>2, <2>3 DEF Call, Recompile
<1>3. CASE InCall
  <2>1. UNCHANGED <<dpc, known, noop, slots, measured, handed>> /\ dpc = "waiting"
    BY <1>3 DEF InCall
  <2>2. CASE CheckActive \/ SetActive \/ StartChain
    <3>1. /\ pc' \in {"activate", "dispatch", "wait"} /\ taken' = taken /\ made' = made
          /\ requests' = requests /\ pc \in {"check", "activate", "dispatch"}
      BY <2>2 DEF CheckActive, SetActive, StartChain
    <3>2. requests > 0
      BY <3>1 DEF IInv, SeenMeans
    <3>3. QED BY <1>1, <2>1, <3>1, <3>2
  <2>3. CASE WaitPoll
    <3>1. pc = "wait" /\ requests' = requests /\ made' = made
      BY <2>3 DEF WaitPoll
    <3>2. requests > 0
      BY <3>1 DEF IInv, SeenMeans
    <3>3. CASE PopResult /\ pc' = "idle"
      BY <1>1, <2>1, <3>1, <3>2, <3>3, NextVersion
    <3>4. CASE NoResult /\ UNCHANGED pc
      BY <1>1, <2>1, <3>1, <3>2, <3>4 DEF NoResult
    <3>5. QED BY <2>3, <3>3, <3>4 DEF WaitPoll
  <2>4. CASE Abort
    <3>1. /\ pc = "wait" /\ pc' = "aborted" /\ requests' = requests
          /\ taken' = taken /\ made' = made
      BY <2>4 DEF Abort
    <3>2. requests > 0
      BY <3>1 DEF IInv, SeenMeans
    <3>3. QED BY <1>1, <2>1, <3>1, <3>2
  <2>5. QED BY <1>3, <2>2, <2>3, <2>4 DEF InCall
<1>4. QED BY <1>2, <1>3

-----------------------------------------------------------------------------
(* The inductive invariant, one lemma for each of its parts.                *)

\* A run of a version only makes versions count as deployed.
LEMMA DeployVersions ==
  ASSUME DriverTypeOK, NEW v \in Version, Deploy(v)
  PROVE  deployed' \in SUBSET Version
<1>1. ToSet(others) \subseteq Version
  BY DEF DriverTypeOK, ToSet
<1>2. Slots \subseteq Version
  BY <1>1 DEF DriverTypeOK, Slots, Version
<1>3. QED BY <1>2 DEF DriverTypeOK, Deploy

LEMMA DriverTypeStep ==
  ASSUME IInv, DriverTypeOK, CallShape, SlotShape, Fresh, [DriverNext]_driverVars
  PROVE  DriverTypeOK'
<1> USE DriverAssumption DEF DriverTypeOK, driver, slots, measured
<1>1. CASE Use
  <2>1. CASE handed = "trial" /\ trial # 0
    <3>1. trial \in Version
      BY <2>1 DEF Version
    <3>2. calls' \in 0..GoodCalls
      BY <1>1, <2>1 DEF Use
    <3>3. deployed' \in SUBSET Version
      BY <1>1, <2>1, <3>1, DeployVersions DEF Use
    <3>4. QED BY <1>1, <3>2, <3>3 DEF Use
  <2>2. CASE handed = "best" /\ best # 0
    <3>1. best \in Version
      BY <2>2 DEF Version
    <3>2. deployed' \in SUBSET Version
      BY <1>1, <2>2, <3>1, DeployVersions DEF Use
    <3>3. QED BY <1>1, <2>2, <3>2 DEF Use
  <2>3. QED BY <1>1, <2>1, <2>2 DEF Use
<1>2. CASE Submit BY <1>2 DEF Submit, Enters
<1>3. CASE KeepTrial BY <1>3 DEF KeepTrial
<1>4. CASE JudgeTrial
  <2>1. dpc' \in {"best", "status", "experiment"}
    BY <1>4 DEF JudgeTrial, Decision
  <2>2. trial \in Version
    BY <1>4 DEF JudgeTrial, Version
  <2>3. Append(others, trial) \in Seq(Version)
    BY <2>2, AppendProperties
  <2>4. best' \in Nat /\ deployed' \in SUBSET Version
    BY <1>4 DEF JudgeTrial, Promote
  <2>5. others' \in Seq(Version)
    BY <1>4, <2>3 DEF JudgeTrial, Promote
  <2>6. trial' = 0 /\ calls' = 0 /\ handed' = "none" /\ UNCHANGED <<known, noop>>
    BY <1>4 DEF JudgeTrial, Promote, Enters
  <2>7. QED BY <2>1, <2>4, <2>5, <2>6
<1>5. CASE NoTrial BY <1>5 DEF NoTrial, Enters, Decision
<1>6. CASE AskStatus BY <1>6 DEF AskStatus, Decide
<1>7. CASE AskStatusAgain BY <1>7 DEF AskStatusAgain, Decide
<1>8. CASE Experiment BY <1>8 DEF Experiment
<1>9. CASE Call \/ InCall BY <1>9, InsideCall
<1>10. CASE Return
  <2>1. taken \in Version
    BY <1>10 DEF IInv, TypeOK, Return, Fresh, Version
  <2>2. deployed' \in SUBSET Version
    BY <1>10, <2>1 DEF Return
  <2>3. QED BY <1>10, <2>1, <2>2 DEF Return, Version
<1>11. CASE ReturnBest
  <2>1. CASE UNCHANGED <<best, others, deployed>>
    BY <1>11, <2>1 DEF ReturnBest
  <2>2. ASSUME NEW i \in 1..Len(others), best # 0, best' = others[i],
               others' = [others EXCEPT ![i] = best], deployed' \subseteq deployed
        PROVE  DriverTypeOK'
    <3>1. others[i] \in Version /\ best \in Version
      BY <2>2, ElementOfSeq DEF Version
    <3>2. others' \in Seq(Version)
      BY <2>2, <3>1, ExceptSeq
    <3>3. QED BY <1>11, <2>2, <3>1, <3>2 DEF ReturnBest, Version
  <2>3. best # 0
    BY <1>11 DEF ReturnBest, SlotShape
  <2>4. QED BY <1>11, <2>1, <2>2, <2>3 DEF ReturnBest, Swap
<1>12. CASE QuitReturns BY <1>12 DEF QuitReturns
<1>13. CASE OptimizeJob \/ CodegenJob BY <1>13, WorkersApart
<1>14. CASE Quit
  <2>1. <<>> \in Seq(Version)
    OBVIOUS
  <2>2. QED BY <1>14, <2>1 DEF Quit
<1>15. CASE Over \/ UNCHANGED driverVars
  BY <1>15 DEF Over, driverVars
<1>16. QED
  BY <1>1, <1>2, <1>3, <1>4, <1>5, <1>6, <1>7, <1>8, <1>9, <1>10, <1>11, <1>12, <1>13,
     <1>14, <1>15
  DEF DriverNext, CallStep

\* The steps of the entry itself, in the order of reoptimize().
LEMMA CallShapeStep ==
  ASSUME IInv, CallShape, SlotShape, [DriverNext]_driverVars
  PROVE  CallShape'
<1> USE DEF CallShape, driver, slots, measured
<1>1. CASE Use \/ KeepTrial
  BY <1>1 DEF Use, KeepTrial, vars, client
<1>2. CASE Submit
  BY <1>2 DEF Submit, Enters, vars, client
<1>3. CASE JudgeTrial
  BY <1>3 DEF JudgeTrial, Enters, Decision, vars, client
<1>4. CASE NoTrial
  BY <1>4 DEF NoTrial, Enters, Decision, vars, client
<1>5. CASE AskStatus
  BY <1>5 DEF AskStatus, StatusReadEmpty, Decide
<1>6. CASE AskStatusAgain
  BY <1>6 DEF AskStatusAgain, StatusReadActive, Decide
<1>7. CASE Experiment
  BY <1>7 DEF Experiment, vars, client
<1>8. CASE Call \/ InCall
  BY <1>8, InsideCall
<1>9. CASE Return \/ ReturnBest
  BY <1>9 DEF Return, ReturnBest, vars, client
<1>10. CASE QuitReturns \/ Quit
  BY <1>10 DEF QuitReturns, Quit, Flushed, Destroy
<1>11. CASE OptimizeJob \/ CodegenJob
  BY <1>11, WorkersApart
<1>12. CASE Over \/ UNCHANGED driverVars
  BY <1>12 DEF Over, driverVars, vars, client
<1>13. QED
  BY <1>1, <1>2, <1>3, <1>4, <1>5, <1>6, <1>7, <1>8, <1>9, <1>10, <1>11, <1>12
  DEF DriverNext, CallStep

\* Before the first call the optimizer generates nothing.
LEMMA NothingYet ==
  ASSUME IInv, OptimizeJob \/ CodegenJob, requests = 0
  PROVE  made' = made
<1>1. ~JobExists
  BY DEF IInv, CallsMean
<1>2. CASE OptimizeJob
  BY <1>1, <1>2 DEF OptimizeJob, OptimizeStart, OptimizeAsk, OptimizeDispatch, JobExists
<1>3. CASE CodegenJob
  BY <1>1, <1>3 DEF CodegenJob, CodegenStep, CodegenStart, AddToList, AddClearsFlag,
                    CodegenFinish, JobExists, optimize
<1>4. QED BY <1>2, <1>3

LEMMA SlotShapeStep ==
  ASSUME IInv, DriverTypeOK, CallShape, SlotShape, SlotsApart, Fresh, [DriverNext]_driverVars
  PROVE  SlotShape'
<1> USE DEF SlotShape, driver, slots, measured
<1>0. requests \in Nat /\ taken \in Nat
  BY OptimizerAssumption DEF IInv, TypeOK
<1>1. CASE Use \/ KeepTrial
  BY <1>1 DEF Use, KeepTrial, vars, client, optimize
<1>2. CASE Submit
  <2>1. trial = 0
    BY <1>2 DEF Submit, SlotsApart
  <2>2. QED BY <1>2, <2>1 DEF Submit, Enters, vars, client, optimize
<1>3. CASE JudgeTrial
  <2>1. trial' = 0 /\ best' # 0 /\ dpc' \in {"best", "status", "experiment"} /\ known'
    BY <1>3 DEF JudgeTrial, Promote, Decision
  <2>2. QED BY <1>3, <2>1 DEF JudgeTrial, Enters, vars, client, optimize
<1>4. CASE NoTrial
  BY <1>4 DEF NoTrial, Enters, Decision, vars, client, optimize
<1>5. CASE AskStatus
  BY <1>5 DEF AskStatus, StatusReadEmpty, Decide, optimize
<1>6. CASE AskStatusAgain
  BY <1>6 DEF AskStatusAgain, StatusReadActive, Decide, optimize
<1>7. CASE Experiment
  BY <1>7 DEF Experiment, vars, client, optimize
<1>8. CASE Call \/ InCall
  BY <1>8, InsideCall DEF Call, InCall
<1>9. CASE Return
  BY <1>0, <1>9 DEF Return, vars, client, optimize, Fresh, DriverTypeOK
<1>10. CASE ReturnBest
  <2>1. CASE UNCHANGED <<best, others, deployed>>
    BY <1>10, <2>1 DEF ReturnBest, vars, client, optimize
  <2>2. ASSUME NEW i \in 1..Len(others), best' = others[i]
        PROVE  SlotShape'
    <3>1. best' \in Version
      BY <2>2, ElementOfSeq DEF DriverTypeOK
    <3>2. QED BY <1>10, <3>1 DEF ReturnBest, Version, vars, client, optimize
  <2>3. QED BY <1>10, <2>1, <2>2 DEF ReturnBest, Swap
<1>11. CASE QuitReturns
  BY <1>11 DEF QuitReturns, Flushed, optimize
<1>12. CASE Quit
  BY <1>12 DEF Quit, Destroy, optimize
<1>13. CASE OptimizeJob \/ CodegenJob
  BY <1>13, WorkersApart, NothingYet
<1>14. CASE Over \/ UNCHANGED driverVars
  BY <1>14 DEF Over, driverVars, vars, client, optimize
<1>15. QED
  BY <1>1, <1>2, <1>3, <1>4, <1>5, <1>6, <1>7, <1>8, <1>9, <1>10, <1>11, <1>12, <1>13, <1>14
  DEF DriverNext, CallStep

\* Only four steps move a version from one slot to another.
LEMMA SlotsApartStep ==
  ASSUME IInv, DriverTypeOK, CallShape, SlotShape, SlotsApart, Fresh, [DriverNext]_driverVars
  PROVE  SlotsApart'
<1> USE DEF driver, slots, measured
<1>0. taken \in Nat /\ trial \in Nat /\ best \in Nat /\ others \in Seq(Version)
  BY DEF IInv, TypeOK, DriverTypeOK
<1>1. \A i \in 1..Len(others) : others[i] \in Version
  BY <1>0, ElementOfSeq
<1>2. CASE UNCHANGED <<trial, best, others, taken>>
  BY <1>2 DEF SlotsApart
<1>3. CASE JudgeTrial
  <2>1. trial' = 0 /\ trial # 0 /\ taken' = taken
    BY <1>3 DEF JudgeTrial, Promote, vars, client
  <2>2. CASE best' = trial /\ UNCHANGED others
    BY <1>0, <1>1, <2>1, <2>2 DEF SlotsApart, Version
  <2>3. CASE others' = Append(others, trial) /\ UNCHANGED best
    <3>1. trial \in Version
      BY <1>0, <2>1 DEF Version
    <3>2. /\ Len(others') = Len(others) + 1
          /\ \A i \in 1..Len(others) : others'[i] = others[i]
          /\ others'[Len(others) + 1] = trial
      BY <1>0, <2>3, <3>1, AppendProperties
    <3>3. \A i \in 1..Len(others') : i \in 1..Len(others) \/ i = Len(others) + 1
      BY <1>0, <3>2
    <3>4. /\ trial' \in {0, taken'} /\ best' <= taken' /\ trial' = 0
          /\ \A i \in 1..Len(others') : others'[i] <= taken' /\ others'[i] \notin {trial', best'}
      BY <1>0, <1>1, <2>1, <2>3, <3>2, <3>3 DEF SlotsApart, Version
    <3>5. \A i, j \in 1..Len(others') : others'[i] = others'[j] => i = j
      BY <1>0, <1>1, <2>1, <3>2, <3>3 DEF SlotsApart
    <3>6. QED BY <3>4, <3>5 DEF SlotsApart
  <2>4. QED BY <1>3, <2>2, <2>3 DEF JudgeTrial, Promote
<1>4. CASE Call \/ InCall
  <2>1. trial = 0
    BY <1>4 DEF Call, InCall, SlotShape
  <2>2. taken' >= taken /\ UNCHANGED <<trial, best, others>>
    BY <1>0, <1>4, InsideCall
  <2>3. taken' \in Nat
    BY <1>0, <1>4, InsideCall
  <2>4. QED BY <1>0, <1>1, <2>1, <2>2, <2>3 DEF SlotsApart, Version
<1>5. CASE Return
  BY <1>0, <1>1, <1>5 DEF Return, Fresh, SlotsApart, vars, client, Version
<1>6. CASE ReturnBest
  <2>1. taken' = taken /\ trial' = trial
    BY <1>6 DEF ReturnBest, vars, client
  <2>2. CASE UNCHANGED <<best, others>>
    BY <1>2, <2>1, <2>2
  <2>3. ASSUME NEW i \in 1..Len(others), best' = others[i],
               others' = [others EXCEPT ![i] = best]
        PROVE  SlotsApart'
    <3>1. /\ Len(others') = Len(others)
          /\ others'[i] = best
          /\ \A j \in 1..Len(others) : j # i => others'[j] = others[j]
      BY <1>0, <2>3, ExceptSeq
    <3>2. trial' = 0
      BY <1>6, <2>1 DEF ReturnBest, SlotShape
    <3>3. best # 0
      BY <1>6 DEF ReturnBest, SlotShape
    <3>4. \A j \in 1..Len(others') : others'[j] <= taken' /\ others'[j] \notin {trial', best'}
      BY <1>0, <1>1, <2>1, <2>3, <3>1, <3>2, <3>3 DEF SlotsApart, Version
    <3>5. \A j, k \in 1..Len(others') : others'[j] = others'[k] => j = k
      BY <1>0, <1>1, <2>3, <3>1 DEF SlotsApart
    <3>6. QED BY <2>1, <2>3, <3>2, <3>4, <3>5 DEF SlotsApart
  <2>4. QED BY <1>6, <2>2, <2>3 DEF ReturnBest, Swap
<1>7. CASE Quit
  BY <1>0, <1>7 DEF Quit, Destroy, SlotsApart
<1>8. CASE Use \/ Submit \/ KeepTrial \/ NoTrial \/ Experiment \/ Over
  BY <1>2, <1>8 DEF Use, Submit, KeepTrial, NoTrial, Experiment, Over, driverVars, vars, client
<1>9. CASE AskStatus \/ AskStatusAgain \/ QuitReturns
  BY <1>2, <1>9 DEF AskStatus, AskStatusAgain, QuitReturns, StatusReadEmpty, StatusReadActive,
                    Flushed
<1>10. CASE OptimizeJob \/ CodegenJob
  BY <1>2, <1>10, WorkersApart
<1>11. CASE UNCHANGED driverVars
  BY <1>2, <1>11 DEF driverVars, vars, client
<1>12. QED
  BY <1>3, <1>4, <1>5, <1>6, <1>7, <1>8, <1>9, <1>10, <1>11 DEF DriverNext, CallStep

\* A slot is filled before it is handed out, and stays so until the next call.
LEMMA HandedStep ==
  ASSUME IInv, DriverTypeOK, CallShape, SlotShape, Fresh, HandedHolds,
         [DriverNext]_driverVars
  PROVE  HandedHolds'
<1> USE DEF HandedHolds, driver, slots, measured
<1>1. CASE Use \/ Submit \/ KeepTrial \/ Experiment
  BY <1>1 DEF Use, Submit, KeepTrial, Experiment, Enters
<1>2. CASE JudgeTrial \/ NoTrial
  BY <1>2 DEF JudgeTrial, NoTrial, Enters
<1>3. CASE AskStatus \/ AskStatusAgain
  BY <1>3 DEF AskStatus, AskStatusAgain, Decide
<1>4. CASE Call \/ InCall
  BY <1>4, InsideCall
<1>5. CASE Return
  <2>1. taken # 0
    BY <1>5 DEF Return, Fresh, IInv, TypeOK, DriverTypeOK
  <2>2. QED BY <1>5, <2>1 DEF Return
<1>6. CASE ReturnBest
  <2>1. \A i \in 1..Len(others) : others[i] # 0
    BY ElementOfSeq DEF DriverTypeOK, Version
  <2>2. best' # 0 /\ handed' = "best"
    BY <1>6, <2>1 DEF ReturnBest, Swap, SlotShape
  <2>3. QED BY <2>2
<1>7. CASE QuitReturns \/ Quit
  BY <1>7 DEF QuitReturns, Quit
<1>8. CASE OptimizeJob \/ CodegenJob
  BY <1>8, WorkersApart
<1>9. CASE Over \/ UNCHANGED driverVars
  BY <1>9 DEF Over, driverVars
<1>10. QED
  BY <1>1, <1>2, <1>3, <1>4, <1>5, <1>6, <1>7, <1>8, <1>9 DEF DriverNext, CallStep

\* The way to recompile() goes through the first request or a good answer.
LEMMA KeepsProtocolStep ==
  ASSUME IInv, CallShape, SlotShape, KeepsProtocol, [DriverNext]_driverVars
  PROVE  KeepsProtocol'
<1> USE DEF KeepsProtocol, driver, slots, measured
<1>1. CASE Use \/ KeepTrial \/ Over \/ UNCHANGED driverVars
  BY <1>1 DEF Use, KeepTrial, Over, driverVars, MayRecompile, vars, client
<1>2. CASE Submit
  BY <1>2 DEF Submit, Enters, SlotShape, CallShape, MayRecompile, vars, client
<1>3. CASE Experiment
  BY <1>3 DEF Experiment, CallShape, MayRecompile, vars, client
<1>4. CASE JudgeTrial \/ NoTrial \/ AskStatus \/ AskStatusAgain
  BY <1>4 DEF JudgeTrial, NoTrial, AskStatus, AskStatusAgain, Decision, Decide
<1>5. CASE Call \/ InCall
  BY <1>5, InsideCall
<1>6. CASE Return \/ ReturnBest \/ QuitReturns \/ Quit
  BY <1>6 DEF Return, ReturnBest, QuitReturns, Quit
<1>7. CASE OptimizeJob \/ CodegenJob
  BY <1>7, WorkersApart DEF MayRecompile
<1>8. QED
  BY <1>1, <1>2, <1>3, <1>4, <1>5, <1>6, <1>7 DEF DriverNext, CallStep

LEMMA FreshStep ==
  ASSUME IInv, DriverTypeOK, CallShape, SlotShape, SlotsApart, Fresh, [DriverNext]_driverVars
  PROVE  Fresh'
<1> USE DEF Fresh, driver, slots, measured
<1>1. CASE Call \/ InCall
  <2>1. taken \in Nat /\ best \in Nat /\ others \in Seq(Version)
    BY DEF IInv, TypeOK, DriverTypeOK
  <2>2. \A i \in 1..Len(others) : others[i] \in Nat
    BY <2>1, ElementOfSeq DEF Version
  <2>3. QED BY <1>1, <2>1, <2>2, InsideCall DEF SlotsApart
<1>2. CASE OptimizeJob \/ CodegenJob
  BY <1>2, WorkersApart
<1>3. CASE Use \/ Submit \/ KeepTrial \/ JudgeTrial \/ NoTrial
  BY <1>3 DEF Use, Submit, KeepTrial, JudgeTrial, NoTrial, Decision, vars, client, CallShape,
              Enters
<1>4. CASE AskStatus \/ AskStatusAgain \/ Experiment
  BY <1>4 DEF AskStatus, AskStatusAgain, Experiment, Decide
<1>5. CASE Return \/ ReturnBest \/ QuitReturns \/ Quit
  BY <1>5 DEF Return, ReturnBest, QuitReturns, Quit
<1>6. CASE Over \/ UNCHANGED driverVars
  BY <1>6 DEF Over, driverVars, vars, client
<1>7. QED
  BY <1>1, <1>2, <1>3, <1>4, <1>5, <1>6 DEF DriverNext, CallStep

\* An entry without a tuner starts one chain, and the chain is one job long.
LEMMA NoopStep ==
  ASSUME IInv, CallShape, SlotShape, NoopShape, [DriverNext]_driverVars
  PROVE  NoopShape'
<1> USE DEF driver, slots, measured
<1>0. requests \in Nat /\ made \in Nat /\ optimizeQ \in Nat
  BY OptimizerAssumption DEF IInv, TypeOK
<1>1. CASE Use \/ KeepTrial \/ JudgeTrial \/ NoTrial
  BY <1>1 DEF Use, KeepTrial, JudgeTrial, NoTrial, Decision, Enters, NoopShape, CallShape,
              vars, client, optimize
<1>2. CASE Submit
  <2>1. requests = 0 /\ made = 0
    BY <1>2 DEF Submit, SlotShape
  <2>2. ~JobExists
    BY <2>1 DEF IInv, CallsMean
  <2>3. optimizeQ = 0 /\ optPC = "idle"
    BY <1>0, <2>2 DEF JobExists
  <2>4. requests' = 0 /\ made' = 0 /\ optimizeQ' = 0 /\ optPC' = "idle" /\ pc' = pc
    BY <1>2, <2>1, <2>3 DEF Submit, vars, client, optimize
  <2>5. dpc' \in {"recompile", "out"}
    BY <1>2 DEF Submit, Enters
  <2>6. pc' \notin {"status"}
    BY <1>2, <2>4 DEF Submit, Enters, CallShape
  <2>7. QED BY <2>4, <2>5 DEF NoopShape
<1>3. CASE AskStatus \/ AskStatusAgain \/ Experiment
  BY <1>3 DEF AskStatus, AskStatusAgain, Experiment, Decide, NoopShape
<1>4. CASE Call
  <2>1. CASE ~noop
    BY <1>4, <2>1 DEF Call, NoopShape
  <2>2. CASE noop
    <3>1. requests = 0 /\ made = 0
      BY <1>4, <2>2 DEF Call, NoopShape, SlotShape
    <3>2. optimizeQ = 0 /\ optPC = "idle"
      BY <1>0, <3>1 DEF IInv, CallsMean, JobExists
    <3>3. /\ requests' = 1 /\ made' = 0 /\ optimizeQ' = 0 /\ optPC' = "idle"
          /\ dpc' = "waiting"
      BY <1>4, <3>1, <3>2 DEF Call, Recompile, optimize
    <3>4. QED BY <3>3 DEF NoopShape
  <2>3. QED BY <2>1, <2>2
<1>5. CASE InCall
  <2>1. UNCHANGED <<dpc, noop>> /\ dpc = "waiting" /\ requests' = requests
    BY <1>5 DEF InCall, CheckActive, SetActive, StartChain, WaitPoll, Abort
  <2>2. CASE StartChain
    <3>1. optPC = "idle"
      BY <2>2 DEF StartChain, IInv, ChainShape, JobExists
    <3>2. pc' = "wait" /\ optimizeQ' = optimizeQ + 1 /\ optPC' = optPC /\ made' = made
      BY <2>2 DEF StartChain
    <3>3. noop => made = 0 /\ optimizeQ = 0
      BY <2>2 DEF StartChain, NoopShape
    <3>4. QED BY <2>1, <3>1, <3>2, <3>3 DEF NoopShape
  <2>3. CASE CheckActive
    <3>1. pc' \in {"activate", "wait"} /\ UNCHANGED optimize /\ pc = "check"
      BY <2>3 DEF CheckActive
    <3>2. QED BY <2>1, <3>1 DEF NoopShape, optimize
  <2>4. CASE SetActive
    BY <2>1, <2>4 DEF SetActive, NoopShape, optimize
  <2>5. CASE WaitPoll \/ Abort
    BY <2>1, <2>5 DEF WaitPoll, Abort, NoopShape, optimize
  <2>6. QED BY <1>5, <2>2, <2>3, <2>4, <2>5 DEF InCall
<1>6. CASE Return \/ ReturnBest
  BY <1>6 DEF Return, ReturnBest, NoopShape, vars, client, optimize
<1>7. CASE QuitReturns \/ Quit
  BY <1>7 DEF QuitReturns, Quit, Flushed, Destroy, NoopShape, optimize
<1>8. CASE OptimizeJob
  <2>1. UNCHANGED <<dpc, noop, pc, requests>>
    BY <1>8, WorkersApart
  <2>2. CASE OptimizeStart
    BY <1>0, <2>1, <2>2 DEF OptimizeStart, NoopShape
  <2>3. ASSUME NEW more \in BOOLEAN, noop => ~more, OptimizeAsk(more)
        PROVE  NoopShape'
    BY <1>0, <2>1, <2>3 DEF OptimizeAsk, NoopShape
  <2>4. CASE OptimizeDispatch
    BY <1>0, <2>1, <2>4 DEF OptimizeDispatch, NoopShape
  <2>5. QED BY <1>8, <2>2, <2>3, <2>4 DEF OptimizeJob
<1>9. CASE CodegenJob
  <2>1. UNCHANGED optimize
    BY <1>9 DEF CodegenJob, CodegenStep, CodegenStart, AddToList, AddClearsFlag, CodegenFinish
  <2>2. QED BY <1>9, <2>1, WorkersApart DEF NoopShape, optimize
<1>10. CASE Over \/ UNCHANGED driverVars
  BY <1>10 DEF Over, driverVars, NoopShape, vars, client, optimize
<1>11. QED
  BY <1>1, <1>2, <1>3, <1>4, <1>5, <1>6, <1>7, <1>8, <1>9, <1>10 DEF DriverNext, CallStep

\* An entry that was asked before has a trial or a best version.
LEMMA AssertStep ==
  ASSUME IInv, CallShape, SlotShape, AssertHolds, [DriverNext]_driverVars
  PROVE  AssertHolds'
<1> USE DEF AssertHolds, NoLogicError, driver, slots, measured
<1>1. CASE NoTrial
  BY <1>1 DEF NoTrial, Enters, Decision, SlotShape
<1>2. CASE Use \/ Submit \/ KeepTrial \/ JudgeTrial
  BY <1>2 DEF Use, Submit, KeepTrial, JudgeTrial, Enters, Decision
<1>3. CASE AskStatus \/ AskStatusAgain \/ Experiment
  BY <1>3 DEF AskStatus, AskStatusAgain, Experiment, Decide
<1>4. CASE Call \/ InCall
  BY <1>4, InsideCall
<1>5. CASE Return \/ ReturnBest \/ QuitReturns \/ Quit
  BY <1>5 DEF Return, ReturnBest, QuitReturns, Quit
<1>6. CASE OptimizeJob \/ CodegenJob
  BY <1>6, WorkersApart
<1>7. CASE Over \/ UNCHANGED driverVars
  BY <1>7 DEF Over, driverVars
<1>8. QED
  BY <1>1, <1>2, <1>3, <1>4, <1>5, <1>6, <1>7 DEF DriverNext, CallStep

-----------------------------------------------------------------------------
(* The theorems.                                                            *)

LEMMA DInvInit == DriverInit => DInv
<1> SUFFICES ASSUME DriverInit
             PROVE  DInv
  OBVIOUS
<1>1. DriverTypeOK
  <2>1. others \in Seq(Version)
    BY DEF DriverInit
  <2>2. calls \in 0..GoodCalls
    BY DriverAssumption DEF DriverInit
  <2>3. QED BY <2>1, <2>2 DEF DriverInit, DriverTypeOK
<1>2. CallShape /\ SlotShape /\ SlotsApart
  BY DEF DriverInit, Init, CallShape, SlotShape, SlotsApart
<1>3. HandedHolds /\ KeepsProtocol /\ Fresh /\ NoopShape /\ AssertHolds
  BY DEF DriverInit, HandedHolds, KeepsProtocol, Fresh, NoopShape, AssertHolds, NoLogicError
<1>4. QED BY <1>1, <1>2, <1>3 DEF DInv

LEMMA DInvStep == IInv /\ DInv /\ [DriverNext]_driverVars => DInv'
BY DriverTypeStep, CallShapeStep, SlotShapeStep, SlotsApartStep, HandedStep,
   KeepsProtocolStep, FreshStep, NoopStep, AssertStep
DEF DInv

\* The driver is a client of its optimizer: all that is proved of Optimizer holds of
\* the optimizer of an entry (driver.h 131-201).
THEOREM DriverObeys == DriverSpec => Spec
<1>1. DriverInit => Init
  BY DEF DriverInit
<1>2. [DriverNext]_driverVars => [Next]_vars
  BY OptimizerStep
<1>3. QED BY <1>1, <1>2, PTL DEF DriverSpec, Spec

\* The slots, the call under way and the optimizer's client thread fit together in
\* every reachable state (driver.h 101-236).
THEOREM DriverInvariance == DriverSpec => []DInv
<1>1. DriverInit => DInv
  BY DInvInit
<1>2. IInv /\ DInv /\ [DriverNext]_driverVars => DInv'
  BY DInvStep
<1>3. DriverSpec => []IInv
  BY DriverObeys, Invariance
<1>4. QED BY <1>1, <1>2, <1>3, PTL DEF DriverSpec

\* No version is ever in two slots (driver.h 140-152 and 222-228).
THEOREM SlotsKept == DriverSpec => []SlotsApart
<1>1. DInv => SlotsApart
  BY DEF DInv
<1>2. QED BY <1>1, DriverInvariance, PTL

\* The caller's reference is to a filled slot (driver.h 158-161 and 234).
THEOREM HandedFilled == DriverSpec => []HandedHolds
<1>1. DInv => HandedHolds
  BY DEF DInv
<1>2. QED BY <1>1, DriverInvariance, PTL

\* The driver calls recompile() only when the optimizer expects it (driver.h 170-189).
THEOREM ProtocolKept == DriverSpec => []KeepsProtocol
<1>1. DInv => KeepsProtocol
  BY DEF DInv
<1>2. QED BY <1>1, DriverInvariance, PTL

\* The assertion "logic error!" fails for no registered function (driver.h 161).
THEOREM AssertNeverFails == DriverSpec => []AssertHolds
<1>1. DInv => AssertHolds
  BY DEF DInv
<1>2. QED BY <1>1, DriverInvariance, PTL

\* An entry without a tuner is compiled at most once (driver.h 167-168).
THEOREM NoopOnce == DriverSpec => []NoopCompilesOnce
<1>1. IInv /\ DInv => NoopCompilesOnce
  BY DEF IInv, TypeOK, DInv, NoopShape, NoopCompilesOnce
<1>2. DriverSpec => []IInv
  BY DriverObeys, Invariance
<1>3. QED BY <1>1, <1>2, DriverInvariance, PTL

\* When an impatient entry starts a chain, all versions generated before were handed
\* over and judged (driver.h 170-189, BayesianTuner.h 421-427).
THEOREM JudgedFirst == DriverSpec => []JudgedBeforeChain
<1>1. IInv /\ DInv => JudgedBeforeChain
  <2> SUFFICES ASSUME IInv, DInv, Impatient, pc = "dispatch"
               PROVE  made = taken /\ trial = 0
    BY DEF JudgedBeforeChain
  <2>1. ~JobExists /\ recompileDone = <<>>
    BY DEF IInv, ImpatientMeans
  <2>2. codegenQ = <<>> /\ cgPC = "idle" /\ optPC = "idle"
    BY <2>1 DEF JobExists
  <2>3. made = taken + Len(recompileDone) + Compiling + Len(codegenQ) + Optimizing
    BY DEF IInv, Numbered
  <2>4. Compiling = 0 /\ Optimizing = 0
    BY <2>2 DEF Compiling, Optimizing, B2N
  <2>5. made = taken
    BY <2>1, <2>2, <2>3, <2>4 DEF IInv, TypeOK
  <2>6. dpc = "waiting"
    BY DEF DInv, CallShape, DriverTypeOK
  <2>7. QED BY <2>5, <2>6 DEF DInv, SlotShape
<1>2. DriverSpec => []IInv
  BY DriverObeys, Invariance
<1>3. QED BY <1>1, <1>2, DriverInvariance, PTL

\* What a step takes out of the slots.
LEMMA LeaveStep ==
  ASSUME DriverTypeOK, SlotShape, [DriverNext]_driverVars,
         NEW v \in Slots, v \notin Slots'
  PROVE  dpc' = "gone" \/ (v = best /\ best' = trial)
<1> USE DEF slots, measured, driver
<1>1. v # 0 /\ (v = trial \/ v = best \/ \E i \in 1..Len(others) : v = others[i])
  <2>1. others \in Seq(Version) /\ 0 \notin Version
    BY DEF DriverTypeOK, Version
  <2>2. \A i \in 1..Len(others) : others[i] # 0
    BY <2>1, ElementOfSeq
  <2>3. DOMAIN others = 1..Len(others)
    BY <2>1
  <2>4. QED BY <2>2, <2>3 DEF Slots, ToSet
<1>2. CASE UNCHANGED <<trial, best, others>>
  BY <1>2 DEF Slots
<1>3. CASE JudgeTrial
  <2>1. CASE best' = trial /\ UNCHANGED others
    BY <1>1, <1>3, <2>1 DEF Slots, JudgeTrial
  <2>2. CASE others' = Append(others, trial) /\ UNCHANGED best
    <3>1. others \in Seq(Version) /\ trial \in Version
      BY <1>3 DEF DriverTypeOK, JudgeTrial, Version
    <3>2. /\ DOMAIN others' = 1..(Len(others) + 1)
          /\ \A i \in 1..Len(others) : others'[i] = others[i]
          /\ others'[Len(others) + 1] = trial
          /\ Len(others) \in Nat
      BY <2>2, <3>1, AppendProperties, LenProperties
    <3>3. v = trial \/ (\E i \in 1..Len(others) : v = others[i]) => v \in ToSet(others')
      BY <3>2 DEF ToSet
    <3>4. QED BY <1>1, <2>2, <3>3 DEF Slots
  <2>3. QED BY <1>3, <2>1, <2>2 DEF JudgeTrial, Promote
<1>4. CASE Return
  BY <1>1, <1>4 DEF Return, SlotShape, Slots
<1>5. CASE ReturnBest
  <2>1. CASE UNCHANGED <<best, others>>
    BY <1>2, <1>5, <2>1 DEF ReturnBest
  <2>2. ASSUME NEW i \in 1..Len(others), best' = others[i],
               others' = [others EXCEPT ![i] = best]
        PROVE  FALSE
    <3>1. others \in Seq(Version) /\ trial = 0
      BY <1>5 DEF DriverTypeOK, ReturnBest, SlotShape
    <3>2. /\ DOMAIN others' = 1..Len(others)
          /\ others'[i] = best
          /\ \A j \in 1..Len(others) : j # i => others'[j] = others[j]
      BY <2>2, <3>1
    <3>3. v = best => v \in ToSet(others')
      BY <3>2 DEF ToSet
    <3>4. \A j \in 1..Len(others) : v = others[j] => v = best' \/ v \in ToSet(others')
      BY <2>2, <3>2 DEF ToSet
    <3>5. QED BY <1>1, <3>1, <3>3, <3>4 DEF Slots
  <2>3. QED BY <1>5, <2>1, <2>2 DEF ReturnBest, Swap
<1>6. CASE Quit
  BY <1>6 DEF Quit
<1>7. CASE Use \/ Submit \/ KeepTrial \/ NoTrial \/ Experiment \/ Over \/ UNCHANGED driverVars
  BY <1>2, <1>7 DEF Use, Submit, KeepTrial, NoTrial, Experiment, Over, driverVars
<1>8. CASE AskStatus \/ AskStatusAgain \/ QuitReturns
  BY <1>2, <1>8 DEF AskStatus, AskStatusAgain, QuitReturns
<1>9. CASE Call \/ InCall \/ OptimizeJob \/ CodegenJob
  BY <1>2, <1>9 DEF Call, InCall, OptimizeJob, CodegenJob
<1>10. QED
  BY <1>3, <1>4, <1>5, <1>6, <1>7, <1>8, <1>9 DEF DriverNext, CallStep

\* An evaluated version is given up only when a trial beats the best, and then it is
\* that best (driver.h 140-152 and 222-228).
THEOREM BestNeverLost == DriverSpec => OnlyBeatenLeave
<1>1. DInv /\ [DriverNext]_driverVars =>
        [\A v \in Slots : v \notin Slots' => dpc' = "gone" \/ (v = best /\ best' = trial)]_driverVars
  BY LeaveStep DEF DInv
<1>2. QED BY <1>1, DriverInvariance, PTL DEF DriverSpec, OnlyBeatenLeave
=============================================================================
