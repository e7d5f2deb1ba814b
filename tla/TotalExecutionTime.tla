------------------------- MODULE TotalExecutionTime -------------------------
(***************************************************************************)
(* tuner::TotalExecutionTime: running statistics of all the measurements,  *)
(* under the mutex protecc, and cached answers that are written under it   *)
(* and read without it.                                                    *)
(***************************************************************************)
EXTENDS FeedbackBuffer

VARIABLES
  newDeployed, \* of each thread: its local newDeployedTime
  dataPoints, sumSqDiff,
  caGood, caMean, caSize

totals == <<newDeployed, dataPoints, average, sumSqDiff>>
cached == <<caGood, caMean, caSize>>

TotalInit ==
  /\ newDeployed = [t \in Threads |-> 0]
  /\ dataPoints = 0 /\ sumSqDiff = <<0, 1>>
  /\ caGood = FALSE /\ caMean = Huge /\ caSize = 0

\* stdErrorPct <= errBound; stdError is the root of sumSqDiff / (N - 1.5) / N.
ErrorIsSmall(n, squares, mean) ==
  WithinError(<<2 * squares[1], squares[2] * n * (2 * n - 3)>>, mean)

-----------------------------------------------------------------------------
(* Seeded faults, for the properties to notice; no action uses them.         *)

\* EndLock, which takes no lock.
EndUnlocked(t) ==
  /\ mpc[t] = "end"
  /\ mpc' = [mpc EXCEPT ![t] = "check"]
  /\ newDeployed' = [newDeployed EXCEPT ![t] = (deployedTime + time[t]) % (Top + 1)]
  /\ UNCHANGED <<FBK, lock, time, upc, deployedTime, samples, sinceReset, seen>>
  /\ UNCHANGED <<dataPoints, average, sumSqDiff, cached>>

\* EndCheck, which lets the sum wrap around.
EndUnchecked(t) ==
  /\ mpc[t] = "check"
  /\ mpc' = [mpc EXCEPT ![t] = "store"]
  /\ UNCHANGED <<FBK, lock, time, upc, deployedTime, samples, sinceReset, seen>>
  /\ UNCHANGED <<totals, cached>>

\* GoodQuality, by the mean that the last update left.
GoodOfStale ==
  \/ FBK = "Total" /\ dataPoints > MinTrials /\ ErrorIsSmall(dataPoints, sumSqDiff, caMean)
  \/ FBK = "Total_IgnoreError" /\ dataPoints >= 1

-----------------------------------------------------------------------------
(* endMeasurement().                                                        *)

\* The lock is taken; deployedTime is loaded, and the sum may wrap around.
EndLock(t) ==
  /\ mpc[t] = "end" /\ lock = "free"
  /\ lock' = t
  /\ mpc' = [mpc EXCEPT ![t] = "check"]
  /\ newDeployed' = [newDeployed EXCEPT ![t] = (deployedTime + time[t]) % (Top + 1)]
  /\ UNCHANGED <<FBK, time, upc, deployedTime, samples, sinceReset, seen>>
  /\ UNCHANGED <<dataPoints, average, sumSqDiff, cached>>

\* The overflow check loads deployedTime again.
EndCheck(t) ==
  /\ mpc[t] = "check"
  /\ mpc' = [mpc EXCEPT ![t] = "store"]
  /\ newDeployed' = [newDeployed EXCEPT ![t] = IF @ < deployedTime THEN Top ELSE @]
  /\ UNCHANGED <<FBK, lock, time, upc, deployedTime, samples, sinceReset, seen>>
  /\ UNCHANGED <<dataPoints, average, sumSqDiff, cached>>

EndStore(t) ==
  /\ mpc[t] = "store"
  /\ mpc' = [mpc EXCEPT ![t] = "count"]
  /\ deployedTime' = newDeployed[t]
  /\ sinceReset' = sinceReset + time[t]
  /\ UNCHANGED <<FBK, lock, time, upc, samples, seen, totals, cached>>

EndCount(t) ==
  /\ mpc[t] = "count"
  /\ mpc' = [mpc EXCEPT ![t] = "average"]
  /\ dataPoints' = dataPoints + 1
  /\ UNCHANGED <<FBK, lock, time, upc, deployedTime, samples, sinceReset, seen>>
  /\ UNCHANGED <<newDeployed, average, sumSqDiff, cached>>

\* (elapsedTime + (N-1) * average) / N
NewAverage(e) ==
  <<e * average[2] + (dataPoints - 1) * average[1], dataPoints * average[2]>>

\* (elapsedTime - average) * (elapsedTime - newAvg)
SqDiff(e, new) ==
  <<(e * average[2] - average[1]) * (e * new[2] - new[1]), average[2] * new[2]>>

\* The running mean and sum of squares; the lock is released.
EndAverage(t) ==
  /\ mpc[t] = "average"
  /\ IF dataPoints = 1
       THEN average' = <<time[t], 1>> /\ UNCHANGED sumSqDiff
       ELSE /\ average' = NewAverage(time[t])
            /\ sumSqDiff' = Plus(sumSqDiff, SqDiff(time[t], NewAverage(time[t])))
  /\ samples' = Append(samples, time[t])
  /\ lock' = "free"
  /\ mpc' = [mpc EXCEPT ![t] = "out"]
  /\ time' = [time EXCEPT ![t] = 0]
  /\ newDeployed' = [newDeployed EXCEPT ![t] = 0]
  /\ UNCHANGED <<FBK, upc, deployedTime, sinceReset, seen, dataPoints, cached>>

-----------------------------------------------------------------------------
(* updateStats().                                                           *)

GoodQuality ==
  \/ FBK = "Total" /\ dataPoints > MinTrials /\ ErrorIsSmall(dataPoints, sumSqDiff, average)
  \/ FBK = "Total_IgnoreError" /\ dataPoints >= 1

UpdateGood(u) ==
  /\ upc[u] = "begin" /\ lock = "free"
  /\ lock' = u
  /\ upc' = [upc EXCEPT ![u] = "mean"]
  /\ caGood' = GoodQuality
  /\ UNCHANGED <<FBK, mpc, time, deployedTime, samples, sinceReset, seen, totals, caMean, caSize>>

\* The variance goes the same way as the mean.
UpdateMean(u) ==
  /\ upc[u] = "mean"
  /\ upc' = [upc EXCEPT ![u] = "size"]
  /\ caMean' = average
  /\ UNCHANGED <<FBK, lock, mpc, time, deployedTime, samples, sinceReset, seen>>
  /\ UNCHANGED <<totals, caGood, caSize>>

UpdateSize(u) ==
  /\ upc[u] = "size"
  /\ upc' = [upc EXCEPT ![u] = "read"]
  /\ caSize' = dataPoints
  /\ lock' = "free"
  /\ UNCHANGED <<FBK, mpc, time, deployedTime, samples, sinceReset, seen, totals, caGood, caMean>>

TotalNext ==
  \/ BaseNext(Updaters) /\ UNCHANGED <<totals, cached>>
  \/ \E t \in Threads : EndLock(t) \/ EndCheck(t) \/ EndStore(t) \/ EndCount(t) \/ EndAverage(t)
  \/ \E u \in Updaters : UpdateGood(u) \/ UpdateMean(u) \/ UpdateSize(u)

-----------------------------------------------------------------------------
(* Correctness.                                                             *)

\* Feedback.h 322-355: the statistics are those of all the measurements.
TotalCounts ==
  lock = "free" =>
    /\ dataPoints = Len(samples)
    /\ samples # <<>> =>
         /\ Same(average, Mean(samples))
         /\ Same(sumSqDiff, Squares(samples, Mean(samples)))

\* goodQuality() of the first n measurements, from its definition at Feedback.h 369: of more
\* than MinTrials, although the comment at 289-290 promises an answer from 2 on.
GoodAt(n) ==
  LET s == SubSeq(samples, 1, n) IN
    IF FBK = "Total" THEN n > MinTrials /\ ErrorIsSmall(n, Squares(s, Mean(s)), Mean(s))
                     ELSE n >= 1

\* The mean of the first n measurements, as average holds it.
MeanAt(n) == IF n = 0 THEN <<0, 1>> ELSE Mean(SubSeq(samples, 1, n))

\* Feedback.h 363-386: the answers an updater reads are of no moment before its update,
\* although another update may be under way.
TotalFresh ==
  \A u \in Updaters : upc[u] = "read" =>
    LET Since == seen[u]..Len(samples) IN
      /\ \E n \in Since : caGood <=> GoodAt(n)
      /\ \E n \in Since : Same(caMean, MeanAt(n))
      /\ caSize \in Since
=============================================================================
