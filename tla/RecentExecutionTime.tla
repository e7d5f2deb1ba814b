------------------------- MODULE RecentExecutionTime -------------------------
(***************************************************************************)
(* tuner::RecentExecutionTime: the last measurements in a circular buffer  *)
(* under the mutex bufLock, and statistics that are computed from a copy   *)
(* of it, without the lock, into fields every updater shares.              *)
(***************************************************************************)
EXTENDS FeedbackBuffer

CONSTANTS
  BufSz,         \* bufSz
  RecentUpdaters \* those who call updateStats() of an object of this class

ASSUME BufAssumption ==
  /\ BufSz \in Nat \ {0}
  /\ RecentUpdaters \subseteq Updaters

VARIABLES
  buf, cur, observations,
  lastCalc, sampleSz,
  stdErr,   \* the square of stdErr
  copy, arg \* of each updater: its copy of the buffer, and the size it passes on

ring      == <<buf, cur, observations>>
shared    == <<lastCalc, sampleSz, average, stdErr>>
local     == <<copy, arg>>
Unwritten == [i \in 0..(BufSz - 1) |-> 0]

RecentInit ==
  /\ buf = Unwritten /\ cur = 0 /\ observations = 0
  /\ lastCalc = 0 /\ sampleSz = 0 /\ stdErr = <<0, 1>>
  /\ copy = [u \in Updaters |-> Unwritten] /\ arg = [u \in Updaters |-> 0]

-----------------------------------------------------------------------------
(* Seeded fault, for a property to notice; no action uses it.                *)

\* EndDeploy, with the sum computed before the reset is seen.
EndDeployStale(t) ==
  /\ mpc[t] = "deploy"
  /\ mpc' = [mpc EXCEPT ![t] = "out"]
  /\ deployedTime' = (Total(samples) + time[t]) % (Top + 1)
  /\ sinceReset' = sinceReset + time[t]
  /\ samples' = Append(samples, time[t])
  /\ lock' = "free"
  /\ time' = [time EXCEPT ![t] = 0]
  /\ UNCHANGED <<FBK, upc, seen, ring, shared, local>>

-----------------------------------------------------------------------------
(* endMeasurement().                                                        *)

EndRecord(t) ==
  /\ mpc[t] = "end" /\ lock = "free"
  /\ lock' = t
  /\ mpc' = [mpc EXCEPT ![t] = "observe"]
  /\ buf' = [buf EXCEPT ![cur] = time[t]]
  /\ cur' = (cur + 1) % BufSz
  /\ UNCHANGED <<FBK, time, upc, deployedTime, samples, sinceReset, seen>>
  /\ UNCHANGED <<observations, shared, local>>

EndObserve(t) ==
  /\ mpc[t] = "observe"
  /\ mpc' = [mpc EXCEPT ![t] = "deploy"]
  /\ observations' = observations + 1
  /\ UNCHANGED <<FBK, lock, time, upc, deployedTime, samples, sinceReset, seen>>
  /\ UNCHANGED <<buf, cur, shared, local>>

\* An atomic addition, which may wrap around; the lock is released.
EndDeploy(t) ==
  /\ mpc[t] = "deploy"
  /\ mpc' = [mpc EXCEPT ![t] = "out"]
  /\ deployedTime' = (deployedTime + time[t]) % (Top + 1)
  /\ sinceReset' = sinceReset + time[t]
  /\ samples' = Append(samples, time[t])
  /\ lock' = "free"
  /\ time' = [time EXCEPT ![t] = 0]
  /\ UNCHANGED <<FBK, upc, seen, ring, shared, local>>

-----------------------------------------------------------------------------
(* updateStats().                                                           *)

\* Nothing new, as far as a look without the lock can tell.
UpdateSkip(u) ==
  /\ upc[u] = "begin" /\ lastCalc = observations
  /\ upc' = [upc EXCEPT ![u] = "read"]
  /\ UNCHANGED <<FBK, lock, mpc, time, deployedTime, samples, sinceReset, seen>>
  /\ UNCHANGED <<ring, shared, local>>

UpdateLock(u) ==
  /\ upc[u] = "begin" /\ lastCalc # observations
  /\ upc' = [upc EXCEPT ![u] = "copy"]
  /\ UNCHANGED <<FBK, lock, mpc, time, deployedTime, samples, sinceReset, seen>>
  /\ UNCHANGED <<ring, shared, local>>

\* The critical section.
UpdateCopy(u) ==
  /\ upc[u] = "copy" /\ lock = "free"
  /\ upc' = [upc EXCEPT ![u] = "call"]
  /\ lastCalc' = observations
  /\ sampleSz' = Min({BufSz, observations})
  /\ copy' = [copy EXCEPT ![u] = buf]
  /\ UNCHANGED <<FBK, lock, mpc, time, deployedTime, samples, sinceReset, seen>>
  /\ UNCHANGED <<ring, average, stdErr, arg>>

\* sampleSz is read again for the call of calculateBasicStatistics().
UpdateCall(u) ==
  /\ upc[u] = "call"
  /\ upc' = [upc EXCEPT ![u] = "average"]
  /\ arg' = [arg EXCEPT ![u] = sampleSz]
  /\ UNCHANGED <<FBK, lock, mpc, time, deployedTime, samples, sinceReset, seen>>
  /\ UNCHANGED <<ring, shared, copy>>

\* What calculateBasicStatistics() looks at.
Copied(u) == [i \in 1..arg[u] |-> copy[u][i - 1]]

UpdateAverage(u) ==
  /\ upc[u] = "average"
  /\ upc' = [upc EXCEPT ![u] = "error"]
  /\ average' = Mean(Copied(u))
  /\ UNCHANGED <<FBK, lock, mpc, time, deployedTime, samples, sinceReset, seen>>
  /\ UNCHANGED <<ring, lastCalc, sampleSz, stdErr, local>>

\* The square of the standard error of the mean: squares / (n - 1) / n.
ErrorOf(s, mean) ==
  LET n == Len(s)
      q == Squares(s, mean)
  IN  IF n = 1 THEN <<0, 1>> ELSE <<q[1], q[2] * (n - 1) * n>>

\* sampleAvg is a reference to the shared field.
UpdateError(u) ==
  /\ upc[u] = "error"
  /\ upc' = [upc EXCEPT ![u] = "read"]
  /\ stdErr' = ErrorOf(Copied(u), average)
  /\ copy' = [copy EXCEPT ![u] = Unwritten] /\ arg' = [arg EXCEPT ![u] = 0]
  /\ UNCHANGED <<FBK, lock, mpc, time, deployedTime, samples, sinceReset, seen>>
  /\ UNCHANGED <<ring, lastCalc, sampleSz, average>>

\* goodQuality()
RecentGood == lastCalc > MinTrials /\ WithinError(stdErr, average)

RecentNext ==
  \/ BaseNext(RecentUpdaters) /\ UNCHANGED <<ring, shared, local>>
  \/ \E t \in Threads : EndRecord(t) \/ EndObserve(t) \/ EndDeploy(t)
  \/ \E u \in RecentUpdaters : UpdateSkip(u) \/ UpdateLock(u) \/ UpdateCopy(u) \/ UpdateCall(u)
                         \/ UpdateAverage(u) \/ UpdateError(u)

-----------------------------------------------------------------------------
(* Correctness.                                                             *)

\* The last of the first n measurements, as many as the buffer holds.
LastOf(n) == SubSeq(samples, n - Min({n, BufSz}) + 1, n)

\* Feedback.h 168-171: the buffer holds the last measurements, oldest at cur once it is full.
RecentCounts ==
  lock = "free" =>
    /\ observations = Len(samples)
    /\ \A i \in 1..Len(samples) :
         i > Len(samples) - BufSz => buf[(i - 1) % BufSz] = samples[i]

\* Feedback.h 207-231: the answers an updater reads are those of one moment since it began.
RecentFresh ==
  \A u \in Updaters : upc[u] = "read" =>
    \E n \in seen[u]..Len(samples) :
      /\ Same(average, Mean(LastOf(n)))
      /\ sampleSz = Len(LastOf(n))
      /\ RecentGood <=>
           n > MinTrials /\ WithinError(ErrorOf(LastOf(n), Mean(LastOf(n))), Mean(LastOf(n)))

\* Feedback.cpp 91: every time that is averaged was measured.
SamplesWritten ==
  \A u \in Updaters : upc[u] = "average" => \A i \in 1..arg[u] : copy[u][i - 1] > 0
=============================================================================
