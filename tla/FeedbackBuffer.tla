--------------------------- MODULE FeedbackBuffer ---------------------------
(***************************************************************************)
(* What the feedback classes have in common: the versions in use are run   *)
(* and measured by several threads, the driver and a job of the optimizer  *)
(* refresh the statistics and read them, the driver resets the deployed    *)
(* time.  A class adds what endMeasurement() and updateStats() do.         *)
(*                                                                         *)
(* Times are numbers of some unit.  Means and variances are fractions: the *)
(* rounding of double is left out.                                         *)
(***************************************************************************)
EXTENDS Integers, Sequences, FiniteSets, FiniteSetsExt, SequencesExt

CONSTANTS
  Threads,   \* the threads that run the version
  Updaters,  \* who calls updateStats(): "driver", "tuner"
  Times,     \* how long a run may take
  MaxRuns,   \* bound on the runs
  MinTrials, \* DEFAULT_MIN_TRIALS
  Top        \* the largest uint64_t

ASSUME FeedbackAssumption ==
  /\ "driver" \in Updaters /\ Threads \cap Updaters = {} /\ "free" \notin Threads \cup Updaters
  /\ Times \subseteq 1..Top
  /\ MaxRuns \in Nat /\ MinTrials \in Nat /\ Top \in Nat

VARIABLES
  FBK,          \* the kind of feedback
  lock,         \* the holder of the object's mutex, or "free"
  mpc, time,    \* of each thread: where it is, and how long its run took
  upc,          \* where each updater is
  deployedTime, \* the atomic deployedTime
  average,      \* the member average of either class
  \* history
  samples,      \* the measured times, in the order of their critical sections
  sinceReset,   \* the time measured since the last resetDeployedTime()
  seen          \* of each updater: the runs that had ended when it began

base == <<FBK, lock, mpc, time, upc, deployedTime, average, samples, sinceReset, seen>>

BaseInit ==
  /\ lock = "free"
  /\ mpc = [t \in Threads |-> "out"] /\ time = [t \in Threads |-> 0]
  /\ upc = [u \in Updaters |-> "out"] /\ seen = [u \in Updaters |-> 0]
  /\ deployedTime = 0 /\ samples = <<>> /\ sinceReset = 0

-----------------------------------------------------------------------------
(* Fractions.                                                               *)

\* numeric_limits<double>::max(), above every other fraction
Huge == <<1, 0>>

Same(a, b) == a[1] * b[2] = b[1] * a[2] /\ (a[2] = 0 <=> b[2] = 0)

Plus(a, b) == <<a[1] * b[2] + b[1] * a[2], a[2] * b[2]>>

\* 100 * sqrt(square) / mean <= DEFAULT_STD_ERR_PCT
WithinError(square, mean) == 100 * square[1] * mean[2] * mean[2] <= square[2] * mean[1] * mean[1]

Total(s) ==
  LET sum[n \in 0..Len(s)] == IF n = 0 THEN 0 ELSE sum[n - 1] + s[n] IN sum[Len(s)]

Mean(s) == IF s = <<>> THEN Huge ELSE <<Total(s), Len(s)>>

\* The sum of the squared distances from a mean.
Squares(s, m) == <<Total([i \in 1..Len(s) |-> (s[i] * m[2] - m[1]) * (s[i] * m[2] - m[1])]), m[2] * m[2]>>

-----------------------------------------------------------------------------
InFlight == Cardinality({t \in Threads : mpc[t] # "out"})

\* startMeasurement(), the run, and the second look at the clock.
Run(t) ==
  /\ mpc[t] = "out" /\ Len(samples) + InFlight < MaxRuns
  /\ mpc' = [mpc EXCEPT ![t] = "end"]
  /\ \E e \in Times : time' = [time EXCEPT ![t] = e]
  /\ UNCHANGED <<FBK, lock, upc, deployedTime, samples, sinceReset, seen>>

\* resetDeployedTime(): an atomic store, without the lock.
Reset ==
  /\ deployedTime' = 0 /\ sinceReset' = 0
  /\ UNCHANGED <<FBK, lock, mpc, time, upc, samples, seen>>

\* updateStats() is called.
Begin(u) ==
  /\ upc[u] = "out"
  /\ upc' = [upc EXCEPT ![u] = "begin"]
  /\ seen' = [seen EXCEPT ![u] = Len(samples)]
  /\ UNCHANGED <<FBK, lock, mpc, time, deployedTime, samples, sinceReset>>

\* It has returned, and the answers were read.
Done(u) ==
  /\ upc[u] = "read"
  /\ upc' = [upc EXCEPT ![u] = "out"]
  /\ seen' = [seen EXCEPT ![u] = 0]
  /\ UNCHANGED <<FBK, lock, mpc, time, deployedTime, samples, sinceReset>>

\* Those in who call updateStats().
BaseNext(who) ==
  \/ \E t \in Threads : Run(t)
  \/ Reset
  \/ \E u \in who : Begin(u) \/ Done(u)
=============================================================================
