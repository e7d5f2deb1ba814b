----------------------------- MODULE FeedbackProofs -----------------------------
(***************************************************************************)
(* Theorems about Feedback, however runs, updates and resets interleave:   *)
(* what becomes of the deployed time, that every run is counted, and what  *)
(* may be read after an update.                                            *)
(***************************************************************************)
EXTENDS Feedback, Recursion, TLAPS

------------------------------------------------------------------------------
(* The lock.                                                                  *)

\* Where a thread or an updater holds the object's mutex.
InEnd(t) == mpc[t] \in {"check", "store", "count", "average"}
InUpdate(u) == upc[u] \in {"mean", "size"}

TimesKept ==
  /\ mpc \in [Threads -> {"out", "end", "check", "store", "count", "average", "observe", "deploy"}]
  /\ upc \in [Updaters -> {"out", "begin", "mean", "size", "read", "copy", "call", "average", "error"}]
  /\ time \in [Threads -> 0..Top] /\ newDeployed \in [Threads -> 0..Top]
  /\ deployedTime \in 0..Top /\ sinceReset \in Nat

\* The holder of the mutex of a TotalExecutionTime is who is in its critical section.
Held ==
  IsTotal =>
    /\ \A t \in Threads : InEnd(t) => lock = t
    /\ \A u \in Updaters : InUpdate(u) => lock = u

\* A sum that is about to be stored has passed the overflow check, and since then the
\* deployed time was at most reset.
Checked ==
  IsTotal => \A t \in Threads : mpc[t] = "store" => deployedTime <= newDeployed[t]

FInv == TimesKept /\ Held /\ Checked

LEMMA FInit == Init => FInv
BY FeedbackAssumption
DEF Init, BaseInit, TotalInit, FInv, TimesKept, Held, Checked, InEnd, InUpdate

\* One thread or updater moves; the others stay where they are.
LEMMA BaseStep ==
  ASSUME FInv, BaseNext(Updaters) \/ BaseNext(RecentUpdaters), UNCHANGED newDeployed
  PROVE  FInv'
<1> USE FeedbackAssumption, BufAssumption DEF FInv, TimesKept, Held, Checked, InEnd, InUpdate, IsTotal
<1>1. ASSUME NEW t \in Threads, Run(t) PROVE FInv'
  BY <1>1 DEF Run
<1>2. ASSUME Reset PROVE FInv'
  BY <1>2 DEF Reset
<1>3. ASSUME NEW u \in Updaters, Begin(u) PROVE FInv'
  BY <1>3 DEF Begin
<1>4. ASSUME NEW u \in Updaters, Done(u) PROVE FInv'
  BY <1>4 DEF Done
<1>5. QED BY <1>1, <1>2, <1>3, <1>4 DEF BaseNext

LEMMA TotalStep ==
  ASSUME FInv, IsTotal, TotalNext
  PROVE  FInv'
<1> USE FeedbackAssumption DEF FInv, TimesKept, Held, Checked, InEnd, InUpdate, IsTotal
<1>1. CASE BaseNext(Updaters) /\ UNCHANGED <<totals, cached>>
  BY <1>1, BaseStep DEF totals
<1>2. ASSUME NEW t \in Threads, EndLock(t) PROVE FInv'
  <2>1. (deployedTime + time[t]) % (Top + 1) \in 0..Top
    OBVIOUS
  <2>2. QED BY <1>2, <2>1 DEF EndLock, totals, cached
<1>3. ASSUME NEW t \in Threads, EndCheck(t) PROVE FInv'
  BY <1>3 DEF EndCheck, totals, cached
<1>4. ASSUME NEW t \in Threads, EndStore(t) PROVE FInv'
  <2>1. \A other \in Threads : other # t => mpc[other] # "store"
    BY <1>4 DEF EndStore
  <2>2. QED BY <1>4, <2>1 DEF EndStore, totals, cached
<1>5. ASSUME NEW t \in Threads, EndCount(t) PROVE FInv'
  BY <1>5 DEF EndCount, totals, cached
<1>6. ASSUME NEW t \in Threads, EndAverage(t) PROVE FInv'
  BY <1>6 DEF EndAverage, totals, cached
<1>7. ASSUME NEW u \in Updaters, UpdateGood(u) PROVE FInv'
  BY <1>7 DEF UpdateGood, totals, cached
<1>8. ASSUME NEW u \in Updaters, UpdateMean(u) PROVE FInv'
  BY <1>8 DEF UpdateMean, totals, cached
<1>9. ASSUME NEW u \in Updaters, UpdateSize(u) PROVE FInv'
  BY <1>9 DEF UpdateSize, totals, cached
<1>10. QED BY <1>1, <1>2, <1>3, <1>4, <1>5, <1>6, <1>7, <1>8, <1>9 DEF TotalNext

LEMMA RecentStep ==
  ASSUME FInv, ~IsTotal, RecentNext, UNCHANGED ofTotal
  PROVE  FInv'
<1> USE FeedbackAssumption, BufAssumption DEF FInv, TimesKept, Held, Checked, IsTotal, ofTotal
<1>1. CASE BaseNext(RecentUpdaters) /\ UNCHANGED <<ring, shared, local>>
  BY <1>1, BaseStep
<1>2. ASSUME NEW t \in Threads, EndRecord(t) PROVE FInv'
  BY <1>2 DEF EndRecord
<1>3. ASSUME NEW t \in Threads, EndObserve(t) PROVE FInv'
  BY <1>3 DEF EndObserve
<1>4. ASSUME NEW t \in Threads, EndDeploy(t) PROVE FInv'
  <2>1. (deployedTime + time[t]) % (Top + 1) \in 0..Top
    OBVIOUS
  <2>2. QED BY <1>4, <2>1 DEF EndDeploy
<1>5. ASSUME NEW u \in RecentUpdaters, UpdateSkip(u) \/ UpdateLock(u) \/ UpdateCopy(u) PROVE FInv'
  BY <1>5 DEF UpdateSkip, UpdateLock, UpdateCopy
<1>6. ASSUME NEW u \in RecentUpdaters, UpdateCall(u) \/ UpdateAverage(u) \/ UpdateError(u) PROVE FInv'
  BY <1>6 DEF UpdateCall, UpdateAverage, UpdateError
<1>7. QED BY <1>1, <1>2, <1>3, <1>4, <1>5, <1>6 DEF RecentNext

LEMMA FStep == FInv /\ [Next]_vars => FInv'
<1>1. ASSUME FInv, UNCHANGED vars PROVE FInv'
  BY <1>1 DEF FInv, TimesKept, Held, Checked, InEnd, InUpdate, IsTotal, vars, base, ofTotal
<1>2. QED BY <1>1, TotalStep, RecentStep DEF Next

\* In every reachable state the mutex of a TotalExecutionTime is held by who is in its
\* critical section, and a sum about to be stored is no less than the deployed time.
THEOREM LockHeld == Spec => []FInv
BY FInit, FStep, PTL DEF Spec

------------------------------------------------------------------------------
(* The deployed time.                                                         *)

\* Whatever the threads do between the two loads and the store, and even when the sum
\* wraps around, the deployed time of a TotalExecutionTime falls only when it is reset.
THEOREM DeployedOnlyGrows == Spec => OnlyResetLowers
<1>1. ASSUME FInv, [Next]_vars, IsTotal, deployedTime' < deployedTime
      PROVE  deployedTime' = 0 /\ sinceReset' = 0
  <2> USE <1>1 DEF FInv, TimesKept
  <2>1. deployedTime' # deployedTime
    OBVIOUS
  <2>2. TotalNext
    BY <2>1 DEF Next, vars, base
  <2>3. CASE Reset
    BY <2>3 DEF Reset
  <2>4. CASE BaseNext(Updaters) /\ ~Reset
    BY <2>1, <2>4 DEF BaseNext, Run, Begin, Done
  <2>5. ASSUME NEW t \in Threads, EndStore(t) PROVE FALSE
    BY <2>5 DEF EndStore, Checked
  <2>6. ASSUME NEW t \in Threads, EndLock(t) \/ EndCheck(t) \/ EndCount(t) \/ EndAverage(t) PROVE FALSE
    BY <2>1, <2>6 DEF EndLock, EndCheck, EndCount, EndAverage
  <2>7. ASSUME NEW u \in Updaters, UpdateGood(u) \/ UpdateMean(u) \/ UpdateSize(u) PROVE FALSE
    BY <2>1, <2>7 DEF UpdateGood, UpdateMean, UpdateSize
  <2>8. QED BY <2>2, <2>3, <2>4, <2>5, <2>6, <2>7 DEF TotalNext
<1>2. QED BY <1>1, LockHeld, PTL DEF Spec, OnlyResetLowers

\* The atomic addition of a RecentExecutionTime and its history agree on what came after
\* the last reset; when the sum wraps around it is less.
Resets == ~IsTotal => deployedTime <= sinceReset

LEMMA ResetsStep == FInv /\ Resets /\ [Next]_vars => Resets'
<1> SUFFICES ASSUME FInv, Resets, [Next]_vars, ~IsTotal' PROVE Resets'
  BY DEF Resets
<1> USE FeedbackAssumption DEF FInv, TimesKept, Resets
<1>1. ~IsTotal /\ (RecentNext \/ UNCHANGED vars)
  <2>1. CASE IsTotal /\ TotalNext
    BY <2>1 DEF TotalNext, BaseNext, Run, Reset, Begin, Done, EndLock, EndCheck, EndStore, EndCount,
       EndAverage, UpdateGood, UpdateMean, UpdateSize, IsTotal
  <2>2. QED BY <2>1 DEF Next, vars, base, IsTotal
<1>2. ASSUME UNCHANGED <<deployedTime, sinceReset>> PROVE Resets'
  BY <1>1, <1>2
<1>3. CASE UNCHANGED vars \/ (BaseNext(RecentUpdaters) /\ ~Reset)
  BY <1>2, <1>3 DEF vars, base, BaseNext, Run, Begin, Done
<1>4. CASE Reset
  BY <1>4 DEF Reset
<1>5. ASSUME NEW t \in Threads, EndDeploy(t) PROVE Resets'
  <2>1. (deployedTime + time[t]) % (Top + 1) <= deployedTime + time[t]
    OBVIOUS
  <2>2. QED BY <1>1, <1>5, <2>1 DEF EndDeploy
<1>6. ASSUME NEW t \in Threads, EndRecord(t) \/ EndObserve(t) PROVE Resets'
  BY <1>2, <1>6 DEF EndRecord, EndObserve
<1>7. ASSUME NEW u \in RecentUpdaters, UpdateSkip(u) \/ UpdateLock(u) \/ UpdateCopy(u) \/ UpdateCall(u)
                                         \/ UpdateAverage(u) \/ UpdateError(u) PROVE Resets'
  BY <1>2, <1>7 DEF UpdateSkip, UpdateLock, UpdateCopy, UpdateCall, UpdateAverage, UpdateError
<1>8. QED BY <1>1, <1>3, <1>4, <1>5, <1>6, <1>7 DEF RecentNext

\* A RecentExecutionTime, whose deployed time is added to atomically, loses no reset.
THEOREM ResetsKept == Spec => []RecentResets
<1>1. Init => Resets
  BY DEF Init, BaseInit, Resets
<1>2. Resets => RecentResets
  BY DEF Resets, RecentResets, ResetHolds
<1>3. QED BY <1>1, <1>2, ResetsStep, LockHeld, PTL DEF Spec

------------------------------------------------------------------------------
(* The circular buffer.                                                       *)

\* What the place of a number is.
LEMMA PlaceIs ==
  ASSUME NEW size \in Nat \ {0}, NEW i \in Nat
  PROVE  /\ i % size \in Int /\ 0 <= i % size /\ i % size < size
         /\ i \div size \in Int /\ i = size * (i \div size) + (i % size)
<1>1. i % size \in Int /\ 0 <= i % size /\ i % size < size
  OBVIOUS
<1>2. i \div size \in Int
  OBVIOUS
<1>3. i = size * (i \div size) + (i % size)
  OBVIOUS
<1>4. QED BY <1>1, <1>2, <1>3

\* Two numbers less than the buffer's size apart have different places in it.
LEMMA PlacesApart ==
  ASSUME NEW size \in Nat \ {0}, NEW i \in Nat, NEW j \in Nat, i < j, j < i + size
  PROVE  i % size # j % size
<1> SUFFICES ASSUME i % size = j % size PROVE FALSE
  OBVIOUS
<1>1. /\ i = size * (i \div size) + (i % size) /\ i \div size \in Int
      /\ j = size * (j \div size) + (j % size) /\ j \div size \in Int
  BY PlaceIs
<1> DEFINE turns == (j \div size) - (i \div size)
<1>2. turns \in Int /\ j - i = size * turns
  BY <1>1
<1> HIDE DEF turns
<1>3. \A k \in Int : k >= 1 => size * k >= size
  OBVIOUS
<1>4. \A k \in Int : k <= 0 => size * k <= 0
  OBVIOUS
<1>5. QED BY <1>2, <1>3, <1>4

\* The place after that of a number is the next one's.
LEMMA NextPlace ==
  ASSUME NEW size \in Nat \ {0}, NEW i \in Nat
  PROVE  ((i % size) + 1) % size = (i + 1) % size
<1> DEFINE r == i % size
           s == (i + 1) % size
           p == size * (i \div size)
           q == size * ((i + 1) \div size)
           turns == ((i + 1) \div size) - (i \div size)
<1>1. r \in Int /\ 0 <= r /\ r < size /\ p \in Int /\ i = p + r
  BY PlaceIs
<1>2. s \in Int /\ 0 <= s /\ s < size /\ q \in Int /\ i + 1 = q + s
  <2>1. i + 1 \in Nat
    OBVIOUS
  <2>2. QED BY <2>1, PlaceIs
<1>3. turns \in Int /\ q - p = size * turns
  <2>1. i + 1 \in Nat
    OBVIOUS
  <2>2. (i + 1) \div size \in Int /\ i \div size \in Int
    BY <2>1, PlaceIs
  <2>3. \A a, b \in Int : size * a - size * b = size * (a - b)
    OBVIOUS
  <2>4. QED BY <2>2, <2>3
<1>4. \A k \in Int : k >= 2 => size * k >= 2 * size
  OBVIOUS
<1>5. \A k \in Int : k <= 0 - 1 => size * k <= 0 - size
  OBVIOUS
<1>6. size * 0 = 0 /\ size * 1 = size
  OBVIOUS
<1>7. \A k \in Nat : k < size => k % size = k
  OBVIOUS
<1>8. size % size = 0
  OBVIOUS
<1>9. (r + 1) % size = s
  <2> HIDE DEF r, s, p, q, turns
  <2>1. r + 1 - s = size * turns
    BY <1>1, <1>2, <1>3
  <2>2. turns = 0 \/ turns = 1
    BY <1>1, <1>2, <1>3, <1>4, <1>5, <2>1
  <2>3. r + 1 = s \/ (r + 1 = size /\ s = 0)
    BY <1>1, <1>2, <1>6, <2>1, <2>2
  <2>4. QED BY <1>2, <1>7, <1>8, <2>3
<1>10. QED BY <1>9

\* A measurement between its first and its last step is in the buffer, but not yet among
\* the samples.
Recording(t) == mpc[t] \in {"observe", "deploy"}
B2N(b) == IF b THEN 1 ELSE 0

RingShape ==
  /\ buf \in [0..(BufSz - 1) -> Nat] /\ cur \in 0..(BufSz - 1) /\ observations \in Nat
  /\ samples \in Seq(Nat)
  /\ lock \in Threads \cup {"free"}
  /\ \A t \in Threads : Recording(t) <=> lock = t
  /\ cur = (Len(samples) + B2N(lock # "free")) % BufSz
  /\ observations = Len(samples) + B2N(lock # "free" /\ mpc[lock] = "deploy")
  /\ lock # "free" => buf[Len(samples) % BufSz] = time[lock]
  /\ \A i \in 1..Len(samples) :
       i > Len(samples) + B2N(lock # "free") - BufSz => buf[(i - 1) % BufSz] = samples[i]

Ring == ~IsTotal => RingShape

LEMMA RingStep == FInv /\ Ring /\ [Next]_vars => Ring'
<1> SUFFICES ASSUME FInv, Ring, [Next]_vars, ~IsTotal' PROVE RingShape'
  BY DEF Ring
<1> USE FeedbackAssumption, BufAssumption DEF FInv, TimesKept
<1>1. ~IsTotal /\ (RecentNext \/ UNCHANGED vars)
  <2>1. CASE IsTotal /\ TotalNext
    BY <2>1 DEF TotalNext, BaseNext, Run, Reset, Begin, Done, EndLock, EndCheck, EndStore, EndCount,
       EndAverage, UpdateGood, UpdateMean, UpdateSize, IsTotal
  <2>2. QED BY <2>1 DEF Next, vars, base, IsTotal
<1>2. RingShape
  BY <1>1 DEF Ring
<1>3. ASSUME UNCHANGED <<lock, mpc, time, samples, ring>> PROVE RingShape'
  BY <1>2, <1>3 DEF RingShape, Recording, B2N, ring
<1>4. ASSUME NEW t \in Threads, Run(t), UNCHANGED ring PROVE RingShape'
  BY <1>2, <1>4 DEF Run, RingShape, Recording, B2N, ring
<1>5. CASE UNCHANGED vars
  BY <1>3, <1>5 DEF vars, base, ofRecent
<1>6. CASE BaseNext(RecentUpdaters) /\ UNCHANGED <<ring, shared, local>>
  BY <1>3, <1>4, <1>6 DEF BaseNext, Reset, Begin, Done
<1>7. ASSUME NEW t \in Threads, EndRecord(t) PROVE RingShape'
  <2> DEFINE n == Len(samples)
  <2>1. /\ lock = "free" /\ lock' = t /\ mpc[t] = "end" /\ mpc' = [mpc EXCEPT ![t] = "observe"]
        /\ buf' = [buf EXCEPT ![cur] = time[t]] /\ cur' = (cur + 1) % BufSz
        /\ UNCHANGED <<time, samples, observations>> /\ t # "free"
    BY <1>7 DEF EndRecord
  <2>2. n \in Nat /\ n' = n /\ cur = n % BufSz /\ observations = n
    BY <1>2, <2>1 DEF RingShape, B2N
  <2>3. cur' = (n + 1) % BufSz
    BY <2>1, <2>2, NextPlace
  <2>4. cur' \in 0..(BufSz - 1) /\ buf' \in [0..(BufSz - 1) -> Nat] /\ buf'[n % BufSz] = time'[lock']
    <3>1. cur \in 0..(BufSz - 1) /\ buf \in [0..(BufSz - 1) -> Nat] /\ time[t] \in Nat
      BY <1>2 DEF RingShape
    <3>2. cur' \in 0..(BufSz - 1)
      BY <2>2, <2>3, PlaceIs
    <3>3. buf' \in [0..(BufSz - 1) -> Nat] /\ buf'[cur] = time[t]
      BY <2>1, <3>1
    <3>4. QED BY <2>1, <2>2, <3>2, <3>3
  <2>5. ASSUME NEW i \in 1..n, i > n + 1 - BufSz
        PROVE  buf'[(i - 1) % BufSz] = samples[i]
    <3>1. (i - 1) % BufSz # n % BufSz
      <4>1. i - 1 \in Nat /\ i - 1 < n /\ n < i - 1 + BufSz
        BY <2>2, <2>5
      <4>2. QED BY <2>2, <4>1, PlacesApart
    <3>2. buf[(i - 1) % BufSz] = samples[i]
      BY <1>2, <2>1, <2>2, <2>5 DEF RingShape, B2N
    <3>3. (i - 1) % BufSz \in 0..(BufSz - 1)
      <4>1. i - 1 \in Nat
        BY <2>2, <2>5
      <4>2. QED BY <4>1, PlaceIs
    <3>4. buf'[(i - 1) % BufSz] = buf[(i - 1) % BufSz]
      BY <1>2, <2>1, <2>2, <3>1, <3>3 DEF RingShape
    <3>5. QED BY <3>2, <3>4
  <2>6. ASSUME NEW s \in Threads
        PROVE  Recording(s)' <=> lock' = s
    <3>1. Recording(s) <=> lock = s
      BY <1>2 DEF RingShape
    <3>2. QED BY <2>1, <3>1 DEF Recording
  <2>7. QED BY <1>2, <2>1, <2>2, <2>3, <2>4, <2>5, <2>6 DEF RingShape, B2N
<1>8. ASSUME NEW t \in Threads, EndObserve(t) PROVE RingShape'
  <2>1. /\ mpc[t] = "observe" /\ mpc' = [mpc EXCEPT ![t] = "deploy"] /\ observations' = observations + 1
        /\ UNCHANGED <<lock, time, samples, buf, cur>>
    BY <1>8 DEF EndObserve
  <2>2. lock = t /\ t # "free"
    BY <1>2, <2>1 DEF RingShape, Recording
  <2>3. QED BY <1>2, <2>1, <2>2 DEF RingShape, Recording, B2N
<1>9. ASSUME NEW t \in Threads, EndDeploy(t) PROVE RingShape'
  <2> DEFINE n == Len(samples)
  <2>1. /\ mpc[t] = "deploy" /\ mpc' = [mpc EXCEPT ![t] = "out"] /\ samples' = Append(samples, time[t])
        /\ lock' = "free" /\ UNCHANGED ring
    BY <1>9 DEF EndDeploy
  <2>2. lock = t /\ t # "free" /\ n \in Nat /\ samples \in Seq(Nat) /\ time[t] \in Nat
    BY <1>2, <2>1 DEF RingShape, Recording
  <2>3. /\ samples' \in Seq(Nat) /\ Len(samples') = n + 1 /\ samples'[n + 1] = time[t]
        /\ \A i \in 1..n : samples'[i] = samples[i]
    BY <2>1, <2>2
  <2>4. ASSUME NEW i \in 1..(n + 1), i > n + 1 - BufSz
        PROVE  buf[(i - 1) % BufSz] = samples'[i]
    <3>1. CASE i = n + 1
      BY <1>2, <2>2, <2>3, <3>1 DEF RingShape
    <3>2. CASE i \in 1..n
      BY <1>2, <2>2, <2>3, <2>4, <3>2 DEF RingShape, B2N
    <3>3. QED BY <2>2, <3>1, <3>2
  <2>5. cur = (n + 1) % BufSz /\ observations = n + 1
    BY <1>2, <2>1, <2>2 DEF RingShape, B2N
  <2>6. \A s \in Threads : Recording(s)' <=> lock' = s
    BY <1>2, <2>1, <2>2 DEF RingShape, Recording
  <2>7. UNCHANGED <<buf, cur, observations>>
    BY <2>1 DEF ring
  <2>8. /\ buf' \in [0..(BufSz - 1) -> Nat] /\ cur' \in 0..(BufSz - 1) /\ observations' \in Nat
        /\ samples' \in Seq(Nat) /\ lock' \in Threads \cup {"free"}
    BY <1>2, <2>1, <2>3, <2>7 DEF RingShape
  <2>9. /\ cur' = (Len(samples') + B2N(lock' # "free")) % BufSz
        /\ observations' = Len(samples') + B2N(lock' # "free" /\ mpc'[lock'] = "deploy")
    BY <2>1, <2>2, <2>3, <2>5, <2>7 DEF B2N
  <2>10. \A i \in 1..Len(samples') :
           i > Len(samples') + B2N(lock' # "free") - BufSz => buf'[(i - 1) % BufSz] = samples'[i]
    BY <2>1, <2>2, <2>3, <2>4, <2>7 DEF B2N
  <2>11. QED BY <2>1, <2>6, <2>8, <2>9, <2>10 DEF RingShape
<1>10. ASSUME NEW u \in RecentUpdaters, UpdateSkip(u) \/ UpdateLock(u) \/ UpdateCopy(u) \/ UpdateCall(u)
                                          \/ UpdateAverage(u) \/ UpdateError(u) PROVE RingShape'
  BY <1>3, <1>10 DEF UpdateSkip, UpdateLock, UpdateCopy, UpdateCall, UpdateAverage, UpdateError
<1>11. QED BY <1>1, <1>5, <1>6, <1>7, <1>8, <1>9, <1>10 DEF RecentNext

LEMMA RingKept == Spec => [](FInv /\ Ring)
<1>1. Init => Ring
  <2> SUFFICES ASSUME Init PROVE RingShape
    BY DEF Ring
  <2>1. 0 % BufSz = 0
    BY BufAssumption
  <2>2. QED BY <2>1, FeedbackAssumption, BufAssumption
            DEF Init, BaseInit, RecentInit, Unwritten, RingShape, Recording, B2N
<1>2. QED BY <1>1, RingStep, LockHeld, PTL DEF Spec

\* For every size of the circular buffer and any number of threads: when nobody is in the
\* critical section, every measurement was observed and the buffer holds the last ones.
THEOREM BufferHoldsLast == Spec => [](~IsTotal => RecentCounts)
<1>1. Ring => (~IsTotal => RecentCounts)
  BY BufAssumption DEF Ring, RingShape, RecentCounts, B2N
<1>2. QED BY <1>1, RingKept, PTL

------------------------------------------------------------------------------
(* The count of a TotalExecutionTime.                                         *)

\* It is one ahead of the measurements only in the critical section of one of them.
CountShape ==
  /\ samples \in Seq(Nat)
  /\ dataPoints = Len(samples) + B2N(lock \in Threads /\ mpc[lock] = "average")

Count == IsTotal => CountShape

LEMMA CountStep == FInv /\ Count /\ [Next]_vars => Count'
<1> SUFFICES ASSUME FInv, Count, [Next]_vars, IsTotal' PROVE CountShape'
  BY DEF Count
<1> USE FeedbackAssumption, BufAssumption DEF FInv, TimesKept, CountShape, B2N
<1>1. IsTotal /\ (TotalNext \/ UNCHANGED vars)
  <2>1. CASE ~IsTotal /\ RecentNext
    BY <2>1 DEF RecentNext, BaseNext, Run, Reset, Begin, Done, EndRecord, EndObserve, EndDeploy,
       UpdateSkip, UpdateLock, UpdateCopy, UpdateCall, UpdateAverage, UpdateError, IsTotal
  <2>2. QED BY <2>1 DEF Next, vars, base, IsTotal
<1>2. CountShape /\ Held
  BY <1>1 DEF Count
<1>3. ASSUME UNCHANGED <<lock, mpc, samples, dataPoints>> PROVE CountShape'
  BY <1>2, <1>3
<1>4. CASE UNCHANGED vars
  BY <1>3, <1>4 DEF vars, base, ofTotal
<1>5. ASSUME NEW t \in Threads, Run(t), UNCHANGED totals PROVE CountShape'
  BY <1>2, <1>5 DEF Run, totals
<1>6. CASE BaseNext(Updaters) /\ UNCHANGED <<totals, cached>>
  BY <1>3, <1>5, <1>6 DEF BaseNext, Reset, Begin, Done, totals
<1>7. ASSUME NEW t \in Threads, EndLock(t) PROVE CountShape'
  BY <1>2, <1>7 DEF EndLock
<1>8. ASSUME NEW t \in Threads, EndCheck(t) \/ EndStore(t) \/ EndCount(t) \/ EndAverage(t) PROVE CountShape'
  <2>1. lock = t
    BY <1>1, <1>2, <1>8 DEF EndCheck, EndStore, EndCount, EndAverage, Held, InEnd
  <2>2. time[t] \in Nat
    OBVIOUS
  <2>3. CASE EndCheck(t)
    BY <1>2, <2>1, <2>3 DEF EndCheck
  <2>4. CASE EndStore(t)
    BY <1>2, <2>1, <2>4 DEF EndStore, totals
  <2>5. CASE EndCount(t)
    BY <1>2, <2>1, <2>5 DEF EndCount
  <2>6. CASE EndAverage(t)
    BY <1>2, <2>1, <2>2, <2>6 DEF EndAverage
  <2>7. QED BY <1>8, <2>3, <2>4, <2>5, <2>6
<1>9. ASSUME NEW u \in Updaters, UpdateGood(u) \/ UpdateMean(u) \/ UpdateSize(u) PROVE CountShape'
  <2>1. u \notin Threads /\ "free" \notin Threads
    OBVIOUS
  <2>2. CASE UpdateGood(u)
    BY <1>2, <2>1, <2>2 DEF UpdateGood, totals
  <2>3. CASE UpdateMean(u) \/ UpdateSize(u)
    <3>1. lock = u
      BY <1>1, <1>2, <2>3 DEF UpdateMean, UpdateSize, Held, InUpdate
    <3>2. QED BY <1>2, <2>1, <2>3, <3>1 DEF UpdateMean, UpdateSize, totals
  <2>4. QED BY <1>9, <2>2, <2>3
<1>10. QED BY <1>1, <1>4, <1>6, <1>7, <1>8, <1>9 DEF TotalNext

\* Runs that end at the same time are all counted by a TotalExecutionTime, for any number
\* of threads and updaters.
THEOREM NoRunUncounted == Spec => [](IsTotal /\ lock = "free" => dataPoints = Len(samples))
<1>1. Init => Count
  BY FeedbackAssumption DEF Init, BaseInit, TotalInit, Count, CountShape, B2N
<1>2. Count => (IsTotal /\ lock = "free" => dataPoints = Len(samples))
  BY FeedbackAssumption DEF Count, CountShape, B2N
<1>3. QED BY <1>1, <1>2, CountStep, LockHeld, PTL DEF Spec

------------------------------------------------------------------------------
(* Sums.                                                                      *)

\* g[k] is the sum of the first k elements of s.
IsSums(s, g) ==
  /\ g \in [0..Len(s) -> Int] /\ g[0] = 0
  /\ \A k \in 1..Len(s) : g[k] = g[k - 1] + s[k]

LEMMA TotalExists ==
  ASSUME NEW s, NEW n \in Nat, n = Len(s), \A i \in 1..n : s[i] \in Int
  PROVE  \E g : IsSums(s, g) /\ Total(s) = g[n]
<1> DEFINE Sum(g) == g = [k \in 0..n |-> IF k = 0 THEN 0 ELSE g[k - 1] + s[k]]
           step == [kx \in (1..n) \X Int |-> kx[2] + s[kx[1]]]
           h == CHOOSE g : Sum(g)
<1>1. \E g : Sum(g)
  <2>1. step \in [(1..n) \X Int -> Int] /\ 0 \in Int
    OBVIOUS
  <2>2. \A k \in 1..n, x \in Int : step[<<k, x>>] = x + s[k]
    OBVIOUS
  <2> HIDE DEF step
  <2>3. PICK g : Rounds(n, 0, step, Int, g)
    BY <2>1, RoundsExist
  <2>4. ASSUME NEW k \in 0..n PROVE g[k] = IF k = 0 THEN 0 ELSE g[k - 1] + s[k]
    <3>1. CASE k = 0
      BY <2>3, <3>1 DEF Rounds
    <3>2. CASE k # 0
      <4>1. k \in 1..n /\ k - 1 \in 0..n
        BY <3>2
      <4>2. g[k - 1] \in Int
        BY <2>3, <4>1 DEF Rounds
      <4>3. QED BY <2>2, <2>3, <4>1, <4>2 DEF Rounds
    <3>3. QED BY <3>1, <3>2
  <2>5. Sum(g)
    BY <2>3, <2>4 DEF Rounds
  <2> HIDE DEF Sum
  <2>6. QED BY <2>5
<1>2. Sum(h)
  <2> HIDE DEF Sum
  <2>1. QED BY <1>1
<1>3. Total(s) = h[n]
  BY DEF Total
<1> HIDE DEF h
<1> DEFINE A == {k \in 0..n : h[k] \in Int}
<1>4. \A k \in 0..n : k \in A
  <2>1. 0 \in A
    BY <1>2
  <2>2. ASSUME NEW k \in 0..(n - 1), k \in A PROVE k + 1 \in A
    BY <1>2, <2>2
  <2> HIDE DEF A
  <2>3. QED BY <2>1, <2>2, UpTo
<1>5. h \in [0..n -> Int] /\ h[0] = 0
  BY <1>2, <1>4
<1>6. \A k \in 1..n : h[k] = h[k - 1] + s[k]
  BY <1>2
<1>7. QED BY <1>3, <1>5, <1>6 DEF IsSums

\* There is only one sequence of sums.
LEMMA TotalIs ==
  ASSUME NEW s, NEW n \in Nat, n = Len(s), \A i \in 1..n : s[i] \in Int, NEW g, IsSums(s, g)
  PROVE  Total(s) = g[n]
<1>1. PICK h : IsSums(s, h) /\ Total(s) = h[n]
  BY TotalExists
<1> DEFINE A == {k \in 0..n : g[k] = h[k]}
<1>2. 0 \in A
  BY <1>1 DEF IsSums
<1>3. ASSUME NEW k \in 0..(n - 1), k \in A PROVE k + 1 \in A
  BY <1>1, <1>3 DEF IsSums
<1>4. \A k \in 0..n : k \in A
  <2> HIDE DEF A
  <2>1. QED BY <1>2, <1>3, UpTo
<1>5. QED BY <1>1, <1>4

LEMMA TotalAppend ==
  ASSUME NEW s \in Seq(Int), NEW x \in Int
  PROVE  /\ Total(s) \in Int /\ Total(Append(s, x)) = Total(s) + x
         /\ Total(<<>>) = 0
<1> DEFINE n == Len(s)
           t == Append(s, x)
<1>1. PICK g : IsSums(s, g) /\ Total(s) = g[n]
  <2>1. n \in Nat /\ \A i \in 1..n : s[i] \in Int
    OBVIOUS
  <2>2. QED BY <2>1, TotalExists
<1> DEFINE h == [k \in 0..(n + 1) |-> IF k = n + 1 THEN g[n] + x ELSE g[k]]
<1>2. Len(t) = n + 1 /\ n \in Nat /\ t[n + 1] = x /\ \A k \in 1..n : t[k] = s[k]
  OBVIOUS
<1> HIDE DEF t
<1>3. IsSums(t, h)
  BY <1>1, <1>2 DEF IsSums
<1>4. Total(t) = g[n] + x
  <2>1. \A i \in 1..Len(t) : t[i] \in Int
    BY <1>2
  <2>2. Total(t) = h[n + 1]
    BY <1>2, <1>3, <2>1, TotalIs
  <2>3. QED BY <1>2, <2>2
<1>5. Total(<<>>) = 0
  <2> DEFINE e == <<>>
  <2>1. 0 = Len(e) /\ 0 \in Nat /\ \A i \in 1..0 : e[i] \in Int
    OBVIOUS
  <2> HIDE DEF e
  <2>2. PICK f : IsSums(e, f) /\ Total(e) = f[0]
    BY <2>1, TotalExists
  <2>3. QED BY <2>2 DEF IsSums, e
<1>6. QED BY <1>1, <1>4, <1>5 DEF IsSums, t

\* The sum of the squares of s.
SquaresOf(s) == [i \in 1..Len(s) |-> s[i] * s[i]]

LEMMA SquaresOfAppend ==
  ASSUME NEW s \in Seq(Int), NEW x \in Int
  PROVE  /\ Total(SquaresOf(s)) \in Int
         /\ Total(SquaresOf(Append(s, x))) = Total(SquaresOf(s)) + x * x
         /\ Total(SquaresOf(<<>>)) = 0
<1>1. SquaresOf(s) \in Seq(Int)
  BY DEF SquaresOf
<1>2. SquaresOf(Append(s, x)) = Append(SquaresOf(s), x * x)
  BY DEF SquaresOf
<1>3. SquaresOf(<<>>) = <<>>
  BY DEF SquaresOf
<1>4. QED BY <1>1, <1>2, <1>3, TotalAppend

\* The sum of the squared distances from p / q, times q * q.
LEMMA DistancesAre ==
  ASSUME NEW s \in Seq(Int), NEW p \in Int, NEW q \in Int
  PROVE  Squares(s, <<p, q>>)[1]
           = q * q * Total(SquaresOf(s)) - 2 * p * q * Total(s) + Len(s) * p * p
<1> DEFINE n == Len(s)
           d == [i \in 1..n |-> (s[i] * q - p) * (s[i] * q - p)]
<1>1. n \in Nat /\ n = Len(s) /\ \A i \in 1..n : s[i] \in Int
  OBVIOUS
<1>2. n = Len(d) /\ \A i \in 1..n : d[i] \in Int /\ d[i] = (s[i] * q - p) * (s[i] * q - p)
  OBVIOUS
<1>3. n = Len(SquaresOf(s)) /\ \A i \in 1..n : SquaresOf(s)[i] \in Int /\ SquaresOf(s)[i] = s[i] * s[i]
  BY DEF SquaresOf
<1>4. Squares(s, <<p, q>>)[1] = Total(d)
  BY DEF Squares
<1> HIDE DEF n, d
<1>5. PICK f : IsSums(s, f) /\ Total(s) = f[n]
  BY <1>1, TotalExists
<1>6. PICK g : IsSums(SquaresOf(s), g) /\ Total(SquaresOf(s)) = g[n]
  BY <1>1, <1>3, TotalExists
<1> DEFINE h == [k \in 0..n |-> q * q * g[k] - 2 * p * q * f[k] + k * p * p]
<1>7. \A k \in 0..n : f[k] \in Int /\ g[k] \in Int
  BY <1>1, <1>3, <1>5, <1>6 DEF IsSums
<1>8. ASSUME NEW k \in 1..n
      PROVE  h[k] = h[k - 1] + d[k]
  <2>1. k - 1 \in 0..n /\ k \in 0..n /\ k \in Int
    BY <1>1
  <2>2. f[k] = f[k - 1] + s[k] /\ g[k] = g[k - 1] + s[k] * s[k]
    BY <1>1, <1>3, <1>5, <1>6 DEF IsSums
  <2>3. \A F, G, x, y \in Int :
          q * q * (G + x * x) - 2 * p * q * (F + x) + y * p * p
            = q * q * G - 2 * p * q * F + (y - 1) * p * p + (x * q - p) * (x * q - p)
    OBVIOUS
  <2>4. s[k] \in Int /\ f[k - 1] \in Int /\ g[k - 1] \in Int
    BY <1>1, <1>7, <2>1
  <2>5. h[k] = q * q * (g[k - 1] + s[k] * s[k]) - 2 * p * q * (f[k - 1] + s[k]) + k * p * p
    BY <2>1, <2>2
  <2>6. h[k - 1] = q * q * g[k - 1] - 2 * p * q * f[k - 1] + (k - 1) * p * p
    BY <2>1
  <2>7. d[k] = (s[k] * q - p) * (s[k] * q - p)
    BY <1>2
  <2> DEFINE F == f[k - 1]
             G == g[k - 1]
             x == s[k]
  <2> HIDE DEF h, F, G, x
  <2>8. F \in Int /\ G \in Int /\ x \in Int
    BY <2>4 DEF F, G, x
  <2>9. q * q * (G + x * x) - 2 * p * q * (F + x) + k * p * p
          = q * q * G - 2 * p * q * F + (k - 1) * p * p + (x * q - p) * (x * q - p)
    BY <2>1, <2>3, <2>8
  <2>10. h[k] = q * q * (G + x * x) - 2 * p * q * (F + x) + k * p * p
    BY <2>5 DEF F, G, x
  <2>11. h[k - 1] = q * q * G - 2 * p * q * F + (k - 1) * p * p
    BY <2>6 DEF F, G, x
  <2>12. d[k] = (x * q - p) * (x * q - p)
    BY <2>7 DEF F, G, x
  <2>13. QED BY <2>9, <2>10, <2>11, <2>12
<1>9. h \in [0..n -> Int]
  BY <1>1, <1>7
<1>10. h[0] = 0
  BY <1>1, <1>3, <1>5, <1>6 DEF IsSums
<1>11. h[n] = q * q * Total(SquaresOf(s)) - 2 * p * q * Total(s) + n * p * p
  BY <1>1, <1>5, <1>6
<1>12. Total(d) = h[n]
  <2> HIDE DEF h
  <2>1. IsSums(d, h)
    BY <1>2, <1>8, <1>9, <1>10 DEF IsSums
  <2>2. QED BY <1>1, <1>2, <2>1, TotalIs
<1>13. QED BY <1>4, <1>11, <1>12 DEF n

\* t has the n elements of s, but begins behind the first r.
Rotated(s, t, n, r) ==
  /\ Len(s) = n /\ Len(t) = n
  /\ \A i \in 1..n : s[i] \in Int /\ t[i] \in Int
  /\ \A i \in 1..(n - r) : t[i] = s[r + i]
  /\ \A i \in (n - r + 1)..n : t[i] = s[i - (n - r)]

\* A rotated sequence has the same sum.
LEMMA TotalRotated ==
  ASSUME NEW s, NEW t, NEW n \in Nat, NEW r \in 0..n, Rotated(s, t, n, r)
  PROVE  Total(t) = Total(s)
<1>1. PICK f : IsSums(s, f) /\ Total(s) = f[n]
  BY TotalExists DEF Rotated
<1>2. f \in [0..n -> Int] /\ f[0] = 0 /\ \A k \in 1..n : f[k] = f[k - 1] + s[k]
  BY <1>1 DEF IsSums, Rotated
<1> DEFINE g == [k \in 0..n |-> IF k <= n - r THEN f[r + k] - f[r] ELSE f[n] - f[r] + f[k - (n - r)]]
<1>3. \A k \in 0..n : f[k] \in Int
  BY <1>2
<1>4. g \in [0..n -> Int]
  <2>1. ASSUME NEW k \in 0..n PROVE g[k] \in Int
    <3>1. k \in Int /\ n \in Int /\ r \in Int /\ f[r] \in Int /\ f[n] \in Int
      BY <1>3
    <3>2. CASE k <= n - r
      <4>1. r + k \in 0..n
        BY <3>1, <3>2
      <4>2. f[r + k] \in Int
        BY <1>3, <4>1
      <4>3. QED BY <3>1, <3>2, <4>2
    <3>3. CASE ~(k <= n - r)
      <4>1. k - (n - r) \in 0..n
        BY <3>1, <3>3
      <4>2. f[k - (n - r)] \in Int
        BY <1>3, <4>1
      <4>3. QED BY <3>1, <3>3, <4>2
    <3>4. QED BY <3>2, <3>3
  <2>2. QED BY <2>1
<1>5. g[0] = 0 /\ g[n] = f[n]
  <2>1. f[0] = 0 /\ f[r] \in Int /\ f[n] \in Int
    BY <1>2, <1>3
  <2>2. QED BY <2>1
<1>6. ASSUME NEW k \in 1..n PROVE g[k] = g[k - 1] + t[k]
  <2>1. k \in Int /\ n \in Int /\ r \in Int /\ f[r] \in Int /\ f[n] \in Int /\ f[0] = 0 /\ t[k] \in Int
    BY <1>2, <1>3 DEF Rotated
  <2>2. CASE k <= n - r
    <3>1. r + k \in 1..n /\ r + k - 1 \in 0..n
      BY <2>1, <2>2
    <3>2. t[k] = s[r + k]
      BY <2>1, <2>2 DEF Rotated
    <3>3. f[r + k] = f[r + k - 1] + t[k]
      BY <1>2, <3>1, <3>2
    <3>4. f[r + k - 1] \in Int
      BY <1>3, <3>1
    <3>5. g[k] = f[r + k] - f[r] /\ g[k - 1] = f[r + k - 1] - f[r]
      BY <2>1, <2>2
    <3> HIDE DEF g
    <3>6. QED BY <2>1, <3>3, <3>4, <3>5
  <2>3. CASE k > n - r
    <3>1. PICK j \in Int : j = k - (n - r)
      BY <2>1
    <3>2. j \in 1..n /\ j - 1 \in 0..n /\ j - 1 = (k - 1) - (n - r)
      BY <2>1, <2>3, <3>1
    <3>3. t[k] = s[j]
      BY <2>1, <2>3, <3>1 DEF Rotated
    <3>4. f[j] = f[j - 1] + t[k]
      BY <1>2, <3>2, <3>3
    <3>5. f[j - 1] \in Int
      BY <1>3, <3>2
    <3>6. g[k] = f[n] - f[r] + f[j]
      BY <2>1, <2>3, <3>1
    <3>7. g[k - 1] = f[n] - f[r] + f[j - 1]
      <4>1. CASE k - 1 <= n - r
        <5>1. j = 1 /\ r + (k - 1) = n
          BY <2>1, <2>3, <3>1, <4>1
        <5>2. g[k - 1] = f[r + (k - 1)] - f[r]
          BY <2>1, <4>1
        <5> HIDE DEF g
        <5>3. QED BY <2>1, <5>1, <5>2
      <4>2. CASE ~(k - 1 <= n - r)
        BY <2>1, <3>2, <4>2
      <4>3. QED BY <4>1, <4>2
    <3> HIDE DEF g
    <3>8. QED BY <2>1, <3>4, <3>5, <3>6, <3>7
  <2>4. QED BY <2>1, <2>2, <2>3
<1> HIDE DEF g
<1>7. IsSums(t, g)
  BY <1>4, <1>5, <1>6 DEF IsSums, Rotated
<1>8. QED BY <1>1, <1>5, <1>7, TotalIs DEF Rotated

------------------------------------------------------------------------------
(* The running statistics of a TotalExecutionTime.                            *)

\* The mean p / q of n numbers whose sum is T, and one more number e.
LEMMA NextMean ==
  ASSUME NEW n \in Nat, NEW T \in Int, NEW p \in Int, NEW q \in Int, NEW e \in Int,
         p * n = T * q
  PROVE  (e * q + n * p) * (n + 1) = (T + e) * ((n + 1) * q)
<1>1. e * q + n * p = (T + e) * q
  OBVIOUS
<1>2. \A x \in Int : x = (T + e) * q => x * (n + 1) = (T + e) * ((n + 1) * q)
  OBVIOUS
<1>3. QED BY <1>1, <1>2

\* The sum a / b of the squared distances of n numbers from their mean p / q, where S is
\* the sum of their squares, and one more number e, with which the mean is x / y.
LEMMA NextSquares ==
  ASSUME NEW n \in Nat \ {0}, NEW T \in Int, NEW S \in Int, NEW e \in Int,
         NEW p \in Int, NEW q \in Int, p * n = T * q,
         NEW a \in Int, NEW b \in Int, a * n = (n * S - T * T) * b,
         NEW x \in Int, NEW y \in Int, x = e * q + n * p, y = (n + 1) * q
  PROVE  (a * (q * y) + (e * q - p) * (e * y - x) * b) * (n + 1)
           = ((n + 1) * (S + e * e) - (T + e) * (T + e)) * (b * (q * y))
<1> DEFINE d == e * n - T
           L == (a * (q * y) + (e * q - p) * (e * y - x) * b) * (n + 1)
           R == ((n + 1) * (S + e * e) - (T + e) * (T + e)) * (b * (q * y))
<1>1. x = q * (T + e)
  OBVIOUS
<1>2. e * y - x = q * d
  <2>1. e * ((n + 1) * q) - q * (T + e) = q * (e * n - T)
    OBVIOUS
  <2>2. QED BY <1>1, <2>1
<1>3. (e * q - p) * n = q * d
  <2>1. (e * q - p) * n = e * q * n - p * n
    OBVIOUS
  <2>2. QED BY <2>1
<1>4. ((e * q - p) * (e * y - x)) * n = (q * d) * (q * d)
  <2>1. \A u, v \in Int : (u * v) * n = (u * n) * v
    OBVIOUS
  <2>2. e * q - p \in Int /\ e * y - x \in Int
    OBVIOUS
  <2>3. QED BY <1>2, <1>3, <2>1, <2>2
<1>5. L * n = R * n
  <2> DEFINE u == (e * q - p) * (e * y - x)
  <2>1. u \in Int /\ u * n = (q * d) * (q * d) /\ d \in Int
    BY <1>4
  <2>2. L * n = ((a * n) * (q * y) + (u * n) * b) * (n + 1)
    <3>1. \A z \in Int : ((a * (q * y) + z * b) * (n + 1)) * n = ((a * n) * (q * y) + (z * n) * b) * (n + 1)
      OBVIOUS
    <3>2. QED BY <2>1, <3>1
  <2>3. L * n = (((n * S - T * T) * b) * (q * ((n + 1) * q)) + ((q * d) * (q * d)) * b) * (n + 1)
    BY <2>1, <2>2
  <2>4. (((n * S - T * T) * b) * (q * ((n + 1) * q)) + ((q * (e * n - T)) * (q * (e * n - T))) * b) * (n + 1)
          = (((n + 1) * (S + e * e) - (T + e) * (T + e)) * (b * (q * ((n + 1) * q)))) * n
    OBVIOUS
  <2>5. QED BY <2>3, <2>4
<1>6. L \in Int /\ R \in Int
  OBVIOUS
<1>7. \A u, v \in Int : u * n = v * n => u = v
  OBVIOUS
<1> HIDE DEF L, R
<1>8. L = R
  BY <1>5, <1>6, <1>7
<1>9. QED BY <1>8 DEF L, R

\* The running mean is the sum over the count, and the running sum of squares is the
\* count times the sum of the squares, less the square of the sum, over the count.
StatsOf(s) ==
  LET n == Len(s)
  IN  /\ average \in Int \X Int /\ average[2] > 0
      /\ sumSqDiff \in Int \X Int /\ sumSqDiff[2] > 0
      /\ average[1] * n = Total(s) * average[2]
      /\ sumSqDiff[1] * n = (n * Total(SquaresOf(s)) - Total(s) * Total(s)) * sumSqDiff[2]
      /\ n = 0 => average = <<0, 1>> /\ sumSqDiff = <<0, 1>>

Stats == IsTotal => StatsOf(samples)

\* One measurement keeps them so.
LEMMA AverageStats ==
  ASSUME NEW t \in Threads, EndAverage(t), StatsOf(samples), samples \in Seq(Int), time[t] \in Int,
         dataPoints = Len(samples) + 1
  PROVE  StatsOf(samples)'
<1> DEFINE e == time[t]
           n == Len(samples)
           p == average[1]
           q == average[2]
           a == sumSqDiff[1]
           b == sumSqDiff[2]
           T == Total(samples)
           S == Total(SquaresOf(samples))
<1>1. /\ n \in Nat /\ e \in Int /\ T \in Int /\ S \in Int
      /\ samples' = Append(samples, e) /\ Len(samples') = n + 1
      /\ Total(samples') = T + e /\ Total(SquaresOf(samples')) = S + e * e
  <2>1. samples' = Append(samples, e)
    BY DEF EndAverage
  <2>2. T \in Int /\ Total(Append(samples, e)) = T + e
    BY TotalAppend
  <2>3. S \in Int /\ Total(SquaresOf(Append(samples, e))) = S + e * e
    BY SquaresOfAppend
  <2>4. n \in Nat /\ e \in Int /\ Len(Append(samples, e)) = n + 1
    OBVIOUS
  <2> HIDE DEF n, e, T, S
  <2>5. QED BY <2>1, <2>2, <2>3, <2>4
<1>2. /\ p \in Int /\ q \in Int /\ q > 0 /\ average = <<p, q>> /\ p * n = T * q
      /\ a \in Int /\ b \in Int /\ b > 0 /\ sumSqDiff = <<a, b>> /\ a * n = (n * S - T * T) * b
  BY DEF StatsOf
<1>3. CASE n = 0
  <2>1. average' = <<e, 1>> /\ sumSqDiff' = <<0, 1>>
    BY <1>3 DEF EndAverage, StatsOf
  <2>2. T = 0 /\ S = 0
    <3>1. samples = <<>>
      BY <1>3
    <3>2. QED BY <3>1, TotalAppend, SquaresOfAppend
  <2>3. e * 1 = (0 + e) * 1 /\ 0 * 1 = (1 * (0 + e * e) - (0 + e) * (0 + e)) * 1
    BY <1>1
  <2> HIDE DEF e, n, T, S
  <2>4. QED BY <1>1, <1>3, <2>1, <2>2, <2>3 DEF StatsOf
<1>4. CASE n # 0
  <2> DEFINE x == e * q + n * p
             y == (n + 1) * q
             c == a * (q * y) + (e * q - p) * (e * y - x) * b
             d == b * (q * y)
  <2>1. average' = <<x, y>> /\ sumSqDiff' = <<c, d>>
    <3>1. dataPoints - 1 = n /\ dataPoints # 1
      BY <1>1, <1>4
    <3>2. NewAverage(e) = <<x, y>>
      BY <3>1 DEF NewAverage
    <3>3. Plus(sumSqDiff, SqDiff(e, NewAverage(e))) = <<c, d>>
      BY <3>2 DEF Plus, SqDiff
    <3>4. QED BY <3>1, <3>2, <3>3 DEF EndAverage
  <2> HIDE DEF e, n, T, S, p, q, a, b
  <2>2. x \in Int /\ y \in Int /\ c \in Int /\ d \in Int
    BY <1>1, <1>2
  <2>3. y > 0 /\ d > 0
    <3>1. \A u, v \in Int : u > 0 /\ v > 0 => u * v > 0
      OBVIOUS
    <3>2. n + 1 > 0 /\ n + 1 \in Int
      BY <1>1
    <3>3. y > 0
      BY <1>2, <3>1, <3>2
    <3>4. q * y > 0 /\ q * y \in Int
      BY <1>2, <2>2, <3>1, <3>3
    <3>5. d > 0
      BY <1>2, <3>1, <3>4
    <3>6. QED BY <3>3, <3>5
  <2>4. x * (n + 1) = (T + e) * y
    <3>1. p * n = T * q
      BY <1>2
    <3>2. n \in Nat /\ T \in Int /\ p \in Int /\ q \in Int /\ e \in Int
      BY <1>1, <1>2
    <3>3. (e * q + n * p) * (n + 1) = (T + e) * ((n + 1) * q)
      BY <3>1, <3>2, NextMean
    <3>4. QED BY <3>3
  <2>5. c * (n + 1) = ((n + 1) * (S + e * e) - (T + e) * (T + e)) * d
    <3>1. n \in Nat \ {0}
      BY <1>1, <1>4
    <3>2. T \in Int /\ S \in Int /\ e \in Int /\ p \in Int /\ q \in Int /\ a \in Int /\ b \in Int
      BY <1>1, <1>2
    <3>3. p * n = T * q /\ a * n = (n * S - T * T) * b
      BY <1>2
    <3>4. x = e * q + n * p /\ y = (n + 1) * q
      OBVIOUS
    <3> HIDE DEF x, y
    <3>5. (a * (q * y) + (e * q - p) * (e * y - x) * b) * (n + 1)
            = ((n + 1) * (S + e * e) - (T + e) * (T + e)) * (b * (q * y))
      BY <2>2, <3>1, <3>2, <3>3, <3>4, NextSquares
    <3>6. QED BY <3>5
  <2> HIDE DEF x, y, c, d
  <2>6. /\ average' \in Int \X Int /\ average'[1] = x /\ average'[2] = y
        /\ sumSqDiff' \in Int \X Int /\ sumSqDiff'[1] = c /\ sumSqDiff'[2] = d
    BY <2>1, <2>2
  <2>7. average'[1] * Len(samples') = Total(samples') * average'[2]
    BY <1>1, <2>4, <2>6
  <2>8. sumSqDiff'[1] * Len(samples')
          = (Len(samples') * Total(SquaresOf(samples')) - Total(samples') * Total(samples')) * sumSqDiff'[2]
    BY <1>1, <2>5, <2>6
  <2>9. Len(samples') # 0
    BY <1>1
  <2>10. QED BY <2>3, <2>6, <2>7, <2>8, <2>9 DEF StatsOf
<1>5. QED BY <1>3, <1>4

LEMMA StatsStep == FInv /\ Count /\ Stats /\ [Next]_vars => Stats'
<1> SUFFICES ASSUME FInv, Count, Stats, [Next]_vars, IsTotal' PROVE StatsOf(samples)'
  BY DEF Stats
<1> USE FeedbackAssumption, BufAssumption
<1>1. IsTotal /\ (TotalNext \/ UNCHANGED vars)
  <2>1. CASE ~IsTotal /\ RecentNext
    BY <2>1 DEF RecentNext, BaseNext, Run, Reset, Begin, Done, EndRecord, EndObserve, EndDeploy,
       UpdateSkip, UpdateLock, UpdateCopy, UpdateCall, UpdateAverage, UpdateError, IsTotal
  <2>2. QED BY <2>1 DEF Next, vars, base, IsTotal
<1>2. StatsOf(samples)
  BY <1>1 DEF Stats
<1>3. ASSUME UNCHANGED <<average, sumSqDiff, samples>> PROVE StatsOf(samples)'
  BY <1>2, <1>3 DEF StatsOf, SquaresOf
<1>4. CASE UNCHANGED vars
  BY <1>3, <1>4 DEF vars, base, ofTotal
<1>5. CASE BaseNext(Updaters) /\ UNCHANGED <<totals, cached>>
  BY <1>3, <1>5 DEF BaseNext, Run, Reset, Begin, Done, totals
<1>6. ASSUME NEW t \in Threads, EndLock(t) \/ EndCheck(t) \/ EndStore(t) \/ EndCount(t) PROVE StatsOf(samples)'
  BY <1>3, <1>6 DEF EndLock, EndCheck, EndStore, EndCount, totals
<1>7. ASSUME NEW t \in Threads, EndAverage(t) PROVE StatsOf(samples)'
  <2>1. lock = t
    BY <1>1, <1>7 DEF FInv, Held, InEnd, EndAverage
  <2>2. samples \in Seq(Nat) /\ dataPoints = Len(samples) + 1
    BY <1>1, <1>7, <2>1 DEF EndAverage, Count, CountShape, B2N
  <2>3. samples \in Seq(Int)
    BY <2>2
  <2>4. time[t] \in Int
    BY DEF FInv, TimesKept
  <2>5. QED BY <1>2, <1>7, <2>2, <2>3, <2>4, AverageStats
<1>8. ASSUME NEW u \in Updaters, UpdateGood(u) \/ UpdateMean(u) \/ UpdateSize(u) PROVE StatsOf(samples)'
  BY <1>3, <1>8 DEF UpdateGood, UpdateMean, UpdateSize, totals
<1>9. QED BY <1>1, <1>4, <1>5, <1>6, <1>7, <1>8 DEF TotalNext

\* Running statistics are those of the definitions.
LEMMA StatsAre ==
  ASSUME NEW s \in Seq(Int), s # <<>>, StatsOf(s)
  PROVE  /\ Mean(s) = <<Total(s), Len(s)>> /\ Same(average, Mean(s))
         /\ Squares(s, Mean(s)) \in Int \X Int /\ Squares(s, Mean(s))[2] = Len(s) * Len(s)
         /\ Same(sumSqDiff, Squares(s, Mean(s)))
<1> DEFINE n == Len(s)
           T == Total(s)
           S == Total(SquaresOf(s))
           a == sumSqDiff[1]
           b == sumSqDiff[2]
           D == Squares(s, <<T, n>>)[1]
<1>1. n \in Nat \ {0} /\ T \in Int /\ S \in Int /\ Mean(s) = <<T, n>>
  BY TotalAppend, SquaresOfAppend DEF Mean
<1>2. Squares(s, <<T, n>>) = <<D, n * n>>
  BY DEF Squares
<1>3. D = n * n * S - 2 * T * n * T + n * T * T
  BY <1>1, DistancesAre
<1>4. a \in Int /\ b \in Int /\ b > 0 /\ a * n = (n * S - T * T) * b
  BY DEF StatsOf
<1> HIDE DEF n, T, S, a, b, D
<1>5. D \in Int /\ D = n * (n * S - T * T)
  BY <1>1, <1>3
<1>6. a * (n * n) = D * b
  <2>1. a * (n * n) = n * (a * n)
    BY <1>1, <1>4
  <2>2. D * b = n * ((n * S - T * T) * b)
    BY <1>1, <1>4, <1>5
  <2>3. QED BY <1>4, <2>1, <2>2
<1>7. n * n # 0
  <2>1. \A k \in Nat : k # 0 => k * k # 0
    OBVIOUS
  <2>2. QED BY <1>1, <2>1
<1>8. Same(average, Mean(s))
  BY <1>1 DEF StatsOf, Same, n, T
<1>9. Same(sumSqDiff, Squares(s, Mean(s)))
  BY <1>1, <1>2, <1>4, <1>6, <1>7 DEF Same, a, b
<1>10. Squares(s, Mean(s)) \in Int \X Int /\ Squares(s, Mean(s))[2] = n * n
  BY <1>1, <1>2, <1>5
<1>11. QED BY <1>1, <1>8, <1>9, <1>10 DEF n, T

LEMMA StatsKept == Spec => [](FInv /\ Count /\ Stats)
<1>1. Init => Count
  BY FeedbackAssumption DEF Init, BaseInit, TotalInit, Count, CountShape, B2N
<1>2. Init => Stats
  <2> SUFFICES ASSUME Init, IsTotal PROVE StatsOf(samples)
    BY DEF Stats
  <2>1. samples = <<>> /\ average = <<0, 1>> /\ sumSqDiff = <<0, 1>>
    BY DEF Init, BaseInit, TotalInit
  <2>2. <<>> \in Seq(Int) /\ 0 \in Int /\ Len(<<>>) = 0
    OBVIOUS
  <2>3. Total(<<>>) = 0 /\ Total(SquaresOf(<<>>)) = 0
    BY <2>2, TotalAppend, SquaresOfAppend
  <2>4. QED BY <2>1, <2>2, <2>3 DEF StatsOf
<1>3. QED BY <1>1, <1>2, CountStep, StatsStep, LockHeld, PTL DEF Spec

\* The statistics of either class are those of its measurements: for any number of threads
\* that end their runs at the same time, the running mean and the running sum of squares
\* of a TotalExecutionTime are those of their definitions, and a RecentExecutionTime of
\* any size holds the last ones.
THEOREM StatisticsExact == Spec => []EveryRunCounts
<1>1. FInv /\ Count /\ Stats => (IsTotal => TotalCounts)
  <2> SUFFICES ASSUME Count, Stats, IsTotal, lock = "free"
               PROVE  /\ dataPoints = Len(samples)
                      /\ samples # <<>> => /\ Same(average, Mean(samples))
                                           /\ Same(sumSqDiff, Squares(samples, Mean(samples)))
    BY DEF TotalCounts
  <2>1. samples \in Seq(Nat) /\ dataPoints = Len(samples)
    BY FeedbackAssumption DEF Count, CountShape, B2N
  <2>2. samples \in Seq(Int)
    BY <2>1
  <2>3. QED BY <2>1, <2>2, StatsAre DEF Stats
<1>2. (IsTotal => TotalCounts) /\ (~IsTotal => RecentCounts) => EveryRunCounts
  BY DEF EveryRunCounts
<1>3. QED BY <1>1, <1>2, StatsKept, BufferHoldsLast, PTL

------------------------------------------------------------------------------
(* The cached answers of a TotalExecutionTime.                                *)

\* The test of the error comes out the same for other fractions of the same value.
LEMMA SameError ==
  ASSUME NEW n \in Int, NEW v \in Int \X Int, NEW w \in Int \X Int, NEW m \in Int \X Int, NEW o \in Int \X Int,
         v[2] > 0, w[2] > 0, m[2] > 0, o[2] > 0, Same(v, w), Same(m, o)
  PROVE  ErrorIsSmall(n, v, m) <=> ErrorIsSmall(n, w, o)
<1> DEFINE a == v[1]
           b == v[2]
           c == w[1]
           d == w[2]
           p == m[1]
           q == m[2]
           x == o[1]
           y == o[2]
           L == 100 * (2 * a) * q * q
           R == (b * n * (2 * n - 3)) * p * p
           M == 100 * (2 * c) * y * y
           N == (d * n * (2 * n - 3)) * x * x
           f == d * (y * y)
           g == b * (q * q)
<1>1. /\ a \in Int /\ b \in Int /\ c \in Int /\ d \in Int /\ b > 0 /\ d > 0
      /\ p \in Int /\ q \in Int /\ x \in Int /\ y \in Int /\ q > 0 /\ y > 0
      /\ a * d = c * b /\ p * y = x * q
  BY DEF Same
<1>2. (ErrorIsSmall(n, v, m) <=> L <= R) /\ (ErrorIsSmall(n, w, o) <=> M <= N)
  BY DEF ErrorIsSmall, WithinError
<1> HIDE DEF a, b, c, d, p, q, x, y
<1>3. L * f = M * g
  <2>1. L * f = 200 * (a * d) * (q * q * y * y)
    BY <1>1
  <2>2. M * g = 200 * (c * b) * (q * q * y * y)
    BY <1>1
  <2>3. QED BY <1>1, <2>1, <2>2
<1>4. R * f = N * g
  <2>1. R * f = (b * d * n * (2 * n - 3)) * ((p * y) * (p * y))
    BY <1>1
  <2>2. N * g = (b * d * n * (2 * n - 3)) * ((x * q) * (x * q))
    BY <1>1
  <2>3. QED BY <1>1, <2>1, <2>2
<1>5. f \in Int /\ g \in Int /\ f > 0 /\ g > 0
  <2>1. \A i, j \in Int : i > 0 /\ j > 0 => i * j \in Int /\ i * j > 0
    OBVIOUS
  <2>2. y * y \in Int /\ y * y > 0 /\ q * q \in Int /\ q * q > 0
    BY <1>1, <2>1
  <2>3. QED BY <1>1, <2>1, <2>2
<1>6. \A i, j, k \in Int : k > 0 => (i <= j <=> i * k <= j * k)
  OBVIOUS
<1>7. L \in Int /\ R \in Int /\ M \in Int /\ N \in Int
  BY <1>1
<1> HIDE DEF L, R, M, N, f, g
<1>8. (L <= R <=> L * f <= R * f) /\ (M <= N <=> M * g <= N * g)
  BY <1>5, <1>6, <1>7
<1>9. QED BY <1>2, <1>3, <1>4, <1>8

\* Between two measurements, goodQuality() answers by the definition.
LEMMA GoodIs ==
  ASSUME NEW n \in Nat, n = Len(samples), samples \in Seq(Int), StatsOf(samples), dataPoints = n, IsTotal
  PROVE  /\ GoodQuality <=> GoodAt(n)
         /\ Same(average, MeanAt(n))
<1>1. SubSeq(samples, 1, n) = samples
  OBVIOUS
<1>2. ASSUME n # 0
      PROVE  /\ Same(average, Mean(samples))
             /\ ErrorIsSmall(n, sumSqDiff, average)
                  <=> ErrorIsSmall(n, Squares(samples, Mean(samples)), Mean(samples))
  <2> DEFINE D == Squares(samples, Mean(samples))
             T == Total(samples)
  <2>1. samples # <<>>
    BY <1>2
  <2>2. /\ Mean(samples) = <<T, n>> /\ Same(average, Mean(samples))
        /\ D \in Int \X Int /\ D[2] = n * n /\ Same(sumSqDiff, D)
    BY <2>1, StatsAre
  <2>3. T \in Int
    BY TotalAppend
  <2>4. average \in Int \X Int /\ average[2] > 0 /\ sumSqDiff \in Int \X Int /\ sumSqDiff[2] > 0
    BY DEF StatsOf
  <2> HIDE DEF D, T
  <2>5. n \in Int /\ n > 0 /\ D[2] > 0
    <3>1. \A k \in Nat : k # 0 => k * k > 0
      OBVIOUS
    <3>2. QED BY <1>2, <2>2, <3>1
  <2>6. Mean(samples) \in Int \X Int /\ Mean(samples)[2] > 0
    BY <2>2, <2>3, <2>5
  <2>7. ErrorIsSmall(n, sumSqDiff, average) <=> ErrorIsSmall(n, D, Mean(samples))
    BY <2>2, <2>4, <2>5, <2>6, SameError
  <2>8. QED BY <2>2, <2>7 DEF D
<1>3. Same(average, MeanAt(n))
  <2>1. CASE n = 0
    <3>1. average = <<0, 1>>
      BY <2>1 DEF StatsOf
    <3>2. QED BY <2>1, <3>1 DEF MeanAt, Same
  <2>2. CASE n # 0
    BY <1>1, <1>2, <2>2 DEF MeanAt
  <2>3. QED BY <2>1, <2>2
<1>4. CASE FBK = "Total"
  <2>1. GoodQuality <=> n > MinTrials /\ ErrorIsSmall(n, sumSqDiff, average)
    BY <1>4 DEF GoodQuality
  <2>2. GoodAt(n) <=> n > MinTrials /\ ErrorIsSmall(n, Squares(samples, Mean(samples)), Mean(samples))
    BY <1>1, <1>4 DEF GoodAt
  <2>3. n > MinTrials => n # 0
    BY FeedbackAssumption
  <2>4. QED BY <1>2, <1>3, <2>1, <2>2, <2>3
<1>5. CASE FBK = "Total_IgnoreError"
  <2>1. GoodQuality <=> n >= 1
    BY <1>5 DEF GoodQuality
  <2>2. GoodAt(n) <=> n >= 1
    BY <1>5 DEF GoodAt
  <2>3. QED BY <1>3, <2>1, <2>2
<1>6. QED BY <1>4, <1>5 DEF IsTotal

\* What an updater may read of n measurements is what any of the moments since it began
\* would have answered, as soon as it has been written.
Cached(u) ==
  LET Since == seen[u]..Len(samples)
  IN  /\ upc[u] \in {"mean", "size", "read"} => \E n \in Since : caGood <=> GoodAt(n)
      /\ upc[u] \in {"size", "read"} => \E n \in Since : Same(caMean, MeanAt(n))
      /\ upc[u] = "read" => caSize \in Since

SeenOK == seen \in [Updaters -> Nat] /\ \A u \in Updaters : seen[u] <= Len(samples)

TotalFreshInv == IsTotal => SeenOK /\ \A u \in Updaters : Cached(u)

\* A measurement leaves what came before it as it was.
LEMMA PrefixStays ==
  ASSUME NEW s \in Seq(Int), NEW x \in Int, NEW n \in 0..Len(s)
  PROVE  SubSeq(Append(s, x), 1, n) = SubSeq(s, 1, n)
OBVIOUS

LEMMA AnswersStay ==
  ASSUME NEW x \in Int, samples \in Seq(Int), samples' = Append(samples, x) \/ samples' = samples, FBK' = FBK,
         NEW n \in 0..Len(samples)
  PROVE  GoodAt(n)' = GoodAt(n) /\ MeanAt(n)' = MeanAt(n)
<1>1. SubSeq(samples', 1, n) = SubSeq(samples, 1, n)
  BY PrefixStays
<1>2. QED BY <1>1 DEF GoodAt, MeanAt

LEMMA TotalFreshStep == FInv /\ Count /\ Stats /\ TotalFreshInv /\ [Next]_vars => TotalFreshInv'
<1> SUFFICES ASSUME FInv, Count, Stats, TotalFreshInv, [Next]_vars, IsTotal'
             PROVE  SeenOK' /\ \A u \in Updaters : Cached(u)'
  BY DEF TotalFreshInv
<1> USE FeedbackAssumption, BufAssumption
<1>1. IsTotal /\ (TotalNext \/ UNCHANGED vars)
  <2>1. CASE ~IsTotal /\ RecentNext
    BY <2>1 DEF RecentNext, BaseNext, Run, Reset, Begin, Done, EndRecord, EndObserve, EndDeploy,
       UpdateSkip, UpdateLock, UpdateCopy, UpdateCall, UpdateAverage, UpdateError, IsTotal
  <2>2. QED BY <2>1 DEF Next, vars, base, IsTotal
<1>2. /\ SeenOK /\ \A u \in Updaters : Cached(u)
      /\ samples \in Seq(Nat) /\ samples \in Seq(Int) /\ Len(samples) \in Nat
      /\ seen \in [Updaters -> Nat]
      /\ upc \in [Updaters -> {"out", "begin", "mean", "size", "read", "copy", "call", "average", "error"}]
  BY <1>1 DEF TotalFreshInv, Count, CountShape, FInv, TimesKept, SeenOK
<1>3. FBK' = FBK
  BY <1>1 DEF TotalNext, BaseNext, Run, Reset, Begin, Done, EndLock, EndCheck, EndStore, EndCount,
     EndAverage, UpdateGood, UpdateMean, UpdateSize, vars, base
<1>4. ASSUME samples' = samples \/ \E x \in Int : samples' = Append(samples, x)
      PROVE  \A n \in 0..Len(samples) : GoodAt(n)' = GoodAt(n) /\ MeanAt(n)' = MeanAt(n)
  BY <1>2, <1>3, <1>4, AnswersStay
<1>5. ASSUME UNCHANGED <<upc, seen, samples, cached>>
      PROVE  SeenOK' /\ \A u \in Updaters : Cached(u)'
  <2>1. ASSUME NEW u \in Updaters PROVE Cached(u)'
    <3>1. Cached(u) /\ seen[u] \in Nat
      BY <1>2
    <3>2. \A n \in seen[u]..Len(samples) : GoodAt(n)' = GoodAt(n) /\ MeanAt(n)' = MeanAt(n)
      BY <1>2, <1>4, <1>5, <3>1
    <3>3. QED BY <1>5, <3>1, <3>2 DEF Cached, cached
  <2>2. QED BY <1>2, <1>5, <2>1 DEF SeenOK
<1>6. CASE UNCHANGED vars
  BY <1>5, <1>6 DEF vars, base, ofTotal
<1>7. ASSUME NEW t \in Threads, Run(t) \/ Reset, UNCHANGED cached
      PROVE  SeenOK' /\ \A u \in Updaters : Cached(u)'
  BY <1>5, <1>7 DEF Run, Reset
<1>8. ASSUME NEW v \in Updaters, Begin(v) \/ Done(v), UNCHANGED cached
      PROVE  SeenOK' /\ \A u \in Updaters : Cached(u)'
  <2>1. /\ samples' = samples /\ seen' \in [Updaters -> Nat] /\ seen'[v] <= Len(samples)
        /\ upc'[v] \notin {"mean", "size", "read"}
        /\ \A u \in Updaters : u # v => upc'[u] = upc[u] /\ seen'[u] = seen[u]
    BY <1>2, <1>8 DEF Begin, Done
  <2>2. SeenOK'
    BY <1>2, <2>1 DEF SeenOK
  <2>3. ASSUME NEW u \in Updaters PROVE Cached(u)'
    <3>1. CASE u = v
      BY <2>1, <3>1 DEF Cached
    <3>2. CASE u # v
      <4>1. Cached(u) /\ seen[u] \in Nat /\ upc'[u] = upc[u] /\ seen'[u] = seen[u]
        BY <1>2, <2>1, <3>2
      <4>2. \A n \in seen[u]..Len(samples) : GoodAt(n)' = GoodAt(n) /\ MeanAt(n)' = MeanAt(n)
        BY <1>2, <1>4, <2>1, <4>1
      <4>3. QED BY <1>8, <2>1, <4>1, <4>2 DEF Cached, cached
    <3>3. QED BY <3>1, <3>2
  <2>4. QED BY <2>2, <2>3
<1>9. ASSUME NEW t \in Threads, EndLock(t) \/ EndCheck(t) \/ EndStore(t) \/ EndCount(t)
      PROVE  SeenOK' /\ \A u \in Updaters : Cached(u)'
  BY <1>5, <1>9 DEF EndLock, EndCheck, EndStore, EndCount
<1>10. ASSUME NEW t \in Threads, EndAverage(t)
       PROVE  SeenOK' /\ \A u \in Updaters : Cached(u)'
  <2>1. time[t] \in Int /\ samples' = Append(samples, time[t]) /\ UNCHANGED <<upc, seen, cached>>
    BY <1>10 DEF EndAverage, FInv, TimesKept
  <2>2. Len(samples') = Len(samples) + 1
    BY <1>2, <2>1
  <2>3. ASSUME NEW u \in Updaters PROVE Cached(u)'
    <3>1. Cached(u) /\ seen[u] \in Nat
      BY <1>2
    <3>2. \A n \in seen[u]..Len(samples) :
            GoodAt(n)' = GoodAt(n) /\ MeanAt(n)' = MeanAt(n) /\ n \in seen[u]..Len(samples')
      BY <1>2, <1>4, <2>1, <2>2, <3>1
    <3>3. upc'[u] = "read" => caSize' \in seen[u]..Len(samples')
      BY <1>2, <2>1, <2>2, <3>1 DEF Cached, cached
    <3>4. QED BY <2>1, <3>1, <3>2, <3>3 DEF Cached, cached
  <2>4. QED BY <1>2, <2>1, <2>2, <2>3 DEF SeenOK
<1>11. ASSUME NEW v \in Updaters, UpdateGood(v) \/ UpdateMean(v) \/ UpdateSize(v)
       PROVE  SeenOK' /\ \A u \in Updaters : Cached(u)'
  <2> DEFINE n == Len(samples)
  <2>1. samples' = samples /\ seen' = seen /\ \A u \in Updaters : u # v => upc'[u] = upc[u]
    BY <1>2, <1>11 DEF UpdateGood, UpdateMean, UpdateSize
  <2>2. \A i \in 0..n : GoodAt(i)' = GoodAt(i) /\ MeanAt(i)' = MeanAt(i)
    BY <1>4, <2>1
  <2>3. dataPoints = n /\ StatsOf(samples)
    <3>1. lock \notin Threads
      <4>1. UpdateMean(v) \/ UpdateSize(v) => lock = v
        BY <1>1, <1>11 DEF FInv, Held, InUpdate, UpdateMean, UpdateSize
      <4>2. UpdateGood(v) => lock = "free"
        BY DEF UpdateGood
      <4>3. QED BY <1>11, <4>1, <4>2
    <3>2. QED BY <1>1, <3>1 DEF Count, CountShape, B2N, Stats
  <2>4. (GoodQuality <=> GoodAt(n)) /\ Same(average, MeanAt(n))
    BY <1>1, <1>2, <2>3, GoodIs
  <2>5. ASSUME NEW u \in Updaters
        PROVE  seen[u] \in Nat /\ n \in seen[u]..n /\ Cached(u) /\ \A i \in seen[u]..n : i \in 0..n
    BY <1>2 DEF SeenOK
  <2> HIDE DEF n
  <2>6. CASE UpdateGood(v)
    <3>1. /\ caGood' = GoodQuality /\ upc'[v] = "mean" /\ upc[v] = "begin"
          /\ UNCHANGED <<caMean, caSize>>
      BY <1>2, <2>6 DEF UpdateGood
    <3>2. ASSUME NEW u \in Updaters PROVE Cached(u)'
      <4>1. \E i \in seen[u]..n : caGood' <=> GoodAt(i)'
        BY <2>2, <2>4, <2>5, <3>1
      <4>2. upc'[u] \in {"size", "read"} => \E i \in seen[u]..n : Same(caMean', MeanAt(i)')
        BY <2>1, <2>2, <2>5, <3>1 DEF Cached, n
      <4>3. upc'[u] = "read" => caSize' \in seen[u]..n
        BY <2>1, <2>5, <3>1 DEF Cached, n
      <4>4. QED BY <2>1, <4>1, <4>2, <4>3 DEF Cached, n
    <3>3. QED BY <1>2, <2>1, <3>2 DEF SeenOK
  <2>7. CASE UpdateMean(v)
    <3>1. /\ caMean' = average /\ upc'[v] = "size" /\ upc[v] = "mean"
          /\ UNCHANGED <<caGood, caSize>>
      BY <1>2, <2>7 DEF UpdateMean
    <3>2. ASSUME NEW u \in Updaters PROVE Cached(u)'
      <4>1. \E i \in seen[u]..n : Same(caMean', MeanAt(i)')
        BY <2>2, <2>4, <2>5, <3>1
      <4>2. upc'[u] \in {"mean", "size", "read"} => \E i \in seen[u]..n : caGood' <=> GoodAt(i)'
        <5>1. upc'[u] \in {"mean", "size", "read"} => upc[u] \in {"mean", "size", "read"}
          BY <2>1, <3>1
        <5>2. QED BY <2>2, <2>5, <3>1, <5>1 DEF Cached, n
      <4>3. upc'[u] = "read" => caSize' \in seen[u]..n
        BY <2>1, <2>5, <3>1 DEF Cached, n
      <4>4. QED BY <2>1, <4>1, <4>2, <4>3 DEF Cached, n
    <3>3. QED BY <1>2, <2>1, <3>2 DEF SeenOK
  <2>8. CASE UpdateSize(v)
    <3>1. /\ caSize' = n /\ upc'[v] = "read" /\ upc[v] = "size"
          /\ UNCHANGED <<caGood, caMean>>
      BY <1>2, <2>3, <2>8 DEF UpdateSize
    <3>2. ASSUME NEW u \in Updaters PROVE Cached(u)'
      <4>1. /\ upc'[u] \in {"mean", "size", "read"} => upc[u] \in {"mean", "size", "read"}
            /\ upc'[u] \in {"size", "read"} => upc[u] \in {"size", "read"}
        BY <2>1, <3>1
      <4>2. upc'[u] \in {"mean", "size", "read"} => \E i \in seen[u]..n : caGood' <=> GoodAt(i)'
        BY <2>2, <2>5, <3>1, <4>1 DEF Cached, n
      <4>3. upc'[u] \in {"size", "read"} => \E i \in seen[u]..n : Same(caMean', MeanAt(i)')
        BY <2>2, <2>5, <3>1, <4>1 DEF Cached, n
      <4>4. QED BY <2>1, <2>5, <3>1, <4>2, <4>3 DEF Cached, n
    <3>3. QED BY <1>2, <2>1, <3>2 DEF SeenOK
  <2>9. QED BY <1>11, <2>6, <2>7, <2>8
<1>12. CASE BaseNext(Updaters) /\ UNCHANGED <<totals, cached>>
  <2>1. CASE Reset
    BY <1>5, <1>12, <2>1 DEF Reset
  <2>2. QED BY <1>7, <1>8, <1>12, <2>1 DEF BaseNext
<1>13. QED BY <1>1, <1>6, <1>9, <1>10, <1>11, <1>12 DEF TotalNext

------------------------------------------------------------------------------
(* The answers of a RecentExecutionTime.                                      *)

LEMMA PlaceOf ==
  ASSUME NEW size \in Nat \ {0}, NEW k \in Int, NEW x \in 0..(size - 1), size * k + x \in Nat
  PROVE  (size * k + x) % size = x
<1> DEFINE j == size * k + x
           y == j % size
           turns == (j \div size) - k
<1>1. y \in Int /\ 0 <= y /\ y < size /\ j \div size \in Int /\ j = size * (j \div size) + y
  BY PlaceIs
<1>2. x - y = size * turns /\ turns \in Int
  <2>1. \A a, b \in Int : size * a - size * b = size * (a - b)
    OBVIOUS
  <2>2. QED BY <1>1, <2>1
<1>3. \A a \in Int : a >= 1 => size * a >= size
  OBVIOUS
<1>4. \A a \in Int : a <= -1 => size * a <= 0 - size
  OBVIOUS
<1>5. size * 0 = 0
  OBVIOUS
<1> HIDE DEF y, turns
<1>6. turns = 0
  BY <1>1, <1>2, <1>3, <1>4
<1>7. QED BY <1>1, <1>2, <1>5, <1>6 DEF y

LEMMA LeastOfTwo ==
  ASSUME NEW i \in Int, NEW j \in Int
  PROVE  Min({i, j}) = IF i <= j THEN i ELSE j
BY DEF Min

\* The last of the first n measurements.
LEMMA LastOfIs ==
  ASSUME NEW n \in 0..Len(samples), samples \in Seq(Int)
  PROVE  /\ LastOf(n) \in Seq(Int)
         /\ n <= BufSz => Len(LastOf(n)) = n /\ \A i \in 1..n : LastOf(n)[i] = samples[i]
         /\ n > BufSz => Len(LastOf(n)) = BufSz /\ \A i \in 1..BufSz : LastOf(n)[i] = samples[n - BufSz + i]
<1>1. BufSz \in Nat \ {0} /\ n \in Nat
  BY BufAssumption
<1>2. CASE n <= BufSz
  <2>1. LastOf(n) = SubSeq(samples, 1, n)
    <3>1. Min({n, BufSz}) = n /\ n - n + 1 = 1
      BY <1>1, <1>2, LeastOfTwo
    <3>2. QED BY <3>1 DEF LastOf
  <2>2. QED BY <1>1, <1>2, <2>1
<1>3. CASE n > BufSz
  <2>1. LastOf(n) = SubSeq(samples, n - BufSz + 1, n)
    <3>1. Min({n, BufSz}) = BufSz
      BY <1>1, <1>3, LeastOfTwo
    <3>2. QED BY <3>1 DEF LastOf
  <2>2. QED BY <1>1, <1>3, <2>1
<1>4. QED BY <1>1, <1>2, <1>3

\* The i-th of the last elements of a ring s of the given size, n of which were written.
Around(s, t, n, size) ==
  /\ Len(s) = size /\ Len(t) = size
  /\ \A i \in 1..size : s[i] \in Int /\ t[i] \in Int /\ t[i] = s[((n - size + i - 1) % size) + 1]

LEMMA RingRotated ==
  ASSUME NEW size \in Nat \ {0}, NEW n \in Nat, n > size, NEW s, NEW t, Around(s, t, n, size)
  PROVE  \E r \in 0..size : Rotated(s, t, size, r)
<1> DEFINE r == n % size
           k == n \div size
<1>1. r \in Int /\ 0 <= r /\ r < size /\ k \in Int /\ n = size * k + r
  BY PlaceIs
<1> HIDE DEF r, k
<1>2. size * (k - 1) = size * k - size /\ size * k \in Int /\ k - 1 \in Int
  BY <1>1
<1>3. ASSUME NEW i \in 1..(size - r) PROVE t[i] = s[r + i]
  <2>1. i \in 1..size /\ r + i - 1 \in 0..(size - 1) /\ (r + i - 1) + 1 = r + i
    BY <1>1
  <2>2. n - size + i - 1 = size * (k - 1) + (r + i - 1) /\ n - size + i - 1 \in Nat
    BY <1>1, <1>2
  <2>3. (n - size + i - 1) % size = r + i - 1
    <3>1. (size * (k - 1) + (r + i - 1)) % size = r + i - 1
      BY <1>2, <2>1, <2>2, PlaceOf
    <3>2. QED BY <2>2, <3>1
  <2>4. QED BY <2>1, <2>3 DEF Around
<1>4. ASSUME NEW i \in (size - r + 1)..size PROVE t[i] = s[i - (size - r)]
  <2>1. /\ i \in 1..size /\ i - (size - r) - 1 \in 0..(size - 1)
        /\ (i - (size - r) - 1) + 1 = i - (size - r)
    BY <1>1
  <2>2. n - size + i - 1 = size * k + (i - (size - r) - 1) /\ n - size + i - 1 \in Nat
    BY <1>1, <1>2
  <2>3. (n - size + i - 1) % size = i - (size - r) - 1
    <3>1. (size * k + (i - (size - r) - 1)) % size = i - (size - r) - 1
      BY <1>1, <2>1, <2>2, PlaceOf
    <3>2. QED BY <2>2, <3>1
  <2>4. QED BY <2>1, <2>3 DEF Around
<1>5. Rotated(s, t, size, r)
  BY <1>3, <1>4 DEF Rotated, Around
<1>6. r \in 0..size
  BY <1>1
<1>7. QED BY <1>5, <1>6

\* What the buffer b held after n measurements.
Holds(b, n) == \A i \in 1..n : i > n - BufSz => b[(i - 1) % BufSz] = samples[i]

\* Read from its beginning, it has the last measurements, though not in their order.
LEMMA CopyRotated ==
  ASSUME NEW n \in 0..Len(samples), samples \in Seq(Int), NEW b \in [0..(BufSz - 1) -> Nat], Holds(b, n)
  PROVE  LET m == Len(LastOf(n))
         IN  \E r \in 0..m : Rotated([i \in 1..m |-> b[i - 1]], LastOf(n), m, r)
<1> DEFINE t == LastOf(n)
           s(m) == [i \in 1..m |-> b[i - 1]]
<1>1. BufSz \in Nat \ {0} /\ n \in Nat
  BY BufAssumption
<1>2. /\ n <= BufSz => Len(t) = n /\ \A i \in 1..n : t[i] = samples[i]
      /\ n > BufSz => Len(t) = BufSz /\ \A i \in 1..BufSz : t[i] = samples[n - BufSz + i]
  BY <1>1, LastOfIs
<1>3. \A i \in 1..Len(t) : t[i] \in Int
  BY LastOfIs
<1>4. ASSUME NEW m \in Nat, m <= BufSz
      PROVE  Len(s(m)) = m /\ \A i \in 1..m : s(m)[i] \in Int /\ s(m)[i] = b[i - 1]
  <2>1. \A i \in 1..m : i - 1 \in 0..(BufSz - 1)
    BY <1>1, <1>4
  <2>2. QED BY <1>4, <2>1
<1> HIDE DEF s, t
<1>5. CASE n <= BufSz
  <2>1. ASSUME NEW i \in 1..n PROVE t[i] = s(n)[i]
    <3>1. i - 1 \in 0..(BufSz - 1) /\ i - 1 \in Nat /\ i - 1 = BufSz * 0 + (i - 1) /\ 0 \in Int
      BY <1>1, <1>5
    <3>2. (i - 1) % BufSz = i - 1
      <4>1. (BufSz * 0 + (i - 1)) % BufSz = i - 1
        BY <1>1, <3>1, PlaceOf
      <4>2. QED BY <3>1, <4>1
    <3>3. i > n - BufSz
      BY <1>1, <1>5
    <3>4. b[i - 1] = samples[i]
      BY <3>2, <3>3 DEF Holds
    <3>5. QED BY <1>1, <1>2, <1>4, <1>5, <3>4
  <2>2. Rotated(s(n), t, n, 0)
    <3>1. \A i \in 1..(n - 0) : i \in 1..n /\ 0 + i = i
      BY <1>1
    <3>2. \A i \in (n - 0 + 1)..n : FALSE
      BY <1>1
    <3>3. Len(t) = n /\ Len(s(n)) = n /\ \A i \in 1..n : s(n)[i] \in Int /\ t[i] \in Int
      BY <1>1, <1>2, <1>3, <1>4, <1>5
    <3>4. QED BY <2>1, <3>1, <3>2, <3>3 DEF Rotated
  <2>3. 0 \in 0..n /\ Len(t) = n
    BY <1>1, <1>2, <1>5
  <2>4. QED BY <2>2, <2>3 DEF s, t
<1>6. CASE n > BufSz
  <2>1. /\ Len(t) = BufSz /\ Len(s(BufSz)) = BufSz
        /\ \A i \in 1..BufSz : s(BufSz)[i] \in Int /\ s(BufSz)[i] = b[i - 1] /\ t[i] \in Int
    BY <1>1, <1>2, <1>3, <1>4, <1>6
  <2>2. ASSUME NEW i \in 1..BufSz PROVE t[i] = s(BufSz)[((n - BufSz + i - 1) % BufSz) + 1]
    <3>1. PICK j \in Nat : j = n - BufSz + i
      BY <1>1, <1>6
    <3>2. j \in 1..n /\ j > n - BufSz /\ j - 1 \in Nat /\ j - 1 = n - BufSz + i - 1
      BY <1>1, <1>6, <3>1
    <3>3. b[(j - 1) % BufSz] = samples[j]
      BY <3>2 DEF Holds
    <3>4. (j - 1) % BufSz \in Int /\ 0 <= (j - 1) % BufSz /\ (j - 1) % BufSz < BufSz
      BY <1>1, <3>2, PlaceIs
    <3>5. ((j - 1) % BufSz) + 1 \in 1..BufSz /\ (((j - 1) % BufSz) + 1) - 1 = (j - 1) % BufSz
      BY <1>1, <3>4
    <3>6. s(BufSz)[((j - 1) % BufSz) + 1] = b[(j - 1) % BufSz]
      BY <2>1, <3>5
    <3>7. t[i] = samples[j]
      BY <1>2, <1>6, <3>1
    <3>8. QED BY <3>2, <3>3, <3>6, <3>7
  <2>3. Around(s(BufSz), t, n, BufSz)
    BY <2>1, <2>2 DEF Around
  <2>4. \E r \in 0..BufSz : Rotated(s(BufSz), t, BufSz, r)
    BY <1>1, <1>6, <2>3, RingRotated
  <2>5. QED BY <2>1, <2>4 DEF s, t
<1>7. n <= BufSz \/ n > BufSz
  BY <1>1
<1>8. QED BY <1>5, <1>6, <1>7

\* Which is all the same for their mean and its error.
LEMMA RotatedStats ==
  ASSUME NEW s \in Seq(Int), NEW t \in Seq(Int), NEW n \in Nat, NEW r \in 0..n, Rotated(s, t, n, r),
         NEW m \in Int \X Int
  PROVE  Mean(t) = Mean(s) /\ ErrorOf(t, m) = ErrorOf(s, m)
<1>1. Len(s) = n /\ Len(t) = n
  BY DEF Rotated
<1>2. Mean(t) = Mean(s)
  <2>1. Total(t) = Total(s)
    BY TotalRotated
  <2>2. s = <<>> <=> n = 0
    BY <1>1
  <2>3. t = <<>> <=> n = 0
    BY <1>1
  <2>4. QED BY <1>1, <2>1, <2>2, <2>3 DEF Mean
<1> DEFINE c == [i \in 1..n |-> (s[i] * m[2] - m[1]) * (s[i] * m[2] - m[1])]
           d == [i \in 1..n |-> (t[i] * m[2] - m[1]) * (t[i] * m[2] - m[1])]
<1>3. Total(d) = Total(c)
  <2>1. Len(c) = n /\ Len(d) = n
    OBVIOUS
  <2>2. \A i \in 1..n : s[i] \in Int /\ t[i] \in Int
    BY DEF Rotated
  <2>3. \A i \in 1..n : c[i] \in Int /\ d[i] \in Int
    BY <2>2
  <2>4. \A i, j \in 1..n : t[i] = s[j] => d[i] = c[j]
    OBVIOUS
  <2> HIDE DEF c, d
  <2>5. \A i \in 1..(n - r) : i \in 1..n /\ r + i \in 1..n
    OBVIOUS
  <2>6. \A i \in (n - r + 1)..n : i \in 1..n /\ i - (n - r) \in 1..n
    OBVIOUS
  <2>7. \A i \in 1..(n - r) : d[i] = c[r + i]
    BY <1>1, <2>4, <2>5 DEF Rotated
  <2>8. \A i \in (n - r + 1)..n : d[i] = c[i - (n - r)]
    BY <1>1, <2>4, <2>6 DEF Rotated
  <2>9. Rotated(c, d, n, r)
    BY <2>1, <2>3, <2>7, <2>8 DEF Rotated
  <2>10. QED BY <2>9, TotalRotated
<1>4. Squares(t, m) = Squares(s, m)
  BY <1>1, <1>3 DEF Squares
<1>5. ErrorOf(t, m) = ErrorOf(s, m)
  BY <1>1, <1>4 DEF ErrorOf
<1>6. QED BY <1>2, <1>5

\* Only one caller updates the statistics: with two, none of this holds.
OneUpdater == \A u, v \in RecentUpdaters : u = v

Busy(u) == upc[u] \in {"call", "average", "error"}

\* An update computes the statistics of one moment since it began; what is in the shared
\* fields when none is under way is the statistics of one moment, too.
Updating(u) ==
  /\ upc[u] # "out" => u \in RecentUpdaters
  /\ Busy(u) \/ upc[u] = "read" => seen[u] <= lastCalc
  /\ Busy(u) => sampleSz = Len(LastOf(lastCalc)) /\ Holds(copy[u], lastCalc)
  /\ upc[u] \in {"average", "error"} => arg[u] = Len(LastOf(lastCalc))
  /\ upc[u] = "error" => average = Mean(LastOf(lastCalc))

Answered ==
  /\ average = Mean(LastOf(lastCalc)) /\ sampleSz = Len(LastOf(lastCalc))
  /\ lastCalc > 0 => stdErr = ErrorOf(LastOf(lastCalc), Mean(LastOf(lastCalc)))

RecentShape ==
  /\ SeenOK /\ lastCalc \in 0..Len(samples)
  /\ copy \in [Updaters -> [0..(BufSz - 1) -> Nat]] /\ arg \in [Updaters -> Nat]
  /\ \A u \in Updaters : Updating(u)
  /\ (\A u \in Updaters : ~Busy(u)) => Answered

RecentFreshInv == ~IsTotal => RecentShape

LEMMA LastOfStays ==
  ASSUME NEW x \in Int, samples \in Seq(Int), samples' = Append(samples, x), NEW n \in 0..Len(samples)
  PROVE  LastOf(n)' = LastOf(n) /\ \A b : Holds(b, n)' <=> Holds(b, n)
<1>1. n \in Nat /\ BufSz \in Nat \ {0} /\ n \in 0..Len(samples)
  BY BufAssumption
<1>2. Min({n, BufSz}) \in 0..n
  BY <1>1, LeastOfTwo
<1>3. SubSeq(samples', n - Min({n, BufSz}) + 1, n) = SubSeq(samples, n - Min({n, BufSz}) + 1, n)
  <2>1. \A k \in 0..n : SubSeq(Append(samples, x), n - k + 1, n) = SubSeq(samples, n - k + 1, n)
    BY <1>1
  <2>2. QED BY <1>2, <2>1
<1>4. \A i \in 1..n : samples'[i] = samples[i]
  BY <1>1
<1>5. QED BY <1>3, <1>4 DEF LastOf, Holds

\* What is computed from a copy of one moment.
LEMMA CopiedStats ==
  ASSUME samples \in Seq(Int), RecentShape, NEW u \in Updaters, upc[u] \in {"average", "error"}
  PROVE  /\ Mean(Copied(u)) = Mean(LastOf(lastCalc))
         /\ ErrorOf(Copied(u), Mean(LastOf(lastCalc))) = ErrorOf(LastOf(lastCalc), Mean(LastOf(lastCalc)))
<1> DEFINE t == LastOf(lastCalc)
           m == Len(t)
<1>1. /\ lastCalc \in 0..Len(samples) /\ copy[u] \in [0..(BufSz - 1) -> Nat] /\ Holds(copy[u], lastCalc)
      /\ arg[u] = m
  BY DEF RecentShape, Updating, Busy
<1>2. t \in Seq(Int) /\ m \in Nat /\ m <= BufSz
  <2>1. t \in Seq(Int)
    BY <1>1, LastOfIs
  <2>2. m \in Nat
    BY <2>1
  <2>3. m <= BufSz
    <3>1. lastCalc \in Nat /\ BufSz \in Nat
      BY <1>1, BufAssumption
    <3>2. CASE lastCalc <= BufSz
      BY <1>1, <3>1, <3>2, LastOfIs
    <3>3. CASE lastCalc > BufSz
      BY <1>1, <3>1, <3>3, LastOfIs
    <3>4. QED BY <3>1, <3>2, <3>3
  <2>4. QED BY <2>1, <2>2, <2>3
<1>3. Copied(u) = [i \in 1..m |-> copy[u][i - 1]]
  BY <1>1 DEF Copied
<1>4. Copied(u) \in Seq(Int)
  <2> HIDE DEF m
  <2>1. BufSz \in Nat
    BY BufAssumption
  <2>2. \A i \in 1..m : i - 1 \in 0..(BufSz - 1)
    BY <1>2, <2>1
  <2>3. \A i \in 1..m : copy[u][i - 1] \in Int
    <3>1. PICK c \in [0..(BufSz - 1) -> Nat] : c = copy[u]
      BY <1>1
    <3>2. \A j \in 0..(BufSz - 1) : c[j] \in Int
      OBVIOUS
    <3>3. QED BY <2>2, <3>1, <3>2
  <2>4. QED BY <1>2, <1>3, <2>3
<1>5. PICK r \in 0..m : Rotated(Copied(u), t, m, r)
  BY <1>1, <1>3, CopyRotated
<1>6. Mean(t) \in Int \X Int
  <2> HIDE DEF t
  <2>1. Total(t) \in Int /\ Len(t) \in Int
    BY <1>2, TotalAppend
  <2>2. QED BY <2>1 DEF Mean, Huge
<1> HIDE DEF m, t
<1>7. Mean(t) = Mean(Copied(u)) /\ ErrorOf(t, Mean(t)) = ErrorOf(Copied(u), Mean(t))
  BY <1>2, <1>4, <1>5, <1>6, RotatedStats
<1>8. QED BY <1>7 DEF t

LEMMA RecentFreshStep == OneUpdater /\ FInv /\ Ring /\ RecentFreshInv /\ [Next]_vars => RecentFreshInv'
<1> SUFFICES ASSUME OneUpdater, FInv, Ring, RecentFreshInv, [Next]_vars, ~IsTotal' PROVE RecentShape'
  BY DEF RecentFreshInv
<1> USE FeedbackAssumption, BufAssumption
<1>1. ~IsTotal /\ (RecentNext \/ UNCHANGED vars)
  <2>1. CASE IsTotal /\ TotalNext
    BY <2>1 DEF TotalNext, BaseNext, Run, Reset, Begin, Done, EndLock, EndCheck, EndStore, EndCount,
       EndAverage, UpdateGood, UpdateMean, UpdateSize, IsTotal
  <2>2. QED BY <2>1 DEF Next, vars, base, IsTotal
<1>2. /\ RecentShape /\ RingShape
      /\ upc \in [Updaters -> {"out", "begin", "mean", "size", "read", "copy", "call", "average", "error"}]
  BY <1>1 DEF RecentFreshInv, Ring, FInv, TimesKept
<1>3. samples \in Seq(Nat) /\ samples \in Seq(Int) /\ Len(samples) \in Nat
  BY <1>2 DEF RingShape
<1>4. /\ SeenOK /\ seen \in [Updaters -> Nat] /\ lastCalc \in 0..Len(samples)
      /\ copy \in [Updaters -> [0..(BufSz - 1) -> Nat]] /\ arg \in [Updaters -> Nat]
  BY <1>2 DEF RecentShape, SeenOK
<1>5. ASSUME UNCHANGED <<upc, seen, samples, shared, local>> PROVE RecentShape'
  BY <1>2, <1>5 DEF RecentShape, Updating, Answered, SeenOK, Busy, LastOf, Holds, shared, local
<1>6. CASE UNCHANGED vars
  BY <1>5, <1>6 DEF vars, base, ofRecent, shared
<1>7. ASSUME NEW t \in Threads, Run(t) \/ Reset, UNCHANGED <<shared, local>> PROVE RecentShape'
  BY <1>5, <1>7 DEF Run, Reset
<1>8. ASSUME NEW v \in RecentUpdaters, Begin(v) \/ Done(v), UNCHANGED <<shared, local>> PROVE RecentShape'
  <2>1. /\ v \in Updaters /\ samples' = samples /\ seen' \in [Updaters -> Nat] /\ seen'[v] <= Len(samples)
        /\ ~Busy(v) /\ ~Busy(v)' /\ upc'[v] # "read"
        /\ \A u \in Updaters : u # v => upc'[u] = upc[u] /\ seen'[u] = seen[u]
    <3>1. v \in Updaters
      OBVIOUS
    <3>2. CASE Begin(v)
      BY <1>2, <1>3, <1>4, <3>1, <3>2 DEF Begin, Busy
    <3>3. CASE Done(v)
      BY <1>2, <1>3, <1>4, <3>1, <3>3 DEF Done, Busy
    <3>4. QED BY <1>8, <3>2, <3>3
  <2>2. \A u \in Updaters : Busy(u)' <=> Busy(u)
    BY <2>1 DEF Busy
  <2>3. SeenOK'
    BY <1>4, <2>1 DEF SeenOK
  <2>4. ASSUME NEW u \in Updaters PROVE Updating(u)'
    <3>1. Updating(u)
      BY <1>2 DEF RecentShape
    <3>2. CASE u = v
      BY <2>1, <3>2 DEF Updating, Busy
    <3>3. CASE u # v
      BY <1>8, <2>1, <2>2, <3>1, <3>3 DEF Updating, LastOf, Holds, shared, local
    <3>4. QED BY <3>2, <3>3
  <2>5. (\A u \in Updaters : ~Busy(u)') => Answered'
    BY <1>2, <1>8, <2>1, <2>2 DEF RecentShape, Answered, LastOf, shared
  <2>6. QED BY <1>4, <1>8, <2>1, <2>3, <2>4, <2>5 DEF RecentShape, shared, local
<1>9. ASSUME NEW t \in Threads, EndRecord(t) \/ EndObserve(t) PROVE RecentShape'
  BY <1>5, <1>9 DEF EndRecord, EndObserve
<1>10. ASSUME NEW t \in Threads, EndDeploy(t) PROVE RecentShape'
  <2>1. time[t] \in Int /\ samples' = Append(samples, time[t]) /\ UNCHANGED <<upc, seen, shared, local>>
    BY <1>10 DEF EndDeploy, FInv, TimesKept
  <2>2. Len(samples') = Len(samples) + 1
    BY <1>3, <2>1
  <2>3. LastOf(lastCalc)' = LastOf(lastCalc) /\ \A b : Holds(b, lastCalc)' <=> Holds(b, lastCalc)
    <3>1. lastCalc' = lastCalc
      BY <2>1 DEF shared
    <3>2. \A n \in 0..Len(samples) : SubSeq(samples', n - Min({n, BufSz}) + 1, n)
                                     = SubSeq(samples, n - Min({n, BufSz}) + 1, n)
      BY <1>3, <2>1, LastOfStays DEF LastOf
    <3>3. \A i \in 1..Len(samples) : samples'[i] = samples[i]
      BY <1>3, <2>1
    <3>4. SubSeq(samples', lastCalc - Min({lastCalc, BufSz}) + 1, lastCalc)
            = SubSeq(samples, lastCalc - Min({lastCalc, BufSz}) + 1, lastCalc)
      BY <1>4, <3>2
    <3>5. LastOf(lastCalc)' = LastOf(lastCalc)
      BY <3>1, <3>4 DEF LastOf
    <3>6. ASSUME NEW b PROVE Holds(b, lastCalc)' <=> Holds(b, lastCalc)
      <4>1. \A i \in 1..lastCalc : i \in 1..Len(samples)
        BY <1>3, <1>4
      <4>2. QED BY <3>1, <3>3, <4>1 DEF Holds
    <3>7. QED BY <3>5, <3>6
  <2>4. SeenOK' /\ lastCalc' \in 0..Len(samples')
    BY <1>3, <1>4, <2>1, <2>2 DEF SeenOK, shared
  <2>5. \A u \in Updaters : Updating(u)' /\ (Busy(u)' <=> Busy(u))
    BY <1>2, <2>1, <2>3 DEF RecentShape, Updating, Busy, shared, local
  <2>6. QED BY <1>2, <1>4, <2>1, <2>3, <2>4, <2>5 DEF RecentShape, Answered, shared, local
<1>11. ASSUME NEW v \in RecentUpdaters,
              UpdateSkip(v) \/ UpdateLock(v) \/ UpdateCopy(v) \/ UpdateCall(v) \/ UpdateAverage(v) \/ UpdateError(v)
       PROVE  RecentShape'
  <2>1. /\ v \in Updaters /\ samples' = samples /\ seen' = seen /\ upc[v] # "out"
        /\ \A u \in Updaters : u # v => upc'[u] = upc[u]
    BY <1>2, <1>11 DEF UpdateSkip, UpdateLock, UpdateCopy, UpdateCall, UpdateAverage, UpdateError
  <2>2. \A u \in Updaters : u # v => upc[u] = "out" /\ upc'[u] = "out" /\ ~Busy(u) /\ ~Busy(u)'
    BY <1>2, <2>1 DEF RecentShape, Updating, OneUpdater, Busy
  <2>3. \A u \in Updaters : u # v => Updating(u)'
    BY <2>1, <2>2 DEF Updating, Busy
  <2>4. SeenOK' /\ seen[v] <= Len(samples) /\ seen[v] \in Nat
    BY <1>4, <2>1 DEF SeenOK
  <2>5. Updating(v)
    BY <1>2, <2>1 DEF RecentShape
  <2>6. ASSUME lastCalc' \in 0..Len(samples), copy' \in [Updaters -> [0..(BufSz - 1) -> Nat]],
               arg' \in [Updaters -> Nat], Updating(v)', ~Busy(v)' => Answered'
        PROVE  RecentShape'
    BY <2>1, <2>2, <2>3, <2>4, <2>6 DEF RecentShape
  <2>7. ~Busy(v) => Answered
    BY <1>2, <2>2 DEF RecentShape
  <2>8. \A n, b : (LastOf(n)' = LastOf(n)) /\ (Holds(b, n)' <=> Holds(b, n))
    BY <2>1 DEF LastOf, Holds
  <2>9. CASE UpdateSkip(v)
    <3>1. upc[v] = "begin" /\ upc'[v] = "read" /\ lastCalc = observations /\ UNCHANGED <<shared, local>>
      BY <1>2, <2>1, <2>9 DEF UpdateSkip
    <3>2. Len(samples) <= observations
      BY <1>2, <1>3 DEF RingShape, B2N
    <3>3. seen[v] <= lastCalc
      BY <1>3, <1>4, <2>4, <3>1, <3>2
    <3>4. Updating(v)'
      BY <2>1, <3>1, <3>3 DEF Updating, Busy, shared
    <3>5. Answered'
      BY <2>1, <2>7, <3>1 DEF Busy, Answered, LastOf, shared
    <3>6. QED BY <1>4, <2>6, <3>1, <3>4, <3>5 DEF shared, local
  <2>10. CASE UpdateLock(v)
    <3>1. upc[v] = "begin" /\ upc'[v] = "copy" /\ UNCHANGED <<shared, local>>
      BY <1>2, <2>1, <2>10 DEF UpdateLock
    <3>2. Updating(v)'
      BY <2>1, <3>1 DEF Updating, Busy
    <3>3. Answered'
      BY <2>1, <2>7, <3>1 DEF Busy, Answered, LastOf, shared
    <3>4. QED BY <1>4, <2>6, <3>1, <3>2, <3>3 DEF shared, local
  <2>11. CASE UpdateCopy(v)
    <3> DEFINE n == Len(samples)
    <3>1. /\ upc'[v] = "call" /\ lock = "free" /\ lastCalc' = observations /\ sampleSz' = Min({BufSz, observations})
          /\ copy' = [copy EXCEPT ![v] = buf] /\ arg' = arg
      BY <1>2, <2>1, <2>11 DEF UpdateCopy
    <3>2. /\ observations = n /\ buf \in [0..(BufSz - 1) -> Nat]
          /\ \A i \in 1..n : i > n - BufSz => buf[(i - 1) % BufSz] = samples[i]
      BY <1>2, <1>3, <3>1 DEF RingShape, B2N
    <3>3. Holds(copy'[v], n) /\ copy' \in [Updaters -> [0..(BufSz - 1) -> Nat]]
      BY <1>4, <2>1, <3>1, <3>2 DEF Holds
    <3>4. sampleSz' = Len(LastOf(n))
      <4>1. n \in Nat /\ n \in 0..Len(samples) /\ BufSz \in Nat /\ sampleSz' = IF BufSz <= n THEN BufSz ELSE n
        <5>1. n \in Int /\ BufSz \in Int
          BY <1>3
        <5>2. QED BY <1>3, <3>1, <3>2, <5>1, LeastOfTwo
      <4>2. CASE n <= BufSz
        BY <1>3, <4>1, <4>2, LastOfIs
      <4>3. CASE n > BufSz
        BY <1>3, <4>1, <4>3, LastOfIs
      <4>4. QED BY <4>1, <4>2, <4>3
    <3>5. seen'[v] <= lastCalc' /\ lastCalc' = n /\ n \in 0..Len(samples)
      BY <1>3, <2>1, <2>4, <3>1, <3>2
    <3> HIDE DEF n
    <3>6. Updating(v)'
      BY <2>1, <2>8, <3>1, <3>3, <3>4, <3>5 DEF Updating, Busy, LastOf, Holds
    <3>7. Busy(v)'
      BY <3>1 DEF Busy
    <3>8. QED BY <1>4, <2>6, <3>1, <3>3, <3>5, <3>6, <3>7
  <2>12. CASE UpdateCall(v)
    <3>1. /\ upc[v] = "call" /\ upc'[v] = "average" /\ arg' = [arg EXCEPT ![v] = sampleSz]
          /\ UNCHANGED <<shared, copy>>
      BY <1>2, <2>1, <2>12 DEF UpdateCall
    <3>2. sampleSz = Len(LastOf(lastCalc)) /\ sampleSz \in Nat
      <4>1. LastOf(lastCalc) \in Seq(Int)
        BY <1>3, <1>4, LastOfIs
      <4>2. QED BY <2>5, <3>1, <4>1 DEF Updating, Busy
    <3>3. arg' \in [Updaters -> Nat] /\ arg'[v] = Len(LastOf(lastCalc))
      BY <1>4, <2>1, <3>1, <3>2
    <3>4. Updating(v)'
      BY <2>1, <2>5, <3>1, <3>3 DEF Updating, Busy, LastOf, Holds, shared
    <3>5. Busy(v)'
      BY <3>1 DEF Busy
    <3>6. QED BY <1>4, <2>6, <3>1, <3>3, <3>4, <3>5 DEF shared
  <2>13. CASE UpdateAverage(v)
    <3>1. /\ upc[v] = "average" /\ upc'[v] = "error" /\ average' = Mean(Copied(v))
          /\ UNCHANGED <<lastCalc, sampleSz, stdErr, local>>
      BY <1>2, <2>1, <2>13 DEF UpdateAverage
    <3>2. average' = Mean(LastOf(lastCalc))
      BY <1>2, <1>3, <2>1, <3>1, CopiedStats
    <3>3. Updating(v)'
      BY <2>1, <2>5, <3>1, <3>2 DEF Updating, Busy, LastOf, Holds, local
    <3>4. Busy(v)'
      BY <3>1 DEF Busy
    <3>5. QED BY <1>4, <2>6, <3>1, <3>3, <3>4 DEF local
  <2>14. CASE UpdateError(v)
    <3>1. /\ upc[v] = "error" /\ upc'[v] = "read" /\ stdErr' = ErrorOf(Copied(v), average)
          /\ copy' = [copy EXCEPT ![v] = Unwritten] /\ arg' = [arg EXCEPT ![v] = 0]
          /\ UNCHANGED <<lastCalc, sampleSz, average>>
      BY <1>2, <2>1, <2>14 DEF UpdateError
    <3>2. /\ average = Mean(LastOf(lastCalc)) /\ sampleSz = Len(LastOf(lastCalc)) /\ seen[v] <= lastCalc
      BY <2>5, <3>1 DEF Updating, Busy
    <3>3. stdErr' = ErrorOf(LastOf(lastCalc), Mean(LastOf(lastCalc)))
      BY <1>2, <1>3, <2>1, <3>1, <3>2, CopiedStats
    <3>4. Answered'
      BY <2>1, <3>1, <3>2, <3>3 DEF Answered, LastOf
    <3>5. Updating(v)'
      BY <2>1, <3>1, <3>2 DEF Updating, Busy
    <3>6. copy' \in [Updaters -> [0..(BufSz - 1) -> Nat]] /\ arg' \in [Updaters -> Nat]
      BY <1>4, <3>1 DEF Unwritten
    <3>7. QED BY <1>4, <2>6, <3>1, <3>4, <3>5, <3>6
  <2>15. QED BY <1>11, <2>9, <2>10, <2>11, <2>12, <2>13, <2>14
<1>12. CASE BaseNext(RecentUpdaters) /\ UNCHANGED <<ring, shared, local>>
  <2>1. CASE Reset
    BY <1>5, <1>12, <2>1 DEF Reset
  <2>2. QED BY <1>7, <1>8, <1>12, <2>1 DEF BaseNext
<1>13. QED BY <1>1, <1>6, <1>9, <1>10, <1>11, <1>12 DEF RecentNext

\* What an updater reads after its update covers every measurement that had ended when it
\* began.  Of a TotalExecutionTime, each of the answers is that of some moment since then,
\* however many updates are under way; of a RecentExecutionTime, all of them are those of
\* the same moment, as long as there is one updater.
THEOREM FreshAnswersRead == ASSUME OneUpdater PROVE Spec => []FreshAnswers
<1>1. Init => TotalFreshInv
  BY DEF Init, BaseInit, TotalFreshInv, SeenOK, Cached
<1>2. Init => RecentFreshInv
  <2> SUFFICES ASSUME Init, ~IsTotal PROVE RecentShape
    BY DEF RecentFreshInv
  <2>1. /\ samples = <<>> /\ lastCalc = 0 /\ sampleSz = 0 /\ average = Huge
        /\ upc = [u \in Updaters |-> "out"] /\ seen = [u \in Updaters |-> 0]
        /\ copy = [u \in Updaters |-> Unwritten] /\ arg = [u \in Updaters |-> 0]
    BY DEF Init, BaseInit, RecentInit
  <2>2. samples \in Seq(Int) /\ Len(samples) = 0 /\ 0 \in 0..Len(samples)
    BY <2>1
  <2>3. LastOf(0) = <<>> /\ Len(LastOf(0)) = 0
    <3>1. LastOf(0) \in Seq(Int) /\ Len(LastOf(0)) = 0
      BY <2>2, BufAssumption, LastOfIs
    <3>2. QED BY <3>1
  <2>4. Answered
    BY <2>1, <2>3 DEF Answered, Mean
  <2>5. copy \in [Updaters -> [0..(BufSz - 1) -> Nat]]
    BY <2>1 DEF Unwritten
  <2>6. QED BY <2>1, <2>2, <2>4, <2>5 DEF RecentShape, SeenOK, Updating, Busy
<1>3. TotalFreshInv => (IsTotal => TotalFresh)
  BY DEF TotalFreshInv, TotalFresh, Cached
<1>4. Ring /\ RecentFreshInv => (~IsTotal => RecentFresh)
  <2> SUFFICES ASSUME RecentShape, NEW u \in Updaters, upc[u] = "read"
               PROVE  \E n \in seen[u]..Len(samples) :
                        /\ Same(average, Mean(LastOf(n))) /\ sampleSz = Len(LastOf(n))
                        /\ RecentGood <=>
                             n > MinTrials /\ WithinError(ErrorOf(LastOf(n), Mean(LastOf(n))), Mean(LastOf(n)))
    BY DEF RecentFreshInv, RecentFresh
  <2>1. /\ seen[u] \in Nat /\ seen[u] <= lastCalc /\ lastCalc \in Nat /\ MinTrials \in Nat
        /\ lastCalc \in seen[u]..Len(samples)
    BY FeedbackAssumption DEF RecentShape, SeenOK, Updating
  <2>2. Answered
    BY DEF RecentShape, Updating, OneUpdater, Busy
  <2>3. Same(average, Mean(LastOf(lastCalc))) /\ sampleSz = Len(LastOf(lastCalc))
    BY <2>2 DEF Answered, Same
  <2>4. RecentGood <=> lastCalc > MinTrials /\ WithinError(ErrorOf(LastOf(lastCalc), Mean(LastOf(lastCalc))),
                                                           Mean(LastOf(lastCalc)))
    BY <2>1, <2>2 DEF Answered, RecentGood
  <2>5. QED BY <2>1, <2>3, <2>4
<1>5. FInv /\ Ring /\ RecentFreshInv /\ [Next]_vars => RecentFreshInv'
  BY RecentFreshStep
<1>6. (IsTotal => TotalFresh) /\ (~IsTotal => RecentFresh) => FreshAnswers
  BY DEF FreshAnswers
<1>7. QED BY <1>1, <1>2, <1>3, <1>4, <1>5, <1>6, RingKept, StatsKept, TotalFreshStep, PTL DEF Spec
================================================================================
