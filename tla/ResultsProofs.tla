----------------------------- MODULE ResultsProofs -----------------------------
(***************************************************************************)
(* Theorems about Results: the test by which results are compared is a     *)
(* partial order, so the best is found and what it decides is reported in  *)
(* order; the model that is kept is the best of those that were evaluated, *)
(* none is judged by what it was trained on, and the best forecast is      *)
(* tried first.                                                            *)
(***************************************************************************)
EXTENDS Results, Recursion, FiniteSetTheorems, SequenceTheorems, TLAPS

------------------------------------------------------------------------------
(* Comparing results.                                                         *)

\* A result that is better than another took less time, by more than two percent, so of
\* two results at most one is the better one, and none is better than itself.
THEOREM NeverBothBetter ==
  ASSUME NEW a \in [mean : Nat, var : Nat, sz : Nat], NEW b \in [mean : Nat, var : Nat, sz : Nat],
         BetterThan(a, b)
  PROVE  50 * a.mean < 49 * b.mean /\ a.mean < b.mean /\ ~BetterThan(b, a)
<1>1. a.mean \in Nat /\ b.mean \in Nat /\ 50 * (b.mean - a.mean) - b.mean > 0
  BY DEF BetterThan, Margin
<1>2. 50 * a.mean < 49 * b.mean /\ a.mean < b.mean
  BY <1>1
<1>3. ~(50 * (a.mean - b.mean) - a.mean > 0)
  BY <1>1
<1>4. QED BY <1>2, <1>3 DEF BetterThan, Margin

LEMMA Scaled ==
  ASSUME NEW x \in Int, NEW y \in Int, NEW f \in Nat, x <= y
  PROVE  x * f <= y * f
OBVIOUS

\* What Welch's test of two results asks of each of them.
LEMMA EachPart ==
  ASSUME NEW m \in Nat, NEW p \in Nat \ {0}, NEW q \in Nat \ {0}, NEW va \in Nat, NEW vb \in Nat,
         NEW k \in Nat, 400 * m * m * p * q >= k * (vb * p + va * q)
  PROVE  400 * m * m * p >= k * va
<1> DEFINE l == 400 * m * m * p
           r == k * va
<1>1. l \in Nat /\ r \in Nat /\ k * (vb * p + va * q) = k * (vb * p) + r * q /\ k * (vb * p) \in Nat
  OBVIOUS
<1>2. r * q <= l * q
  BY <1>1
<1> HIDE DEF l, r
<1>3. ASSUME l < r PROVE FALSE
  <2>1. (l + 1) * q <= r * q
    BY <1>1, <1>3, Scaled
  <2>2. (l + 1) * q = l * q + q
    BY <1>1
  <2>3. l * q \in Int /\ r * q \in Int
    BY <1>1
  <2>4. QED BY <1>2, <2>1, <2>2, <2>3
<1>4. QED BY <1>1, <1>3 DEF l, r

\* ... and that the parts are enough, when the margin is that of both.
LEMMA BothParts ==
  ASSUME NEW m1 \in Nat, NEW m2 \in Nat, NEW m \in Nat, m1 + m2 <= m,
         NEW p \in Nat, NEW q \in Nat, NEW va \in Nat, NEW vc \in Nat, NEW k \in Nat,
         400 * m1 * m1 * p >= k * va, 400 * m2 * m2 * q >= k * vc
  PROVE  400 * m * m * p * q >= k * (vc * p + va * q)
<1>1. (m1 + m2) * (m1 + m2) <= m * m
  <2>1. (m1 + m2) * (m1 + m2) <= m * (m1 + m2)
    BY Scaled
  <2>2. (m1 + m2) * m <= m * m
    BY Scaled
  <2>3. m * (m1 + m2) = (m1 + m2) * m
    OBVIOUS
  <2>4. QED BY <2>1, <2>2, <2>3
<1>2. m1 * m1 + m2 * m2 <= m * m
  <2>1. (m1 + m2) * (m1 + m2) = m1 * m1 + m2 * m2 + 2 * (m1 * m2) /\ m1 * m2 \in Nat
    OBVIOUS
  <2>2. QED BY <1>1, <2>1
<1>3. (k * va) * q <= (400 * m1 * m1 * p) * q
  BY Scaled
<1>4. (k * vc) * p <= (400 * m2 * m2 * q) * p
  BY Scaled
<1>5. (m1 * m1 + m2 * m2) * (400 * p * q) <= (m * m) * (400 * p * q)
  <2>1. m1 * m1 + m2 * m2 \in Int /\ m * m \in Int /\ 400 * p * q \in Nat
    OBVIOUS
  <2>2. QED BY <1>2, <2>1, Scaled
<1>6. /\ k * (vc * p + va * q) = (k * va) * q + (k * vc) * p
      /\ (m1 * m1 + m2 * m2) * (400 * p * q) = (400 * m1 * m1 * p) * q + (400 * m2 * m2 * q) * p
      /\ (m * m) * (400 * p * q) = 400 * m * m * p * q
  OBVIOUS
<1>7. QED BY <1>3, <1>4, <1>5, <1>6

\* The test leaves many pairs undecided, but it is an order: what is better than a better
\* result is better itself, whatever their variances and their numbers of runs.
THEOREM BetterIsTransitive ==
  ASSUME NEW a \in [mean : Nat, var : Nat, sz : Nat], NEW b \in [mean : Nat, var : Nat, sz : Nat],
         NEW c \in [mean : Nat, var : Nat, sz : Nat], BetterThan(a, b), BetterThan(b, c)
  PROVE  BetterThan(a, c)
<1>1. /\ a.sz \in Nat \ {0} /\ b.sz \in Nat \ {0} /\ c.sz \in Nat \ {0}
      /\ a.var \in Nat /\ b.var \in Nat /\ c.var \in Nat
      /\ a.mean \in Nat /\ b.mean \in Nat /\ c.mean \in Nat
  BY DEF BetterThan
<1>2. Margin(a, b) > 0 /\ Margin(b, c) > 0
  BY DEF BetterThan
<1>3. Margin(a, b) + Margin(b, c) <= Margin(a, c)
  BY <1>1 DEF Margin
<1>4. Margin(a, b) \in Nat /\ Margin(b, c) \in Nat /\ Margin(a, c) \in Nat
  BY <1>1, <1>2, <1>3 DEF Margin
<1>5. 400 * Margin(a, b) * Margin(a, b) * a.sz >= Critical * a.var
  <2>1. 400 * Margin(a, b) * Margin(a, b) * a.sz * b.sz >= Critical * (b.var * a.sz + a.var * b.sz)
    BY DEF BetterThan
  <2>2. Critical \in Nat
    BY SMT DEF Critical
  <2>3. QED BY <1>1, <1>4, <2>1, <2>2, EachPart
<1>6. 400 * Margin(b, c) * Margin(b, c) * c.sz >= Critical * c.var
  <2> DEFINE m == Margin(b, c)
  <2>1. 400 * m * m * b.sz * c.sz >= Critical * (c.var * b.sz + b.var * c.sz)
    BY DEF BetterThan
  <2>2. m \in Nat /\ Critical \in Nat
    BY <1>4, SMT DEF Critical
  <2> HIDE DEF m
  <2>3. 400 * m * m * c.sz * b.sz >= Critical * (b.var * c.sz + c.var * b.sz)
    BY <1>1, <2>1, <2>2
  <2>4. QED BY <1>1, <2>2, <2>3, EachPart DEF m
<1>7. 400 * Margin(a, c) * Margin(a, c) * a.sz * c.sz >= Critical * (c.var * a.sz + a.var * c.sz)
  <2>1. Critical \in Nat
    BY SMT DEF Critical
  <2> DEFINE m1 == Margin(a, b)
             m2 == Margin(b, c)
             m == Margin(a, c)
             p == a.sz
             q == c.sz
             va == a.var
             vc == c.var
  <2>2. /\ m1 \in Nat /\ m2 \in Nat /\ m \in Nat /\ m1 + m2 <= m
        /\ p \in Nat /\ q \in Nat /\ va \in Nat /\ vc \in Nat
    BY <1>1, <1>3, <1>4
  <2>3. 400 * m1 * m1 * p >= Critical * va /\ 400 * m2 * m2 * q >= Critical * vc
    BY <1>5, <1>6
  <2> HIDE DEF m1, m2, m, p, q, va, vc
  <2>4. 400 * m * m * p * q >= Critical * (vc * p + va * q)
    BY <2>1, <2>2, <2>3, BothParts
  <2>5. QED BY <2>4 DEF m, p, q, va, vc
<1>8. QED BY <1>1, <1>2, <1>3, <1>4, <1>7 DEF BetterThan

------------------------------------------------------------------------------
(* Learning.                                                                  *)

\* The models evaluated so far; until the first one, none is kept.
Learned ==
  /\ errs \in Seq(Int) /\ bestIter \in 0..Len(errs)
  /\ errs # <<>> => bestIter # 0 /\ \A i \in DOMAIN errs : errs[bestIter] <= errs[i]

LEMMA LearnStep == Learned /\ [Next]_vars => Learned'
<1> SUFFICES ASSUME Learned, [Next]_vars PROVE Learned'
  OBVIOUS
<1>1. ASSUME UNCHANGED <<errs, bestIter>> PROVE Learned'
  BY <1>1 DEF Learned
<1>2. ASSUME errs' = <<>>, bestIter' = 0 PROVE Learned'
  BY <1>2 DEF Learned
<1>3. ASSUME NEW err \in Errors, LearnIteration(err) PROVE Learned'
  <2>1. /\ err \in Int /\ errs' = Append(errs, err) /\ errs' \in Seq(Int)
        /\ Len(errs') = Len(errs) + 1 /\ errs'[Len(errs) + 1] = err
        /\ \A i \in 1..Len(errs) : errs'[i] = errs[i]
    BY <1>3, ResultsAssumption DEF LearnIteration, Learned
  <2>2. Len(errs) \in Nat /\ DOMAIN errs = 1..Len(errs) /\ DOMAIN errs' = 1..(Len(errs) + 1)
        /\ \A i \in DOMAIN errs : errs[i] \in Int
    BY <2>1 DEF Learned
  <2>3. CASE Improves(err)
    <3>1. bestIter' = Len(errs) + 1
      BY <1>3, <2>3 DEF LearnIteration
    <3>2. \A i \in DOMAIN errs : err <= errs[i]
      <4>1. CASE bestIter = 0
        BY <2>2, <4>1 DEF Learned
      <4>2. CASE bestIter # 0
        BY <2>1, <2>2, <2>3, <4>2 DEF Learned, Improves
      <4>3. QED BY <4>1, <4>2
    <3>3. QED BY <2>1, <2>2, <3>1, <3>2 DEF Learned
  <2>4. CASE ~Improves(err)
    <3>1. bestIter' = bestIter /\ bestIter \in 1..Len(errs) /\ errs[bestIter] < err
      BY <1>3, <2>1, <2>2, <2>4 DEF LearnIteration, Learned, Improves
    <3>2. \A i \in DOMAIN errs : errs[bestIter] <= errs[i]
      BY <2>2, <3>1 DEF Learned
    <3>3. errs'[bestIter'] = errs[bestIter] /\ bestIter' # 0 /\ bestIter' \in 0..Len(errs')
      BY <2>1, <2>2, <3>1
    <3>4. ASSUME NEW i \in DOMAIN errs' PROVE errs[bestIter] <= errs'[i]
      <4>1. CASE i = Len(errs) + 1
        BY <2>1, <2>2, <3>1, <4>1
      <4>2. CASE i \in 1..Len(errs)
        BY <2>1, <2>2, <3>2, <4>2
      <4>3. QED BY <2>2, <4>1, <4>2
    <3>5. QED BY <2>1, <3>3, <3>4 DEF Learned
  <2>5. QED BY <2>3, <2>4
<1>4. CASE SamplePrior \/ LearnedEnough \/ TakePrediction
  BY <1>1, <1>4 DEF SamplePrior, LearnedEnough, TakePrediction, training
<1>5. CASE Retrain \/ Predict
  BY <1>2, <1>5 DEF Retrain, Predict
<1>6. CASE UNCHANGED vars \/ \E v \in DOMAIN stats : Measure(v)
  BY <1>1, <1>6 DEF vars, training, Measure
<1>7. QED BY <1>3, <1>4, <1>5, <1>6 DEF Next, Job

\* However many iterations there are, and whatever the errors, the best model is kept.
THEOREM BestModelKept == Spec => []KeepsBestModel
<1>1. Init => Learned
  BY DEF Init, Learned
<1>2. Learned => KeepsBestModel
  BY DEF Learned, KeepsBestModel
<1>3. QED BY <1>1, <1>2, LearnStep, PTL DEF Spec

------------------------------------------------------------------------------
(* Rows.                                                                      *)

\* A shuffled list has the same versions.
LEMMA Shuffled ==
  ASSUME NEW n \in Nat, NEW order \in SetToSeqs(1..n)
  PROVE  order \in Seq(1..n) /\ Len(order) = n /\ ToSet(order) = 1..n
<1>1. IsFiniteSet(1..n) /\ Cardinality(1..n) = n
  BY FS_Interval
<1>2. order \in [1..n -> 1..n] /\ \A i, j \in 1..n : i # j => order[i] # order[j]
  BY <1>1 DEF SetToSeqs
<1>3. order \in Injection(1..n, 1..n)
  BY <1>2 DEF Injection, IsInjective
<1>4. order \in Surjection(1..n, 1..n)
  BY <1>1, <1>3, FS_Injection
<1>5. QED BY <1>2, <1>4 DEF Surjection, ToSet

\* There are rows in both matrices.
LEMMA SomeOfBoth ==
  ASSUME NEW n \in Nat, n >= 2
  PROVE  ValidateRows(n) \in 1..(n - 1)
<1> DEFINE rows == (2 * n + HeldOut) \div (2 * HeldOut)
<1>1. HeldOut \in Nat /\ HeldOut >= 2
  BY ResultsAssumption
<1>2. rows \in Int /\ rows * (2 * HeldOut) <= 2 * n + HeldOut
  BY <1>1
<1>3. ASSUME rows >= n PROVE FALSE
  <2>1. n * (2 * HeldOut) <= rows * (2 * HeldOut)
    BY <1>1, <1>2, <1>3
  <2>2. HeldOut * (2 * n - 1) <= 2 * n
    BY <1>1, <1>2, <2>1
  <2>3. 2 * (2 * n - 1) <= HeldOut * (2 * n - 1)
    BY <1>1
  <2>4. QED BY <1>1, <2>2, <2>3
<1>4. QED BY <1>2, <1>3 DEF ValidateRows

\* The entries of a list of n versions, of which held are held out, fill the matrices.
LEMMA RowsFilled ==
  ASSUME NEW n \in Nat, NEW held \in 0..n
  PROVE  {Row(count, held) : count \in 1..n}
           = {<<"test", i>> : i \in 1..held} \cup {<<"train", i>> : i \in 1..(n - held)}
<1>1. ASSUME NEW count \in 1..n
      PROVE  Row(count, held) \in {<<"test", i>> : i \in 1..held} \cup {<<"train", i>> : i \in 1..(n - held)}
  <2>1. CASE count <= held
    BY <2>1 DEF Row
  <2>2. CASE count > held
    <3>1. count - held \in 1..(n - held) /\ Row(count, held) = <<"train", count - held>>
      BY <2>2 DEF Row
    <3>2. QED BY <3>1
  <2>3. QED BY <2>1, <2>2
<1>2. ASSUME NEW i \in 1..held
      PROVE  <<"test", i>> \in {Row(count, held) : count \in 1..n}
  <2>1. i \in 1..n /\ Row(i, held) = <<"test", i>>
    BY <1>2 DEF Row
  <2>2. QED BY <2>1
<1>3. ASSUME NEW i \in 1..(n - held)
      PROVE  <<"train", i>> \in {Row(count, held) : count \in 1..n}
  <2>1. i + held \in 1..n /\ Row(i + held, held) = <<"train", i>>
    BY <1>3 DEF Row
  <2>2. QED BY <2>1
<1>4. QED BY <1>1, <1>2, <1>3

\* The list holds each version once, and a dataset is that of the list as it is.
Listed ==
  /\ configs \in Seq(Nat) /\ ToSet(configs) = 1..Len(configs)
  /\ dataset # {} => job \in {"learning", "learned"}
  /\ HeldOutApart

\* What updateDataset() leaves.
LEMMA UpdatedDataset ==
  ASSUME Listed, job = "idle", Len(configs) >= BatchSz, UpdateDataset, job' = "learning"
  PROVE  Listed'
<1>1. dataset = {}
  BY DEF Listed
<1>2. CASE sinceLastTraining = 0
  BY <1>1, <1>2 DEF UpdateDataset, Listed, HeldOutApart
<1>3. CASE sinceLastTraining # 0
  <2> DEFINE n == Len(configs)
             held == ValidateRows(n)
  <2>1. n \in Nat /\ n >= 2 /\ ToSet(configs) = 1..n
    BY ResultsAssumption DEF Listed
  <2>2. PICK order \in SetToSeqs(1..n) :
          /\ configs' = order
          /\ dataset' = {[row |-> Row(count, ValidateRows(Len(order))), version |-> order[count]] : count \in DOMAIN order}
    BY <1>3, <2>1 DEF UpdateDataset
  <2>3. order \in Seq(1..n) /\ Len(order) = n /\ ToSet(order) = 1..n
    BY <2>1, <2>2, Shuffled
  <2>4. DOMAIN order = 1..n /\ dataset' = {[row |-> Row(count, held), version |-> order[count]] : count \in 1..n}
    BY <2>2, <2>3
  <2>5. {d.version : d \in dataset'} = ToSet(order) /\ {d.row : d \in dataset'} = {Row(count, held) : count \in 1..n}
    <3> DEFINE filled(count) == [row |-> Row(count, held), version |-> order[count]]
    <3>1. dataset' = {filled(count) : count \in 1..n}
      BY <2>4
    <3> HIDE DEF held
    <3>2. \A count : filled(count).row = Row(count, held) /\ filled(count).version = order[count]
      OBVIOUS
    <3> HIDE DEF filled
    <3>3. {d.version : d \in dataset'} = {order[count] : count \in 1..n}
      BY <3>1, <3>2
    <3>4. {d.row : d \in dataset'} = {Row(count, held) : count \in 1..n}
      BY <3>1, <3>2
    <3>5. QED BY <2>4, <3>3, <3>4 DEF ToSet
  <2>6. held \in 1..(n - 1) /\ held \in 0..n
    BY <2>1, SomeOfBoth
  <2>7. HeldOutApart'
    <3>1. {Row(count, held) : count \in 1..n}
            = {<<"test", i>> : i \in 1..held} \cup {<<"train", i>> : i \in 1..(n - held)}
      BY <2>1, <2>6, RowsFilled
    <3>2. Len(configs') = n /\ ToSet(configs') = ToSet(order) /\ held < n
      BY <2>1, <2>2, <2>3, <2>6
    <3>3. {d.row : d \in dataset'} = {<<"test", i>> : i \in 1..held} \cup {<<"train", i>> : i \in 1..(n - held)}
      BY <2>5, <3>1
    <3>4. {d.version : d \in dataset'} = ToSet(configs')
      BY <2>5, <3>2
    <3>5. ValidateRows(Len(configs')) = held
      BY <3>2
    <3> HIDE DEF n, held
    <3>6. QED BY <3>2, <3>3, <3>4, <3>5 DEF HeldOutApart
  <2>8. configs' \in Seq(Nat) /\ ToSet(configs)' = 1..Len(configs')
    BY <2>2, <2>3
  <2>9. QED BY <2>7, <2>8 DEF Listed
<1>4. QED BY <1>2, <1>3

\* A configuration that is saved takes the next number.
LEMMA Saved ==
  ASSUME Listed, SaveConfig, dataset = {}, dataset' = {}
  PROVE  Listed'
<1>1. /\ configs \in Seq(Nat) /\ Len(configs) \in Nat
      /\ configs' = Append(configs, Len(configs) + 1)
  BY DEF Listed, SaveConfig
<1>2. configs' \in Seq(Nat) /\ Len(configs') = Len(configs) + 1 /\ DOMAIN configs' = 1..(Len(configs) + 1)
      /\ configs'[Len(configs) + 1] = Len(configs) + 1 /\ \A i \in 1..Len(configs) : configs'[i] = configs[i]
  BY <1>1
<1>3. ToSet(configs)' = ToSet(configs) \cup {Len(configs) + 1}
  BY <1>1, <1>2 DEF ToSet
<1>4. ToSet(configs)' = 1..Len(configs')
  BY <1>1, <1>2, <1>3 DEF Listed
<1>5. QED BY <1>2, <1>4 DEF Listed, HeldOutApart

LEMMA ListStep == Listed /\ [Next]_vars => Listed'
<1> SUFFICES ASSUME Listed, [Next]_vars PROVE Listed'
  OBVIOUS
<1>1. ASSUME UNCHANGED <<configs, dataset>>, dataset # {} => job' \in {"learning", "learned"} PROVE Listed'
  BY <1>1 DEF Listed, HeldOutApart
<1>2. CASE SamplePrior \/ TakePrediction
  <2>1. dataset = {} /\ dataset' = {} /\ SaveConfig
    BY <1>2 DEF SamplePrior, TakePrediction, More, Listed, training
  <2>2. QED BY <2>1, Saved
<1>3. CASE Retrain
  BY <1>3, UpdatedDataset DEF Retrain, More
<1>4. CASE LearnedEnough \/ (\E err \in Errors : LearnIteration(err)) \/ \E v \in DOMAIN stats : Measure(v)
  BY <1>1, <1>4 DEF LearnedEnough, LearnIteration, Measure, Listed, training
<1>5. CASE Predict
  BY <1>5 DEF Predict, Listed, HeldOutApart
<1>6. CASE UNCHANGED vars
  BY <1>1, <1>6 DEF vars, training, Listed
<1>7. QED BY <1>2, <1>3, <1>4, <1>5, <1>6 DEF Next, Job

\* For every share that is held out and every number of configurations, both matrices are
\* filled, and apart.
THEOREM HeldOutFromTraining == Spec => []HeldOutApart
<1>1. Init => Listed
  BY DEF Init, Listed, HeldOutApart, ToSet
<1>2. Listed => HeldOutApart
  BY DEF Listed
<1>3. QED BY <1>1, <1>2, ListStep, PTL DEF Spec

------------------------------------------------------------------------------
(* The best result.                                                           *)

Sample == [mean : Nat, var : Nat, sz : Nat]

\* Each version of the list has its statistics, and is there once.
Recorded ==
  /\ Listed
  /\ \A i, j \in DOMAIN configs : i # j => configs[i] # configs[j]
  /\ stats \in Seq(Sample) /\ Len(stats) = Len(configs)

LEMMA RecordedStep == Recorded /\ [Next]_vars => Recorded'
<1> SUFFICES ASSUME Recorded, [Next]_vars PROVE Recorded'
  OBVIOUS
<1>1. Listed'
  BY ListStep DEF Recorded
<1>2. configs \in Seq(Nat) /\ Len(configs) \in Nat /\ DOMAIN configs = 1..Len(configs)
      /\ ToSet(configs) = 1..Len(configs) /\ \A i \in 1..Len(configs) : configs[i] \in 1..Len(configs)
  BY DEF Recorded, Listed, ToSet
<1>3. CASE SamplePrior \/ TakePrediction
  <2>1. configs' = Append(configs, Len(configs) + 1) /\ stats' = Append(stats, NoSample)
    BY <1>3 DEF SamplePrior, TakePrediction, SaveConfig
  <2>2. NoSample \in Sample
    BY DEF NoSample, Sample
  <2>3. stats' \in Seq(Sample) /\ Len(stats') = Len(configs')
    BY <1>2, <2>1, <2>2 DEF Recorded
  <2>4. /\ DOMAIN configs' = 1..(Len(configs) + 1) /\ configs'[Len(configs) + 1] = Len(configs) + 1
        /\ \A i \in 1..Len(configs) : configs'[i] = configs[i]
    BY <1>2, <2>1
  <2>5. \A i, j \in DOMAIN configs' : i # j => configs'[i] # configs'[j]
    BY <1>2, <2>4 DEF Recorded
  <2>6. QED BY <1>1, <2>3, <2>5 DEF Recorded
<1>4. CASE Retrain
  <2>1. UNCHANGED stats
    BY <1>4 DEF Retrain
  <2>2. CASE UNCHANGED configs
    BY <1>1, <2>1, <2>2 DEF Recorded
  <2>3. CASE ~UNCHANGED configs
    <3>1. PICK order \in SetToSeqs(1..Len(configs)) : configs' = order
      BY <1>2, <1>4, <2>3 DEF Retrain, UpdateDataset
    <3>2. Len(order) = Len(configs)
      BY <1>2, <3>1, Shuffled
    <3>3. Cardinality(1..Len(configs)) = Len(configs)
      BY <1>2, FS_Interval
    <3>4. /\ order \in [1..Len(configs) -> 1..Len(configs)]
          /\ \A i, j \in 1..Len(configs) : i # j => order[i] # order[j]
      BY <3>1, <3>3 DEF SetToSeqs
    <3>5. QED BY <1>1, <2>1, <3>1, <3>2, <3>4 DEF Recorded
  <2>4. QED BY <2>2, <2>3
<1>5. CASE LearnedEnough \/ Predict \/ (\E err \in Errors : LearnIteration(err)) \/ UNCHANGED vars
  <2>1. UNCHANGED <<configs, stats>>
    BY <1>5 DEF LearnedEnough, Predict, LearnIteration, vars
  <2>2. QED BY <1>1, <2>1 DEF Recorded
<1>6. ASSUME NEW v \in DOMAIN stats, Measure(v) PROVE Recorded'
  <2>1. PICK s \in Samples : stats' = [stats EXCEPT ![v] = s]
    BY <1>6 DEF Measure
  <2>2. s \in Sample /\ UNCHANGED configs
    BY <1>6, <2>1, ResultsAssumption DEF Sample, Measure
  <2>3. stats' \in Seq(Sample) /\ Len(stats') = Len(stats)
    BY <2>1, <2>2 DEF Recorded
  <2>4. QED BY <1>1, <2>2, <2>3 DEF Recorded
<1>7. QED BY <1>3, <1>4, <1>5, <1>6 DEF Next, Job

LEMMA RecordedAlways == Spec => []Recorded
<1>1. Init => Recorded
  BY DEF Init, Recorded, Listed, HeldOutApart, ToSet
<1>2. QED BY <1>1, RecordedStep, PTL DEF Spec

\* The comparison of the versions of the list, as an order.
LEMMA BetterOrders ==
  ASSUME Recorded, NEW u \in 1..Len(configs), NEW v \in 1..Len(configs)
  PROVE  /\ Better(u, v) => stats[u].mean < stats[v].mean /\ stats[u].sz # 0
         /\ Better(u, v) => ~Better(v, u)
         /\ \A w \in 1..Len(configs) : Better(u, v) /\ Better(v, w) => Better(u, w)
<1>1. \A w \in 1..Len(configs) : stats[w] \in Sample
  BY DEF Recorded
<1>2. stats[u] \in Sample /\ stats[v] \in Sample
  BY <1>1
<1>3. Better(u, v) => stats[u].mean < stats[v].mean /\ ~Better(v, u)
  BY <1>2, NeverBothBetter DEF Better, Sample
<1>4. Better(u, v) => stats[u].sz # 0
  BY DEF Better, BetterThan
<1>5. ASSUME NEW w \in 1..Len(configs), Better(u, v), Better(v, w) PROVE Better(u, w)
  BY <1>1, <1>2, <1>5, BetterIsTransitive DEF Better, Sample
<1>6. QED BY <1>3, <1>4, <1>5

\* What the loop over the list has found after its k-th entry.
Found(k, best) ==
  k # 0 => /\ best \in 1..Len(configs)
           /\ \A i \in 1..k : ~Better(configs[i], best)
           /\ best = configs[1] \/ stats[best].sz # 0

LEMMA FoundStep ==
  ASSUME Recorded, NEW k \in 0..(Len(configs) - 1), NEW best, Found(k, best)
  PROVE  Found(k + 1, IF k + 1 = 1 \/ ResultGEQ(best, configs[k + 1]) THEN configs[k + 1] ELSE best)
<1> DEFINE v == configs[k + 1]
           N == Len(configs)
<1>1. v \in 1..N /\ \A i \in 1..N : configs[i] \in 1..N
  <2>1. configs \in Seq(Nat) /\ Len(configs) \in Nat /\ ToSet(configs) = 1..Len(configs)
    BY DEF Recorded, Listed
  <2>2. \A i \in 1..Len(configs) : configs[i] \in 1..Len(configs)
    BY <2>1 DEF ToSet
  <2>3. k + 1 \in 1..Len(configs)
    BY <2>1
  <2>4. QED BY <2>2, <2>3
<1>2. N \in Nat
  BY DEF Recorded, Listed
<1>3. \A i \in 1..(k + 1) : i \in 1..k \/ configs[i] = v
  BY <1>2
<1>4. ~Better(v, v)
  BY <1>1, BetterOrders
<1>5. CASE k = 0
  BY <1>1, <1>3, <1>4, <1>5 DEF Found
<1>6. CASE k # 0 /\ ResultGEQ(best, v)
  <2>1. Better(v, best) /\ best \in 1..N
    BY <1>6 DEF ResultGEQ, Found
  <2>2. stats[v].sz # 0
    BY <1>1, <2>1, BetterOrders
  <2>3. ASSUME NEW i \in 1..k, Better(configs[i], v) PROVE FALSE
    <3>1. configs[i] \in 1..N
      BY <1>1, <1>2
    <3>2. Better(configs[i], best)
      BY <1>1, <2>1, <2>3, <3>1, BetterOrders
    <3>3. QED BY <1>6, <3>2 DEF Found
  <2>4. QED BY <1>1, <1>3, <1>4, <1>6, <2>2, <2>3 DEF Found
<1>7. CASE k # 0 /\ ~ResultGEQ(best, v)
  <2>1. ~Better(v, best)
    BY <1>7 DEF ResultGEQ
  <2>2. QED BY <1>3, <1>7, <2>1 DEF Found
<1>8. QED BY <1>5, <1>6, <1>7

LEMMA BestFound ==
  ASSUME Recorded
  PROVE  Found(Len(configs), BestSeen)
<1> DEFINE n == Len(configs)
           Loop(g) == g = [k \in 0..n |->
                             IF k = 0 THEN 0
                             ELSE IF k = 1 \/ ResultGEQ(g[k - 1], configs[k]) THEN configs[k] ELSE g[k - 1]]
           step == [kx \in (1..n) \X Nat |->
                      IF kx[1] = 1 \/ ResultGEQ(kx[2], configs[kx[1]]) THEN configs[kx[1]] ELSE kx[2]]
           h == CHOOSE g : Loop(g)
<1>1. n \in Nat /\ \A i \in 1..n : configs[i] \in Nat
  BY DEF Recorded, Listed
<1>2. \E g : Loop(g)
  <2>1. step \in [(1..n) \X Nat -> Nat] /\ 0 \in Nat
    BY <1>1
  <2>2. \A k \in 1..n, x \in Nat :
          step[<<k, x>>] = IF k = 1 \/ ResultGEQ(x, configs[k]) THEN configs[k] ELSE x
    OBVIOUS
  <2> HIDE DEF step
  <2>3. PICK g : Rounds(n, 0, step, Nat, g)
    BY <1>1, <2>1, RoundsExist
  <2>4. ASSUME NEW k \in 0..n
        PROVE  g[k] = IF k = 0 THEN 0
                      ELSE IF k = 1 \/ ResultGEQ(g[k - 1], configs[k]) THEN configs[k] ELSE g[k - 1]
    <3>1. g[k] = IF k = 0 THEN 0 ELSE step[<<k, g[k - 1]>>]
      BY <2>3 DEF Rounds
    <3>2. k # 0 => k \in 1..n /\ g[k - 1] \in Nat
      BY <1>1, <2>3 DEF Rounds
    <3>3. QED BY <2>2, <3>1, <3>2
  <2>5. Loop(g)
    BY <2>3, <2>4 DEF Rounds
  <2> HIDE DEF Loop
  <2>6. QED BY <2>5
<1>3. Loop(h)
  <2> HIDE DEF Loop
  <2>1. QED BY <1>2
<1>4. BestSeen = h[n]
  BY DEF BestSeen
<1> HIDE DEF h
<1>5. \A k \in 1..n : h[k] = IF k = 1 \/ ResultGEQ(h[k - 1], configs[k]) THEN configs[k] ELSE h[k - 1]
  BY <1>1, <1>3
<1> DEFINE A == {k \in 0..n : Found(k, h[k])}
<1>6. 0 \in A
  BY <1>1 DEF Found
<1>7. ASSUME NEW k \in 0..(n - 1), k \in A PROVE k + 1 \in A
  <2>1. Found(k, h[k]) /\ k + 1 \in 1..n /\ (k + 1) - 1 = k
    BY <1>1, <1>7
  <2>2. h[k + 1] = IF k + 1 = 1 \/ ResultGEQ(h[k], configs[k + 1]) THEN configs[k + 1] ELSE h[k]
    BY <1>5, <2>1
  <2>3. Found(k + 1, h[k + 1])
    BY <2>1, <2>2, FoundStep
  <2>4. QED BY <1>1, <2>1, <2>3
<1>8. \A k \in 0..n : k \in A
  <2> HIDE DEF A
  <2>1. QED BY <1>1, <1>6, <1>7, UpTo
<1>9. QED BY <1>1, <1>4, <1>8

\* However long the list, and however often it is shuffled and its versions are measured,
\* comparing each result with the best so far only finds one that none is better than.
THEOREM BestIsUnbeaten == Spec => []BestUnbeaten
<1>1. ASSUME Recorded PROVE BestUnbeaten
  <2>1. configs # <<>> => Len(configs) # 0 /\ Head(configs) = configs[1] /\ Len(configs) \in Nat
    BY <1>1 DEF Recorded, Listed
  <2>2. \A v \in ToSet(configs) : \E i \in 1..Len(configs) : v = configs[i]
    BY <1>1 DEF Recorded, Listed, ToSet
  <2>3. QED BY <1>1, <2>1, <2>2, BestFound DEF BestUnbeaten, Found
<1>2. Recorded => BestUnbeaten
  BY <1>1
<1>3. QED BY <1>2, RecordedAlways, PTL

------------------------------------------------------------------------------
(* Sorted results.                                                            *)

\* The parts of a sequence before and after a place.
LEMMA Parts ==
  ASSUME NEW S, NEW s \in Seq(S), NEW n \in Nat, n = Len(s), NEW i \in 1..(n + 1)
  PROVE  /\ SubSeq(s, 1, i - 1) \in Seq(S) /\ Len(SubSeq(s, 1, i - 1)) = i - 1
         /\ \A k \in 1..(i - 1) : SubSeq(s, 1, i - 1)[k] = s[k]
         /\ SubSeq(s, i, n) \in Seq(S) /\ Len(SubSeq(s, i, n)) = n - i + 1
         /\ \A k \in 1..(n - i + 1) : SubSeq(s, i, n)[k] = s[i + k - 1]
<1>1. \A k \in 1..n : s[k] \in S
  OBVIOUS
<1>2. SubSeq(s, 1, i - 1) \in Seq(S) /\ Len(SubSeq(s, 1, i - 1)) = i - 1
      /\ \A k \in 1..(i - 1) : SubSeq(s, 1, i - 1)[k] = s[k]
  <2>1. 1 \in Int /\ i - 1 \in Int /\ \A k \in 1..(i - 1) : s[k] \in S
    BY <1>1
  <2>2. /\ SubSeq(s, 1, i - 1) \in Seq(S)
        /\ Len(SubSeq(s, 1, i - 1)) = IF 1 <= i - 1 THEN i - 1 - 1 + 1 ELSE 0
        /\ \A k \in 1..(i - 1 - 1 + 1) : SubSeq(s, 1, i - 1)[k] = s[1 + k - 1]
    BY <2>1, SubSeqProperties
  <2>3. QED BY <2>2
<1>3. SubSeq(s, i, n) \in Seq(S) /\ Len(SubSeq(s, i, n)) = n - i + 1
      /\ \A k \in 1..(n - i + 1) : SubSeq(s, i, n)[k] = s[i + k - 1]
  <2>1. i \in Int /\ n \in Int /\ \A k \in i..n : s[k] \in S
    BY <1>1
  <2>2. /\ SubSeq(s, i, n) \in Seq(S)
        /\ Len(SubSeq(s, i, n)) = IF i <= n THEN n - i + 1 ELSE 0
        /\ \A k \in 1..(n - i + 1) : SubSeq(s, i, n)[k] = s[i + k - 1]
    BY <2>1, SubSeqProperties
  <2>3. QED BY <2>2
<1>4. QED BY <1>2, <1>3

\* t is s with e as its i-th element.
HasAt(t, S, s, i, e) ==
  /\ t \in Seq(S) /\ Len(t) = Len(s) + 1
  /\ \A k \in 1..(i - 1) : t[k] = s[k]
  /\ t[i] = e
  /\ \A k \in (i + 1)..(Len(s) + 1) : t[k] = s[k - 1]

LEMMA InsertAtIs ==
  ASSUME NEW S, NEW s \in Seq(S), NEW e \in S, NEW i \in 1..(Len(s) + 1)
  PROVE  HasAt(InsertAt(s, i, e), S, s, i, e)
<1> DEFINE n == Len(s)
           a == SubSeq(s, 1, i - 1)
           b == SubSeq(s, i, n)
           c == a \o <<e>>
           t == InsertAt(s, i, e)
<1>1. /\ a \in Seq(S) /\ Len(a) = i - 1 /\ \A k \in 1..(i - 1) : a[k] = s[k]
      /\ b \in Seq(S) /\ Len(b) = n - i + 1 /\ \A k \in 1..(n - i + 1) : b[k] = s[i + k - 1]
  <2>1. n \in Nat /\ n = Len(s) /\ i \in 1..(n + 1)
    OBVIOUS
  <2> HIDE DEF n
  <2>2. QED BY <2>1, Parts
<1>2. t = c \o b
  BY DEF InsertAt
<1>8. n \in Nat /\ i \in 1..(n + 1)
  OBVIOUS
<1> HIDE DEF a, b, t, n
<1>3. c \in Seq(S) /\ Len(c) = i /\ (\A k \in 1..(i - 1) : c[k] = s[k]) /\ c[i] = e
  <2>1. e \in S /\ <<e>> \in Seq(S) /\ Len(<<e>>) = 1 /\ <<e>>[1] = e
    OBVIOUS
  <2> DEFINE d == <<e>>
  <2> HIDE DEF d
  <2>2. /\ a \o d \in Seq(S) /\ Len(a \o d) = Len(a) + Len(d)
        /\ \A k \in 1..Len(a) : (a \o d)[k] = a[k]
        /\ \A k \in 1..Len(d) : (a \o d)[Len(a) + k] = d[k]
    <3>1. a \in Seq(S) /\ d \in Seq(S)
      BY <1>1, <2>1 DEF d
    <3>2. QED BY <3>1, Joined
  <2>3. Len(d) = 1 /\ d[1] = e /\ c = a \o d
    BY <2>1 DEF d
  <2>4. i \in Int
    BY <1>8
  <2> HIDE DEF c
  <2>5. QED BY <1>1, <2>2, <2>3, <2>4
<1> HIDE DEF c
<1> DEFINE q == n - i + 1
<1>4. i \in Nat /\ q \in Nat /\ i + q = n + 1 /\ Len(b) = q
  BY <1>1, <1>8
<1> HIDE DEF q
<1>5. /\ t \in Seq(S) /\ Len(t) = n + 1
      /\ \A k \in 1..i : t[k] = c[k]
      /\ \A k \in 1..q : t[i + k] = b[k]
  <2>1. /\ c \o b \in Seq(S) /\ Len(c \o b) = Len(c) + Len(b)
        /\ \A k \in 1..Len(c) : (c \o b)[k] = c[k]
        /\ \A k \in 1..Len(b) : (c \o b)[Len(c) + k] = b[k]
    <3>1. b \in Seq(S) /\ c \in Seq(S)
      BY <1>1, <1>3
    <3>2. QED BY <3>1, Joined
  <2>2. QED BY <1>2, <1>3, <1>4, <2>1
<1>6. ASSUME NEW k \in (i + 1)..(n + 1) PROVE t[k] = s[k - 1]
  <2>1. k - i \in 1..q /\ i + (k - i) = k /\ i + (k - i) - 1 = k - 1
    BY <1>8 DEF q
  <2>2. t[k] = b[k - i] /\ b[k - i] = s[k - 1]
    BY <1>1, <1>5, <2>1 DEF q
  <2>3. QED BY <2>2
<1>7. (\A k \in 1..(i - 1) : t[k] = s[k]) /\ t[i] = e
  <2>1. \A k \in 1..(i - 1) : k \in 1..i
    BY <1>8
  <2>2. i \in 1..i
    BY <1>8
  <2>3. QED BY <1>3, <1>5, <2>1, <2>2
<1>9. QED BY <1>5, <1>6, <1>7 DEF HasAt, t, n

LEMMA RemoveAtIs ==
  ASSUME NEW S, NEW s \in Seq(S), NEW i \in 1..Len(s)
  PROVE  /\ RemoveAt(s, i) \in Seq(S) /\ Len(RemoveAt(s, i)) = Len(s) - 1
         /\ \A k \in 1..(i - 1) : RemoveAt(s, i)[k] = s[k]
         /\ \A k \in i..(Len(s) - 1) : RemoveAt(s, i)[k] = s[k + 1]
<1> DEFINE n == Len(s)
           a == SubSeq(s, 1, i - 1)
           b == SubSeq(s, i + 1, n)
           t == RemoveAt(s, i)
<1>1. a \in Seq(S) /\ Len(a) = i - 1 /\ \A k \in 1..(i - 1) : a[k] = s[k]
  <2>1. n \in Nat /\ n = Len(s) /\ i \in 1..(n + 1)
    OBVIOUS
  <2> HIDE DEF n
  <2>2. QED BY <2>1, Parts
<1>2. b \in Seq(S) /\ Len(b) = n - i /\ \A k \in 1..(n - i) : b[k] = s[i + k]
  <2> DEFINE j == i + 1
  <2>1. /\ n \in Nat /\ n = Len(s) /\ j \in 1..(n + 1) /\ n - j + 1 = n - i
        /\ \A k \in 1..(n - i) : j + k - 1 = i + k
    OBVIOUS
  <2> HIDE DEF j, n
  <2>2. /\ SubSeq(s, j, n) \in Seq(S) /\ Len(SubSeq(s, j, n)) = n - j + 1
        /\ \A k \in 1..(n - j + 1) : SubSeq(s, j, n)[k] = s[j + k - 1]
    BY <2>1, Parts
  <2>3. QED BY <2>1, <2>2 DEF j
<1>3. t = a \o b
  BY DEF RemoveAt
<1>8. n \in Nat /\ i \in 1..n
  OBVIOUS
<1> HIDE DEF a, b, t, n
<1> DEFINE p == i - 1
           q == n - i
<1>4. p \in Nat /\ q \in Nat /\ p + q = n - 1 /\ Len(a) = p /\ Len(b) = q
  BY <1>1, <1>2, <1>8
<1> HIDE DEF p, q
<1>5. /\ t \in Seq(S) /\ Len(t) = n - 1
      /\ \A k \in 1..p : t[k] = a[k]
      /\ \A k \in 1..q : t[p + k] = b[k]
  <2>1. /\ a \o b \in Seq(S) /\ Len(a \o b) = Len(a) + Len(b)
        /\ \A k \in 1..Len(a) : (a \o b)[k] = a[k]
        /\ \A k \in 1..Len(b) : (a \o b)[Len(a) + k] = b[k]
    <3>1. a \in Seq(S) /\ b \in Seq(S)
      BY <1>1, <1>2
    <3>2. QED BY <3>1, Joined
  <2>2. QED BY <1>3, <1>4, <2>1
<1>6. ASSUME NEW k \in i..(n - 1) PROVE t[k] = s[k + 1]
  <2>1. k - p \in 1..q /\ k - p \in 1..(n - i) /\ p + (k - p) = k /\ i + (k - p) = k + 1
    BY <1>8 DEF p, q
  <2>2. t[k] = b[k - p] /\ b[k - p] = s[k + 1]
    BY <1>2, <1>5, <2>1
  <2>3. QED BY <2>2
<1>7. \A k \in 1..(i - 1) : t[k] = s[k]
  BY <1>1, <1>5 DEF p
<1>9. QED BY <1>5, <1>6, <1>7 DEF t, n

\* The test decides every pair of the list.
AllDecided == \A v, w \in ToSet(configs) : v # w => Decided(v, w)

\* What std::sort has made of the first k versions.
Printed(k, sorted) ==
  /\ sorted \in Seq(Nat) /\ Len(sorted) = k
  /\ \A i \in 1..k : \E j \in 1..k : sorted[i] = configs[j]
  /\ \A i, j \in 1..k : i < j => Better(sorted[i], sorted[j])

LEMMA PrintedStep ==
  ASSUME Recorded, AllDecided, NEW k \in 0..(Len(configs) - 1), NEW sorted, Printed(k, sorted)
  PROVE  Printed(k + 1, Inserted(sorted, configs[k + 1]))
<1> DEFINE v == configs[k + 1]
           N == Len(configs)
           stop == {i \in DOMAIN sorted : ~ConfigLessThan(v, sorted[i])}
           new == Inserted(sorted, v)
<1>1. N \in Nat /\ configs \in Seq(Nat) /\ DOMAIN configs = 1..N /\ ToSet(configs) = 1..N
  BY DEF Recorded, Listed
<1>2. \A i \in 1..N : configs[i] \in 1..N
  BY <1>1 DEF ToSet
<1>3. k \in Nat /\ k + 1 \in 1..N /\ v \in 1..N
  BY <1>1, <1>2
<1>4. sorted \in Seq(Nat) /\ Len(sorted) = k /\ DOMAIN sorted = 1..k
  BY DEF Printed
<1>5. ASSUME NEW i \in 1..k
      PROVE  sorted[i] \in 1..N /\ (Better(sorted[i], v) \/ Better(v, sorted[i]))
  <2>1. PICK j \in 1..k : sorted[i] = configs[j]
    BY DEF Printed
  <2>2. j \in 1..N /\ j # k + 1
    BY <1>1, <1>3
  <2>3. sorted[i] \in 1..N /\ sorted[i] # v
    BY <1>1, <1>2, <1>3, <2>1, <2>2 DEF Recorded
  <2>4. QED BY <1>1, <1>3, <2>3 DEF AllDecided, Decided
<1>6. stop = {i \in 1..k : Better(sorted[i], v)}
  BY <1>4 DEF ConfigLessThan, ResultGEQ
<1>7. \E m \in 0..k : stop = 1..m /\ new = InsertAt(sorted, m + 1, v)
  <2>1. ASSUME NEW i \in stop, NEW j \in 1..k, j <= i PROVE j \in stop
    <3>1. j = i \/ Better(sorted[j], sorted[i])
      BY <1>3, <1>6, <2>1 DEF Printed
    <3>2. i \in 1..k /\ Better(sorted[i], v)
      BY <1>6
    <3>3. sorted[i] \in 1..N /\ sorted[j] \in 1..N
      BY <1>5, <3>2
    <3>4. Better(sorted[j], v)
      BY <1>3, <3>1, <3>2, <3>3, BetterOrders
    <3>5. QED BY <1>6, <3>4
  <2>2. CASE stop = {}
    <3>1. new = <<v>> \o sorted
      BY <2>2 DEF Inserted
    <3>2. InsertAt(sorted, 1, v) = <<v>> \o sorted
      <4>1. SubSeq(sorted, 1, 0) = <<>> /\ SubSeq(sorted, 1, Len(sorted)) = sorted
        BY <1>4
      <4>2. <<>> \o <<v>> = <<v>>
        BY <1>3
      <4>3. 1 - 1 = 0
        OBVIOUS
      <4>4. QED BY <4>1, <4>2, <4>3 DEF InsertAt
    <3>3. stop = 1..0 /\ 0 \in 0..k /\ 0 + 1 = 1
      BY <1>3, <2>2
    <3> HIDE DEF stop, new
    <3>4. QED BY <3>1, <3>2, <3>3
  <2>3. CASE stop # {}
    <3> DEFINE m == Max(stop)
    <3>1. m \in stop /\ \A i \in stop : i <= m
      <4>1. stop \in SUBSET (0..k)
        BY <1>3, <1>6
      <4> HIDE DEF stop
      <4>2. \E x \in stop : \A y \in stop : y <= x
        BY <1>3, <2>3, <4>1, GreatestUpTo
      <4>3. \E x \in stop : \A y \in stop : x >= y
        BY <4>1, <4>2
      <4>4. m \in stop /\ \A y \in stop : m >= y
        BY <4>3 DEF Max
      <4>5. QED BY <4>1, <4>4
    <3> HIDE DEF m
    <3>2. m \in 1..k
      BY <1>6, <3>1
    <3>3. stop = 1..m
      <4>1. stop \subseteq 1..m
        BY <1>6, <3>1
      <4>2. ASSUME NEW j \in 1..m PROVE j \in stop
        BY <2>1, <3>1, <3>2
      <4>3. QED BY <4>1, <4>2
    <3>4. 1 \in stop /\ sorted # <<>>
      BY <1>4, <3>2, <3>3
    <3>5. new = InsertAt(sorted, m + 1, v)
      BY <3>4 DEF Inserted, m
    <3> HIDE DEF stop, new
    <3>6. QED BY <1>3, <3>2, <3>3, <3>5
  <2>4. QED BY <2>2, <2>3
<1>8. PICK m \in 0..k : stop = 1..m /\ new = InsertAt(sorted, m + 1, v)
  BY <1>7
<1>9. /\ new \in Seq(Nat) /\ Len(new) = k + 1
      /\ \A i \in 1..(k + 1) : new[i] = IF i < m + 1 THEN sorted[i] ELSE IF i = m + 1 THEN v ELSE sorted[i - 1]
  <2> DEFINE place == m + 1
             w == v
             S == Nat
  <2>1. place \in 1..(Len(sorted) + 1) /\ w \in S /\ k \in Nat
    BY <1>3, <1>4, <1>8
  <2>4. new = InsertAt(sorted, place, w)
    BY <1>8
  <2> HIDE DEF place, w, S
  <2>2. /\ InsertAt(sorted, place, w) \in Seq(S) /\ Len(InsertAt(sorted, place, w)) = Len(sorted) + 1
        /\ \A i \in 1..(place - 1) : InsertAt(sorted, place, w)[i] = sorted[i]
        /\ InsertAt(sorted, place, w)[place] = w
        /\ \A i \in (place + 1)..(Len(sorted) + 1) : InsertAt(sorted, place, w)[i] = sorted[i - 1]
    <3>1. sorted \in Seq(S)
      BY <1>4 DEF S
    <3>2. w \in S /\ place \in 1..(Len(sorted) + 1)
      BY <2>1
    <3>3. HasAt(InsertAt(sorted, place, w), S, sorted, place, w)
      BY <3>1, <3>2, InsertAtIs
    <3>4. QED BY <3>3 DEF HasAt
  <2> HIDE DEF new
  <2>3. QED BY <1>4, <2>1, <2>2, <2>4 DEF place, w, S
<1>10. \A i \in 1..k : IF i <= m THEN Better(sorted[i], v) ELSE Better(v, sorted[i])
  BY <1>3, <1>5, <1>6, <1>8
<1> HIDE DEF v, new, stop
<1>14. /\ \A i \in 1..k : \E j \in 1..k : sorted[i] = configs[j]
       /\ \A i, j \in 1..k : i < j => Better(sorted[i], sorted[j])
  BY DEF Printed
<1>11. ASSUME NEW i \in 1..(k + 1) PROVE \E j \in 1..(k + 1) : new[i] = configs[j]
  <2>1. CASE i = m + 1
    <3>1. new[i] = v /\ k + 1 \in 1..(k + 1)
      BY <1>3, <1>9, <2>1
    <3>2. QED BY <3>1 DEF v
  <2>2. CASE i # m + 1
    <3>1. PICK h \in 1..k : new[i] = sorted[h]
      <4>1. CASE i < m + 1
        BY <1>3, <1>9, <4>1
      <4>2. CASE i > m + 1
        <5>1. i - 1 \in 1..k /\ new[i] = sorted[i - 1]
          BY <1>3, <1>9, <4>2
        <5>2. QED BY <5>1
      <4>3. QED BY <2>2, <4>1, <4>2
    <3>2. PICK j \in 1..k : sorted[h] = configs[j]
      BY <1>14
    <3>3. QED BY <1>3, <3>1, <3>2
  <2>3. QED BY <2>1, <2>2
<1>12. ASSUME NEW i \in 1..(k + 1), NEW j \in 1..(k + 1), i < j PROVE Better(new[i], new[j])
  <2>1. CASE j < m + 1
    <3>1. new[i] = sorted[i] /\ new[j] = sorted[j] /\ i \in 1..k /\ j \in 1..k
      BY <1>3, <1>9, <1>12, <2>1
    <3>2. QED BY <1>12, <1>14, <3>1
  <2>2. CASE j = m + 1
    <3>1. new[i] = sorted[i] /\ new[j] = v /\ i \in 1..k /\ i <= m
      BY <1>3, <1>9, <1>12, <2>2
    <3>2. QED BY <1>10, <3>1
  <2>3. CASE i = m + 1
    <3>1. new[i] = v /\ new[j] = sorted[j - 1] /\ j - 1 \in 1..k /\ ~(j - 1 <= m)
      BY <1>3, <1>9, <1>12, <2>3
    <3>2. QED BY <1>10, <3>1
  <2>4. CASE i < m + 1 /\ m + 1 < j
    <3>1. new[i] = sorted[i] /\ new[j] = sorted[j - 1] /\ i \in 1..k /\ j - 1 \in 1..k /\ i < j - 1
      BY <1>3, <1>9, <2>4
    <3>2. QED BY <1>14, <3>1
  <2>5. CASE m + 1 < i
    <3>1. new[i] = sorted[i - 1] /\ new[j] = sorted[j - 1] /\ i - 1 \in 1..k /\ j - 1 \in 1..k /\ i - 1 < j - 1
      <4>1. m + 1 < j /\ i - 1 \in 1..k /\ j - 1 \in 1..k /\ i - 1 < j - 1
        BY <1>3, <1>12, <2>5
      <4>2. new[i] = sorted[i - 1]
        BY <1>9, <2>5
      <4>3. new[j] = sorted[j - 1]
        BY <1>9, <4>1
      <4>4. QED BY <4>1, <4>2, <4>3
    <3>2. QED BY <1>14, <3>1
  <2>6. QED BY <1>3, <1>12, <2>1, <2>2, <2>3, <2>4, <2>5
<1>13. QED BY <1>9, <1>11, <1>12 DEF Printed, new, v

LEMMA PrintedAll ==
  ASSUME Recorded, AllDecided
  PROVE  Printed(Len(configs), DumpStats)
<1> DEFINE n == Len(configs)
           S == Seq(Nat)
           Loop(g) == g = [k \in 0..n |-> IF k = 0 THEN <<>> ELSE Inserted(g[k - 1], configs[k])]
           step == [kx \in (1..n) \X S |-> IF Inserted(kx[2], configs[kx[1]]) \in S
                                             THEN Inserted(kx[2], configs[kx[1]]) ELSE <<>>]
           h == CHOOSE g : Loop(g)
<1>1. n \in Nat /\ <<>> \in S
  BY DEF Recorded, Listed
<1>2. Printed(0, <<>>) /\ \A k, sorted : Printed(k, sorted) => sorted \in S
  BY DEF Printed
<1>3. \A k \in 0..(n - 1) : \A sorted : Printed(k, sorted) => Printed(k + 1, Inserted(sorted, configs[k + 1]))
  BY PrintedStep
<1>4. \E g : Loop(g)
  <2>1. step \in [(1..n) \X S -> S]
    BY <1>1
  <2>2. \A k \in 1..n, x \in S :
          Inserted(x, configs[k]) \in S => step[<<k, x>>] = Inserted(x, configs[k])
    OBVIOUS
  <2> HIDE DEF step, S
  <2>3. PICK g : Rounds(n, <<>>, step, S, g)
    BY <1>1, <2>1, RoundsExist
  <2> DEFINE A == {k \in 0..n : Printed(k, g[k])}
  <2>4. 0 \in A
    BY <1>1, <1>2, <2>3 DEF Rounds
  <2>5. ASSUME NEW k \in 0..(n - 1), k \in A
        PROVE  k + 1 \in A /\ g[k + 1] = Inserted(g[k], configs[k + 1])
    <3>1. k + 1 \in 1..n /\ (k + 1) - 1 = k /\ k \in 0..n /\ k + 1 \in 0..n
      BY <1>1
    <3>2. g[k] \in S /\ Printed(k + 1, Inserted(g[k], configs[k + 1]))
      BY <1>2, <1>3, <2>5
    <3>3. g[k + 1] = step[<<k + 1, g[k]>>]
      BY <2>3, <3>1 DEF Rounds
    <3>4. g[k + 1] = Inserted(g[k], configs[k + 1])
      BY <1>2, <2>2, <3>1, <3>2, <3>3
    <3>5. QED BY <3>1, <3>2, <3>4
  <2>6. \A k \in 0..n : k \in A
    <3> HIDE DEF A
    <3>1. QED BY <1>1, <2>4, <2>5, UpTo
  <2>7. ASSUME NEW k \in 0..n
        PROVE  g[k] = IF k = 0 THEN <<>> ELSE Inserted(g[k - 1], configs[k])
    <3>1. CASE k = 0
      BY <2>3, <3>1 DEF Rounds
    <3>2. CASE k # 0
      <4>1. k - 1 \in 0..(n - 1) /\ k - 1 \in 0..n /\ (k - 1) + 1 = k
        BY <1>1, <3>2
      <4>2. k - 1 \in A
        BY <2>6, <4>1
      <4> HIDE DEF A
      <4>3. g[(k - 1) + 1] = Inserted(g[k - 1], configs[(k - 1) + 1])
        BY <2>5, <4>1, <4>2
      <4>4. QED BY <3>2, <4>1, <4>3
    <3>3. QED BY <3>1, <3>2
  <2>8. Loop(g)
    BY <2>3, <2>7 DEF Rounds
  <2> HIDE DEF Loop
  <2>9. QED BY <2>8
<1>5. Loop(h)
  <2> HIDE DEF Loop
  <2>1. QED BY <1>4
<1>6. DumpStats = h[n]
  BY DEF DumpStats
<1> HIDE DEF h
<1>7. h[0] = <<>> /\ \A k \in 0..(n - 1) : h[k + 1] = Inserted(h[k], configs[k + 1])
  BY <1>1, <1>5
<1> DEFINE A == {k \in 0..n : Printed(k, h[k])}
<1>8. 0 \in A
  BY <1>1, <1>2, <1>7
<1>9. ASSUME NEW k \in 0..(n - 1), k \in A PROVE k + 1 \in A
  BY <1>1, <1>3, <1>7, <1>9
<1>10. \A k \in 0..n : k \in A
  <2> HIDE DEF A
  <2>1. QED BY <1>1, <1>8, <1>9, UpTo
<1>11. QED BY <1>1, <1>6, <1>10

\* When the test decides every pair, the report has the versions by their means, however
\* many there are and in whatever order the list is.
THEOREM ReportIsOrdered == Spec => []ReportOrdered
<1>1. ASSUME Recorded, AllDecided, NEW i \in DOMAIN DumpStats, NEW j \in DOMAIN DumpStats, i < j
      PROVE  stats[DumpStats[i]].mean < stats[DumpStats[j]].mean
  <2> DEFINE d == DumpStats
             N == Len(configs)
  <2>1. /\ d \in Seq(Nat) /\ Len(d) = N
        /\ \A k \in 1..N : \E l \in 1..N : d[k] = configs[l]
        /\ \A k, l \in 1..N : k < l => Better(d[k], d[l])
    BY <1>1, PrintedAll DEF Printed
  <2>2. N \in Nat /\ \A k \in 1..N : configs[k] \in 1..N
    <3>1. configs \in Seq(Nat) /\ ToSet(configs) = 1..N
      BY <1>1 DEF Recorded, Listed
    <3>2. QED BY <3>1 DEF ToSet
  <2>7. i \in DOMAIN d /\ j \in DOMAIN d
    OBVIOUS
  <2> HIDE DEF d
  <2>3. i \in 1..N /\ j \in 1..N
    <3>1. DOMAIN d = 1..N
      BY <2>1
    <3>2. QED BY <2>7, <3>1
  <2>4. d[i] \in 1..N /\ d[j] \in 1..N /\ Better(d[i], d[j])
    BY <1>1, <2>1, <2>2, <2>3
  <2>5. stats[d[i]].mean < stats[d[j]].mean
    BY <1>1, <2>4, BetterOrders
  <2>6. QED BY <2>5 DEF d
<1>2. Recorded => ReportOrdered
  BY <1>1 DEF ReportOrdered, AllDecided
<1>3. QED BY <1>2, RecordedAlways, PTL

------------------------------------------------------------------------------
(* Predictions.                                                               *)

\* The batch after k rows of a pool with the forecasts f.
Batched(f, k, best) ==
  /\ best \in Seq(1..Pool) /\ Len(best) = IF k < BatchSz THEN k ELSE BatchSz
  /\ \A i \in 1..Len(best) : best[i] <= k
  /\ \A i, j \in 1..Len(best) : i < j => best[i] # best[j] /\ f[best[i]] <= f[best[j]]
  /\ k # 0 => \A row \in 1..k : f[best[1]] <= f[row]

\* upper_bound() in the batch.
LEMMA UpperBoundIs ==
  ASSUME NEW best \in Seq(1..Pool), NEW cur
  PROVE  LET ub == UpperBound(best, cur)
         IN  \/ ub = 0 /\ \A i \in 1..Len(best) : ~(out'[best[i]] > out'[cur])
             \/ /\ ub \in 1..Len(best) /\ out'[best[ub]] > out'[cur]
                /\ \A i \in 1..(ub - 1) : ~(out'[best[i]] > out'[cur])
<1> DEFINE I == {i \in 1..Len(best) : out'[best[i]] > out'[cur]}
           ub == UpperBound(best, cur)
<1>1. ub = IF I # {} THEN Min(I) ELSE 0
  BY DEF UpperBound, SelectInSeq
<1>2. CASE I = {}
  BY <1>1, <1>2
<1>3. CASE I # {}
  <2>1. I \in SUBSET Nat
    OBVIOUS
  <2>2. \E n \in I : \A m \in I : n <= m
    <3> HIDE DEF I
    <3>1. QED BY <1>3, <2>1, LeastNat
  <2>3. Min(I) \in I /\ \A m \in I : Min(I) <= m
    BY <2>2 DEF Min
  <2>4. ub \in I /\ \A m \in I : ub <= m
    BY <1>1, <1>3, <2>3
  <2> HIDE DEF ub
  <2>5. ub \in 1..Len(best) /\ out'[best[ub]] > out'[cur]
    BY <2>4
  <2>6. ASSUME NEW i \in 1..(ub - 1) PROVE ~(out'[best[i]] > out'[cur])
    <3>1. i \in 1..Len(best) /\ ~(ub <= i)
      BY <2>5
    <3>2. QED BY <2>4, <3>1
  <2>7. QED BY <2>5, <2>6 DEF ub
<1>4. QED BY <1>2, <1>3

\* A batch of n rows up to cur, sorted by the forecasts f.
InOrder(f, n, batch, cur) ==
  /\ \A i \in 1..n : batch[i] \in 1..Pool /\ batch[i] <= cur
  /\ \A i, j \in 1..n : i < j => batch[i] # batch[j] /\ f[batch[i]] <= f[batch[j]]

\* cur comes into a batch of n rows at ub, behind what is no greater and before what is no
\* less.
ComesAt(f, n, old, new, cur, ub) ==
  /\ f \in [1..Pool -> Int] /\ n \in Nat /\ cur \in 1..Pool /\ ub \in 1..(n + 1)
  /\ InOrder(f, n, old, cur - 1)
  /\ \A i \in 1..(ub - 1) : f[old[i]] <= f[cur]
  /\ \A i \in ub..n : f[cur] <= f[old[i]]
  /\ \A i \in 1..(ub - 1) : new[i] = old[i]
  /\ new[ub] = cur
  /\ \A i \in (ub + 1)..(n + 1) : new[i] = old[i - 1]

LEMMA SortedWith ==
  ASSUME NEW f, NEW n, NEW old, NEW new, NEW cur, NEW ub, ComesAt(f, n, old, new, cur, ub)
  PROVE  InOrder(f, n + 1, new, cur)
<1>5. /\ f \in [1..Pool -> Int] /\ n \in Nat /\ cur \in 1..Pool /\ ub \in 1..(n + 1) /\ Pool \in Nat
      /\ \A i \in 1..(ub - 1) : f[old[i]] <= f[cur]
      /\ \A i \in ub..n : f[cur] <= f[old[i]]
      /\ \A i \in 1..(ub - 1) : new[i] = old[i]
      /\ new[ub] = cur
      /\ \A i \in (ub + 1)..(n + 1) : new[i] = old[i - 1]
  BY ResultsAssumption DEF ComesAt
<1>6. /\ \A i \in 1..n : old[i] \in 1..Pool /\ old[i] < cur
      /\ \A i, j \in 1..n : i < j => old[i] # old[j] /\ f[old[i]] <= f[old[j]]
  BY <1>5 DEF ComesAt, InOrder
<1> USE <1>5, <1>6
<1>1. ASSUME NEW i \in 1..(n + 1)
      PROVE  /\ new[i] \in 1..Pool /\ new[i] <= cur
             /\ i < ub => new[i] = old[i] /\ i \in 1..n
             /\ i > ub => new[i] = old[i - 1] /\ i - 1 \in 1..n
  <2>1. CASE i < ub
    <3>1. i \in 1..n /\ i \in 1..(ub - 1)
      BY <2>1
    <3>2. QED BY <2>1, <3>1
  <2>2. CASE i = ub
    BY <2>2
  <2>3. CASE i > ub
    <3>1. i - 1 \in 1..n /\ i \in (ub + 1)..(n + 1)
      BY <2>3
    <3>2. QED BY <2>3, <3>1
  <2>4. QED BY <2>1, <2>2, <2>3
<1>2. ASSUME NEW i \in 1..(n + 1), NEW j \in 1..(n + 1), i < j
      PROVE  new[i] # new[j] /\ f[new[i]] <= f[new[j]]
  <2>1. CASE j < ub
    <3>1. new[i] = old[i] /\ new[j] = old[j] /\ i \in 1..n /\ j \in 1..n
      BY <1>1, <1>2, <2>1
    <3>2. QED BY <1>2, <3>1
  <2>2. CASE j = ub
    <3>1. new[i] = old[i] /\ i \in 1..n /\ i \in 1..(ub - 1) /\ new[j] = cur
      BY <1>1, <1>2, <2>2
    <3>2. old[i] < cur /\ f[old[i]] <= f[cur] /\ old[i] \in 1..Pool
      BY <3>1
    <3>3. QED BY <3>1, <3>2
  <2>3. CASE i = ub
    <3>1. new[j] = old[j - 1] /\ j - 1 \in 1..n /\ j - 1 \in ub..n /\ new[i] = cur
      BY <1>1, <1>2, <2>3
    <3>2. old[j - 1] < cur /\ f[cur] <= f[old[j - 1]] /\ old[j - 1] \in 1..Pool
      BY <3>1
    <3>3. QED BY <3>1, <3>2
  <2>4. CASE i < ub /\ ub < j
    <3>1. new[i] = old[i] /\ i \in 1..n /\ new[j] = old[j - 1] /\ j - 1 \in 1..n /\ i < j - 1
      BY <1>1, <2>4
    <3>2. QED BY <3>1
  <2>5. CASE ub < i
    <3>1. new[i] = old[i - 1] /\ i - 1 \in 1..n /\ new[j] = old[j - 1] /\ j - 1 \in 1..n /\ i - 1 < j - 1
      BY <1>1, <1>2, <2>5
    <3>2. QED BY <3>1
  <2>6. QED BY <1>2, <2>1, <2>2, <2>3, <2>4, <2>5
<1>3. QED BY <1>1, <1>2 DEF InOrder

\* One round of the loop over the pool.
LEMMA PickedStep ==
  ASSUME out' \in [1..Pool -> Int], NEW k \in 0..(Pool - 1), NEW best, Batched(out', k, best)
  PROVE  Batched(out', k + 1, Picked(best, k + 1))
<1> DEFINE f == out'
           S == 1..Pool
           n == Len(best)
           cur == k + 1
           ub == UpperBound(best, cur)
           new == Picked(best, cur)
<1>1. Pool \in Nat \ {0} /\ BatchSz \in Nat \ {0, 1} /\ k \in Nat /\ cur \in S /\ cur = k + 1
  BY ResultsAssumption
<1>2. /\ best \in Seq(S) /\ n = IF k < BatchSz THEN k ELSE BatchSz
      /\ \A i \in 1..n : best[i] <= k
      /\ \A i, j \in 1..n : i < j => best[i] # best[j] /\ f[best[i]] <= f[best[j]]
      /\ k # 0 => \A row \in 1..k : f[best[1]] <= f[row]
  BY DEF Batched
<1>3. n \in Nat /\ n <= BatchSz /\ n <= k /\ \A i \in 1..n : best[i] \in S
  BY <1>1, <1>2
<1>4. \A i \in S : f[i] \in Int
  OBVIOUS
<1>14. f[cur] \in Int /\ \A i \in 1..n : best[i] \in 1..Pool /\ best[i] < cur /\ f[best[i]] \in Int
  BY <1>1, <1>2, <1>3, <1>4
<1>5. \/ ub = 0 /\ \A i \in 1..n : f[best[i]] <= f[cur]
      \/ /\ ub \in 1..n /\ f[cur] < f[best[ub]]
         /\ \A i \in 1..(ub - 1) : f[best[i]] <= f[cur]
  <2>1. \/ ub = 0 /\ \A i \in 1..n : ~(f[best[i]] > f[cur])
        \/ /\ ub \in 1..n /\ f[best[ub]] > f[cur]
           /\ \A i \in 1..(ub - 1) : ~(f[best[i]] > f[cur])
    BY <1>2, UpperBoundIs
  <2> HIDE DEF f, n, cur, ub
  <2>2. CASE ub = 0
    <3>1. \A i \in 1..n : ~(f[best[i]] > f[cur])
      BY <1>3, <2>1, <2>2
    <3>2. QED BY <1>14, <2>2, <3>1
  <2>3. CASE ub # 0
    <3>1. /\ ub \in 1..n /\ f[best[ub]] > f[cur]
          /\ \A i \in 1..(ub - 1) : i \in 1..n /\ ~(f[best[i]] > f[cur])
      BY <1>3, <2>1, <2>3
    <3>2. QED BY <1>14, <3>1
  <2>4. QED BY <2>2, <2>3
<1>6. new = IF ub # 0 THEN InsertAt(IF n >= BatchSz THEN RemoveAt(best, ub) ELSE best, ub, cur)
            ELSE IF n < BatchSz THEN Append(best, cur) ELSE best
  BY DEF Picked
<1> HIDE DEF f, S, n, cur, ub, new
<1>7. f \in [1..Pool -> Int] /\ S = 1..Pool /\ n = Len(best)
  BY DEF f, S, n
\* The full batch, and nothing in it is greater.
<1>8. CASE ub = 0 /\ n = BatchSz
  <2>1. new = best
    BY <1>1, <1>6, <1>7, <1>8
  <2>2. 1 \in 1..n /\ ~(k < BatchSz) /\ k # 0
    BY <1>1, <1>3, <1>8
  <2>3. f[best[1]] <= f[cur]
    BY <1>3, <1>5, <1>8, <2>2
  <2>4. \A row \in 1..(k + 1) : f[best[1]] <= f[row]
    BY <1>1, <1>2, <2>2, <2>3
  <2>5. ASSUME NEW i \in 1..n PROVE best[i] <= k + 1
    <3>1. best[i] \in 1..Pool /\ best[i] < cur
      BY <1>14
    <3>2. QED BY <1>1, <3>1
  <2>6. /\ best \in Seq(1..Pool) /\ Len(best) = IF k + 1 < BatchSz THEN k + 1 ELSE BatchSz
        /\ \A i, j \in 1..Len(best) : i < j => best[i] # best[j] /\ f[best[i]] <= f[best[j]]
    BY <1>1, <1>2, <1>7, <1>8, <2>2
  <2>7. Batched(f, k + 1, best)
    BY <1>7, <2>4, <2>5, <2>6 DEF Batched
  <2>8. QED BY <2>1, <2>7 DEF f, new, cur
\* What is left to show for an entry that comes into the batch.
<1>9. ASSUME new \in Seq(S), NEW len \in Nat, Len(new) = len,
             len = IF k + 1 < BatchSz THEN k + 1 ELSE BatchSz,
             InOrder(f, len, new, cur),
             \/ new[1] = cur /\ (k # 0 => f[cur] <= f[best[1]])
             \/ k # 0 /\ new[1] = best[1] /\ f[best[1]] <= f[cur]
      PROVE  Batched(f, k + 1, new)
  <2>1. ASSUME NEW row \in 1..(k + 1) PROVE f[new[1]] <= f[row]
    <3>1. CASE k = 0
      <4>1. row = 1 /\ cur = 1 /\ new[1] = cur /\ f[cur] \in Int
        BY <1>1, <1>4, <1>9, <3>1
      <4>2. QED BY <4>1
    <3>2. CASE k # 0
      <4>1. 1 \in 1..n /\ best[1] \in S
        BY <1>1, <1>2, <1>3, <3>2
      <4>2. row \in S /\ f[row] \in Int /\ f[cur] \in Int /\ f[best[1]] \in Int
        BY <1>1, <1>4, <1>7, <4>1
      <4>3. row = cur \/ f[best[1]] <= f[row]
        BY <1>1, <1>2, <3>2
      <4>4. f[new[1]] <= f[cur] /\ f[new[1]] <= f[best[1]] /\ f[new[1]] \in Int
        BY <1>9, <3>2, <4>2
      <4>5. QED BY <4>2, <4>3, <4>4
    <3>3. QED BY <3>1, <3>2
  <2>2. /\ \A i \in 1..len : new[i] <= k + 1
        /\ \A i, j \in 1..len : i < j => new[i] # new[j] /\ f[new[i]] <= f[new[j]]
    BY <1>1, <1>9 DEF InOrder
  <2>3. QED BY <1>7, <1>9, <2>1, <2>2 DEF Batched
\* There is room for another one.
<1>10. CASE n < BatchSz
  <2> DEFINE place == IF ub = 0 THEN n + 1 ELSE ub
  <2>1. /\ place \in 1..(n + 1) /\ (\A i \in 1..(place - 1) : f[best[i]] <= f[cur])
        /\ \A i \in place..n : f[cur] <= f[best[i]]
    <3>1. CASE ub = 0
      <4>1. place = n + 1 /\ \A i \in 1..n : f[best[i]] <= f[cur]
        BY <1>3, <1>5, <3>1
      <4>2. n + 1 \in 1..(n + 1) /\ (n + 1) - 1 = n /\ (n + 1)..n = {}
        BY <1>3
      <4>3. /\ place \in 1..(n + 1) /\ 1..(place - 1) = 1..n /\ place..n = {}
        BY <4>1, <4>2
      <4>4. QED BY <4>1, <4>3
    <3>2. CASE ub # 0
      <4>1. ub \in 1..n /\ f[cur] < f[best[ub]] /\ place = ub
        BY <1>3, <1>5, <3>2
      <4>2. \A i \in 1..(ub - 1) : f[best[i]] <= f[cur]
        <5>1. \/ ub = 0 /\ \A i \in 1..n : f[best[i]] <= f[cur]
              \/ \A i \in 1..(ub - 1) : f[best[i]] <= f[cur]
          BY <1>5, Zenon
        <5>2. QED BY <3>2, <5>1, Zenon
      <4>3. ASSUME NEW i \in ub..n PROVE f[cur] <= f[best[i]]
        <5>1. i \in 1..n /\ (i = ub \/ ub < i)
          BY <4>1
        <5>2. f[best[ub]] <= f[best[i]] \/ i = ub
          BY <1>2, <4>1, <5>1
        <5>3. f[best[ub]] \in Int /\ f[best[i]] \in Int /\ f[cur] \in Int
          BY <1>14, <4>1, <5>1
        <5>4. QED BY <4>1, <5>2, <5>3
      <4>4. QED BY <1>3, <4>1, <4>2, <4>3
    <3>3. QED BY <3>1, <3>2
  <2> HIDE DEF place
  <2>2. /\ new \in Seq(S) /\ Len(new) = n + 1
        /\ \A i \in 1..(place - 1) : new[i] = best[i]
        /\ new[place] = cur
        /\ \A i \in (place + 1)..(n + 1) : new[i] = best[i - 1]
    <3>1. CASE ub = 0
      <4>1. new = Append(best, cur)
        BY <1>1, <1>3, <1>6, <1>7, <1>10, <3>1
      <4>2. place = n + 1 /\ n \in Nat
        BY <1>3, <3>1 DEF place
      <4>3. QED BY <1>1, <1>2, <1>7, <4>1, <4>2
    <3>2. CASE ub # 0
      <4>1. new = InsertAt(best, ub, cur)
        BY <1>1, <1>3, <1>6, <1>7, <1>10, <3>2
      <4>2. best \in Seq(S) /\ cur \in S /\ ub \in 1..(Len(best) + 1)
        BY <1>1, <1>2, <1>3, <1>5, <1>7, <3>2
      <4>3. /\ InsertAt(best, ub, cur) \in Seq(S) /\ Len(InsertAt(best, ub, cur)) = Len(best) + 1
            /\ \A i \in 1..(ub - 1) : InsertAt(best, ub, cur)[i] = best[i]
            /\ InsertAt(best, ub, cur)[ub] = cur
            /\ \A i \in (ub + 1)..(Len(best) + 1) : InsertAt(best, ub, cur)[i] = best[i - 1]
        <5>1. HasAt(InsertAt(best, ub, cur), S, best, ub, cur)
          BY <4>2, InsertAtIs
        <5>2. QED BY <5>1 DEF HasAt
      <4>4. place = ub
        BY <3>2 DEF place
      <4>5. QED BY <1>7, <4>1, <4>3, <4>4
    <3>3. QED BY <3>1, <3>2
  <2>4. InOrder(f, n + 1, new, cur)
    <3>1. InOrder(f, n, best, cur - 1)
      <4>1. cur - 1 = k
        BY <1>1
      <4>2. QED BY <1>2, <1>14, <4>1 DEF InOrder
    <3>2. cur \in 1..Pool
      BY <1>1, <1>7
    <3>3. ComesAt(f, n, best, new, cur, place)
      BY <1>3, <1>7, <2>1, <2>2, <3>1, <3>2 DEF ComesAt
    <3>4. QED BY <3>3, SortedWith
  <2>5. n = k /\ n + 1 \in Nat /\ n + 1 = IF k + 1 < BatchSz THEN k + 1 ELSE BatchSz
    BY <1>1, <1>2, <1>3, <1>10
  <2>6. \/ new[1] = cur /\ (k # 0 => f[cur] <= f[best[1]])
        \/ k # 0 /\ new[1] = best[1] /\ f[best[1]] <= f[cur]
    <3>1. CASE place = 1
      <4>1. k # 0 => 1 \in place..n
        BY <1>3, <2>5, <3>1
      <4>2. QED BY <2>1, <2>2, <3>1, <4>1
    <3>2. CASE place # 1
      <4>1. 1 \in 1..(place - 1) /\ k # 0
        BY <1>3, <2>1, <2>5, <3>2
      <4>2. QED BY <2>1, <2>2, <4>1
    <3>3. QED BY <3>1, <3>2
  <2>7. Batched(f, k + 1, new)
    BY <1>9, <2>2, <2>4, <2>5, <2>6
  <2>8. QED BY <1>1, <2>7 DEF f, new, cur
\* The batch is full, and the first one that is greater leaves.
<1>11. CASE ub # 0 /\ n = BatchSz
  <2> DEFINE rest == RemoveAt(best, ub)
             m == n - 1
  <2>1. /\ ub \in 1..n /\ f[cur] < f[best[ub]]
        /\ \A i \in 1..(ub - 1) : f[best[i]] <= f[cur]
    BY <1>3, <1>5, <1>11
  <2>2. /\ rest \in Seq(S) /\ Len(rest) = m
        /\ \A i \in 1..(ub - 1) : rest[i] = best[i]
        /\ \A i \in ub..m : rest[i] = best[i + 1]
    <3>1. best \in Seq(S) /\ ub \in 1..Len(best)
      BY <1>2, <1>7, <2>1
    <3>2. /\ RemoveAt(best, ub) \in Seq(S) /\ Len(RemoveAt(best, ub)) = Len(best) - 1
          /\ \A i \in 1..(ub - 1) : RemoveAt(best, ub)[i] = best[i]
          /\ \A i \in ub..(Len(best) - 1) : RemoveAt(best, ub)[i] = best[i + 1]
      BY <3>1, RemoveAtIs
    <3>3. QED BY <1>7, <3>2
  <2>3. m \in Nat /\ m + 1 = n /\ n >= 2 /\ k # 0 /\ ~(k + 1 < BatchSz) /\ ub \in 1..(m + 1) /\ m < BatchSz
    BY <1>1, <1>3, <1>11, <2>1
  <2>4. new = InsertAt(rest, ub, cur)
    BY <1>1, <1>3, <1>6, <1>11
  <2> HIDE DEF rest, m
  <2>5. /\ new \in Seq(S) /\ Len(new) = m + 1
        /\ \A i \in 1..(ub - 1) : new[i] = rest[i]
        /\ new[ub] = cur
        /\ \A i \in (ub + 1)..(m + 1) : new[i] = rest[i - 1]
    <3>1. rest \in Seq(S) /\ cur \in S /\ ub \in 1..(Len(rest) + 1)
      BY <1>1, <2>2, <2>3
    <3>2. /\ InsertAt(rest, ub, cur) \in Seq(S) /\ Len(InsertAt(rest, ub, cur)) = Len(rest) + 1
          /\ \A i \in 1..(ub - 1) : InsertAt(rest, ub, cur)[i] = rest[i]
          /\ InsertAt(rest, ub, cur)[ub] = cur
          /\ \A i \in (ub + 1)..(Len(rest) + 1) : InsertAt(rest, ub, cur)[i] = rest[i - 1]
      <4>1. HasAt(InsertAt(rest, ub, cur), S, rest, ub, cur)
        BY <3>1, InsertAtIs
      <4>2. QED BY <4>1 DEF HasAt
    <3>3. QED BY <2>2, <2>4, <3>2
  <2>6. ASSUME NEW i \in 1..m
        PROVE  /\ i < ub => rest[i] = best[i] /\ i \in 1..n /\ i \in 1..(ub - 1)
               /\ i >= ub => rest[i] = best[i + 1] /\ i + 1 \in 1..n
    <3>1. i < ub => i \in 1..(ub - 1) /\ i \in 1..n
      BY <2>3
    <3>2. i >= ub => i \in ub..m /\ i + 1 \in 1..n
      BY <2>3
    <3>3. QED BY <2>2, <3>1, <3>2
  <2>7. \A i \in 1..m : rest[i] \in 1..Pool /\ rest[i] < cur
    <3>1. \A i \in 1..n : best[i] \in 1..Pool /\ best[i] < cur
      BY <1>14
    <3>2. ASSUME NEW i \in 1..m PROVE i < ub \/ i >= ub
      BY <2>3
    <3>3. QED BY <2>6, <3>1, <3>2
  <2>8. ASSUME NEW i \in 1..m, NEW j \in 1..m, i < j
        PROVE  rest[i] # rest[j] /\ f[rest[i]] <= f[rest[j]]
    <3>1. \E a, b \in 1..n : a < b /\ rest[i] = best[a] /\ rest[j] = best[b]
      <4>1. CASE j < ub
        <5>1. i < ub
          BY <2>3, <2>8, <4>1
        <5>2. QED BY <2>6, <2>8, <4>1, <5>1
      <4>2. CASE i < ub /\ j >= ub
        <5>1. i < j + 1
          BY <2>3, <2>8
        <5>2. QED BY <2>6, <4>2, <5>1
      <4>3. CASE i >= ub
        <5>1. j >= ub /\ i + 1 < j + 1
          BY <2>3, <2>8, <4>3
        <5>2. QED BY <2>6, <4>3, <5>1
      <4>4. QED BY <2>3, <4>1, <4>2, <4>3
    <3>2. QED BY <1>2, <3>1
  <2>9. \A i \in 1..(ub - 1) : f[rest[i]] <= f[cur]
    <3>1. \A i \in 1..(ub - 1) : rest[i] = best[i]
      BY <2>2
    <3>2. QED BY <2>1, <3>1
  <2>10. ASSUME NEW i \in ub..m PROVE f[cur] <= f[rest[i]]
    <3>1. rest[i] = best[i + 1] /\ i + 1 \in 1..n /\ ub < i + 1
      BY <2>2, <2>3
    <3>2. f[best[ub]] <= f[best[i + 1]]
      BY <1>2, <2>1, <3>1
    <3>3. f[best[ub]] \in Int /\ f[best[i + 1]] \in Int /\ f[cur] \in Int
      BY <1>14, <2>1, <3>1
    <3>4. QED BY <2>1, <3>1, <3>2, <3>3
  <2>11. InOrder(f, m + 1, new, cur)
    <3>1. InOrder(f, m, rest, cur - 1)
      <4>1. cur - 1 = k /\ \A i \in 1..m : rest[i] <= k
        BY <1>1, <2>7
      <4>2. QED BY <2>7, <2>8, <4>1 DEF InOrder
    <3>2. cur \in 1..Pool /\ m \in Nat /\ ub \in 1..(m + 1)
      BY <1>1, <1>7, <2>3
    <3>3. ComesAt(f, m, rest, new, cur, ub)
      BY <1>7, <2>5, <2>9, <2>10, <3>1, <3>2 DEF ComesAt
    <3>4. QED BY <3>3, SortedWith
  <2>12. m + 1 \in Nat /\ m + 1 = IF k + 1 < BatchSz THEN k + 1 ELSE BatchSz
    BY <1>1, <1>11, <2>3
  <2>13. \/ new[1] = cur /\ (k # 0 => f[cur] <= f[best[1]])
         \/ k # 0 /\ new[1] = best[1] /\ f[best[1]] <= f[cur]
    <3>1. CASE ub = 1
      <4>1. f[cur] \in Int /\ f[best[1]] \in Int
        BY <1>14, <2>1, <3>1
      <4>2. QED BY <2>1, <2>5, <3>1, <4>1
    <3>2. CASE ub # 1
      <4>1. 1 \in 1..(ub - 1)
        BY <2>3, <3>2
      <4>2. QED BY <2>1, <2>2, <2>3, <2>5, <4>1
    <3>3. QED BY <3>1, <3>2
  <2>14. Batched(f, k + 1, new)
    BY <1>9, <2>5, <2>11, <2>12, <2>13
  <2>15. QED BY <1>1, <2>14 DEF f, new, cur
<1>12. n < BatchSz \/ n = BatchSz
  BY <1>1, <1>3
<1>13. QED BY <1>8, <1>10, <1>11, <1>12

LEMMA BatchIs ==
  ASSUME out' \in [1..Pool -> Int]
  PROVE  Batched(out', Pool, Batch)
<1> DEFINE n == Pool
           S == Seq(1..Pool)
           Loop(g) == g = [k \in 0..n |-> IF k = 0 THEN <<>> ELSE Picked(g[k - 1], k)]
           step == [kx \in (1..n) \X S |-> IF Picked(kx[2], kx[1]) \in S THEN Picked(kx[2], kx[1]) ELSE <<>>]
           h == CHOOSE g : Loop(g)
<1>1. n \in Nat /\ <<>> \in S
  BY ResultsAssumption
<1>2. Batched(out', 0, <<>>) /\ \A k, best : Batched(out', k, best) => best \in S
  BY ResultsAssumption DEF Batched
<1>3. \A k \in 0..(n - 1) : \A best : Batched(out', k, best) => Batched(out', k + 1, Picked(best, k + 1))
  BY PickedStep
<1>4. \E g : Loop(g)
  <2>1. step \in [(1..n) \X S -> S]
    BY <1>1
  <2>2. \A k \in 1..n, x \in S : Picked(x, k) \in S => step[<<k, x>>] = Picked(x, k)
    OBVIOUS
  <2> HIDE DEF step, S, n
  <2>3. PICK g : Rounds(n, <<>>, step, S, g)
    BY <1>1, <2>1, RoundsExist
  <2> DEFINE A == {k \in 0..n : Batched(out', k, g[k])}
  <2>4. 0 \in A
    BY <1>1, <1>2, <2>3 DEF Rounds
  <2>5. ASSUME NEW k \in 0..(n - 1), k \in A
        PROVE  k + 1 \in A /\ g[k + 1] = Picked(g[k], k + 1)
    <3>1. k + 1 \in 1..n /\ (k + 1) - 1 = k /\ k \in 0..n /\ k + 1 \in 0..n
      BY <1>1
    <3>2. g[k] \in S /\ Batched(out', k + 1, Picked(g[k], k + 1))
      BY <1>2, <1>3, <2>5
    <3>3. g[k + 1] = step[<<k + 1, g[k]>>]
      BY <2>3, <3>1 DEF Rounds
    <3>4. g[k + 1] = Picked(g[k], k + 1)
      BY <1>2, <2>2, <3>1, <3>2, <3>3
    <3>5. QED BY <3>1, <3>2, <3>4
  <2>6. \A k \in 0..n : k \in A
    <3> HIDE DEF A
    <3>1. QED BY <1>1, <2>4, <2>5, UpTo
  <2>7. ASSUME NEW k \in 0..n
        PROVE  g[k] = IF k = 0 THEN <<>> ELSE Picked(g[k - 1], k)
    <3>1. CASE k = 0
      BY <2>3, <3>1 DEF Rounds
    <3>2. CASE k # 0
      <4>1. k - 1 \in 0..(n - 1) /\ k - 1 \in 0..n /\ (k - 1) + 1 = k
        BY <1>1, <3>2
      <4>2. k - 1 \in A
        BY <2>6, <4>1
      <4> HIDE DEF A
      <4>3. g[(k - 1) + 1] = Picked(g[k - 1], (k - 1) + 1)
        BY <2>5, <4>1, <4>2
      <4>4. QED BY <3>2, <4>1, <4>3
    <3>3. QED BY <3>1, <3>2
  <2>8. Loop(g)
    BY <2>3, <2>7 DEF Rounds
  <2> HIDE DEF Loop
  <2>9. QED BY <2>8
<1>5. Loop(h)
  <2> HIDE DEF Loop
  <2>1. QED BY <1>4
<1>6. Batch = h[n]
  BY DEF Batch
<1> HIDE DEF h
<1>7. h[0] = <<>> /\ \A k \in 0..(n - 1) : h[k + 1] = Picked(h[k], k + 1)
  BY <1>1, <1>5
<1> DEFINE A == {k \in 0..n : Batched(out', k, h[k])}
<1>8. 0 \in A
  BY <1>1, <1>2, <1>7
<1>9. ASSUME NEW k \in 0..(n - 1), k \in A PROVE k + 1 \in A
  BY <1>1, <1>3, <1>7, <1>9
<1>10. \A k \in 0..n : k \in A
  <2> HIDE DEF A
  <2>1. QED BY <1>1, <1>8, <1>9, UpTo
<1>11. QED BY <1>1, <1>6, <1>10

\* The batch that was picked, until the first of it is taken.
Chosen == job = "picked" => Batched(out, Pool, predictions)

LEMMA ChosenStep == Chosen /\ [Next]_vars => Chosen'
<1> SUFFICES ASSUME Chosen, [Next]_vars PROVE Chosen'
  OBVIOUS
<1>1. CASE Predict
  <2>1. out' \in [1..Pool -> Int] /\ predictions' = Batch
    BY <1>1, ResultsAssumption DEF Predict
  <2>2. Batched(out', Pool, predictions')
    BY <2>1, BatchIs
  <2>3. QED BY <2>2 DEF Chosen, Batched
<1>2. ASSUME job' # "picked" PROVE Chosen'
  BY <1>2 DEF Chosen
<1>3. ASSUME UNCHANGED <<out, predictions, job>> PROVE Chosen'
  BY <1>3 DEF Chosen, Batched
<1>4. CASE SamplePrior \/ (\E v \in DOMAIN stats : Measure(v)) \/ UNCHANGED vars
  BY <1>3, <1>4 DEF SamplePrior, Measure, choice, vars
<1>5. CASE Retrain \/ LearnedEnough \/ TakePrediction
  BY <1>2, <1>5 DEF Retrain, LearnedEnough, TakePrediction
<1>6. ASSUME NEW err \in Errors, LearnIteration(err) PROVE Chosen'
  <2>1. job' # "picked"
    BY <1>6 DEF LearnIteration
  <2>2. QED BY <1>2, <2>1
<1>7. QED BY <1>1, <1>4, <1>5, <1>6 DEF Next, Job

\* For every size of the batch and of the pool, and whatever the model forecasts: the first
\* configuration tried is the best of the whole pool, and the others follow in order.
THEOREM BestForecastIsFirst == Spec => []BestForecastFirst
<1>1. Init => Chosen
  BY DEF Init, Chosen
<1>2. ASSUME Chosen PROVE BestForecastFirst
  <2> SUFFICES ASSUME job = "picked"
               PROVE  /\ Len(predictions) = IF Pool < BatchSz THEN Pool ELSE BatchSz
                      /\ \A row \in 1..Pool : out[Head(predictions)] <= out[row]
                      /\ \A i, j \in DOMAIN predictions :
                           i < j => predictions[i] # predictions[j] /\ out[predictions[i]] <= out[predictions[j]]
    BY DEF BestForecastFirst
  <2>1. Pool \in Nat \ {0} /\ BatchSz \in Nat \ {0, 1}
    BY ResultsAssumption
  <2>2. /\ predictions \in Seq(1..Pool) /\ Len(predictions) = IF Pool < BatchSz THEN Pool ELSE BatchSz
        /\ \A i, j \in 1..Len(predictions) :
             i < j => predictions[i] # predictions[j] /\ out[predictions[i]] <= out[predictions[j]]
        /\ Pool # 0 => \A row \in 1..Pool : out[predictions[1]] <= out[row]
    BY <1>2 DEF Chosen, Batched
  <2>3. DOMAIN predictions = 1..Len(predictions) /\ Head(predictions) = predictions[1]
    BY <2>1, <2>2
  <2>4. QED BY <2>1, <2>2, <2>3
<1>3. Chosen => BestForecastFirst
  BY <1>2
<1>4. QED BY <1>1, <1>3, ChosenStep, PTL DEF Spec
================================================================================
