------------------------------- MODULE KnobProofs -------------------------------
(***************************************************************************)
(* Theorems about KnobConfigs: what is generated is legal, one loop's      *)
(* setting and whole configurations, however often it is perturbed; the    *)
(* metadata that a setting becomes says it, nests of sectioned loops get   *)
(* their groups, and an exported row is whole.                             *)
(***************************************************************************)
EXTENDS KnobConfigs, Recursion, FiniteSetTheorems, TLAPS

------------------------------------------------------------------------------
(* The options.                                                               *)

OptionNames ==
  {"VectorizeWidth", "InterleaveCount", "UnrollDisable", "UnrollFull", "UnrollCount",
   "LICMVerDisable", "Distribute", "Section"}

Unset(opt)  == opt = {}
Single(opt) == \E v : opt = {v}

\* A setting as the generators make and take it: an option has one value or none, a
\* flag is never off.
Usable(LS) ==
  /\ LS = [o \in OptionNames |-> LS[o]]
  /\ LegalSetting(LS)
  /\ \A o \in OptionNames : Unset(LS[o]) \/ Single(LS[o])
  /\ \A o \in PresenceOptions \cup {"Distribute"} : LS[o] \subseteq {1}

\* Both builds, with Polly and without, name the options of a setting alike.
LEMMA NamesAre == Empty = [o \in OptionNames |-> {}]
<1>1. {Options[i] : i \in 1..Len(Options)} \cup {"Section"} = OptionNames
  <2> DEFINE first == <<"VectorizeWidth", "InterleaveCount", "UnrollDisable", "UnrollFull", "UnrollCount",
                        "LICMVerDisable", "Distribute">>
  <2>1. CASE POLLY_KNOBS
    <3>1. Options = <<"VectorizeWidth", "InterleaveCount", "UnrollDisable", "UnrollFull", "UnrollCount",
                      "LICMVerDisable", "Distribute", "Section">>
      <4>1. first \in Seq(OptionNames) /\ Len(first) = 7 /\ <<"Section">> \in Seq(OptionNames) /\ Len(<<"Section">>) = 1
        <5>1. first \in Seq(OptionNames)
          BY DEF OptionNames
        <5>2. Len(first) = 7
          OBVIOUS
        <5>3. <<"Section">> \in Seq(OptionNames)
          BY DEF OptionNames
        <5>4. Len(<<"Section">>) = 1
          OBVIOUS
        <5>5. QED BY <5>1, <5>2, <5>3, <5>4
      <4>2. Options = first \o <<"Section">>
        BY <2>1 DEF Options
      <4>3. Options \in Seq(OptionNames) /\ Len(Options) = 8
        BY <4>1, <4>2
      <4>4. /\ \A i \in 1..7 : Options[i] = first[i]
            /\ Options[8] = "Section"
        BY <4>1, <4>2
      <4>5. QED BY <4>3, <4>4
    <3>2. QED BY <3>1 DEF OptionNames
  <2>2. CASE ~POLLY_KNOBS
    <3>1. Options = first
      BY <2>2 DEF Options
    <3>2. QED BY <3>1 DEF OptionNames
  <2>3. QED BY <2>1, <2>2
<1>2. QED BY <1>1 DEF Empty

------------------------------------------------------------------------------
(* Settings as integers.                                                      *)

LEMMA Pow2BitIsNat == ASSUME NEW val PROVE Pow2Bit(val) \in Nat
<1> DEFINE bits == {b \in 0..15 : ((val - 1) \div 2^b) % 2 = 1}
<1>1. IsFiniteSet(0..15)
  <2>1. 0 \in Int /\ 15 \in Int
    OBVIOUS
  <2>2. QED BY <2>1, FS_Interval
<1>2. bits \subseteq 0..15
  OBVIOUS
<1>3. IsFiniteSet(bits)
  BY <1>1, <1>2, FS_Subset
<1>4. Cardinality(bits) \in Nat
  BY <1>3, FS_CardinalityType
<1>5. QED BY <1>4 DEF Pow2Bit

\* nearbyInt() stays in its range, from wherever it starts.
LEMMA NearbyInRange ==
  ASSUME NEW cur \in Int, NEW min \in Int, NEW max \in Int, min <= max, NEW energy
  PROVE  Nearby(cur, min, max, energy) \subseteq min..max
BY DEF Nearby

------------------------------------------------------------------------------
(* Generated settings.                                                        *)

\* However an option stood before, one value of each range makes a usable setting.
LEMMA AdjustUsable ==
  ASSUME NEW LS, LS = [o \in OptionNames |-> LS[o]], ~POLLY_KNOBS => LS.Section = {},
         NEW u \in UNROLL_MISSING..UNROLL_FULL, NEW v \in 0..VEC_MISSING, NEW i \in 0..INTRLV_MISSING,
         NEW d \in 0..2, NEW l \in 0..2, NEW s \in SECTION_MISSING..SECTION_SIZE_MAX
  PROVE  /\ Usable(Adjust(LS, u, v, i, d, l, s))
         /\ ~POLLY_KNOBS => Adjust(LS, u, v, i, d, l, s).Section = {}
<1> DEFINE new == Adjust(LS, u, v, i, d, l, s)
<1> USE LoopAssumption
<1>1. /\ new = [o \in OptionNames |-> new[o]]
      /\ new.UnrollDisable = {}
      /\ new.UnrollFull = IF u = UNROLL_FULL THEN {1} ELSE {}
      /\ new.UnrollCount = IF u \in 1..UNROLL_CNT_MAX THEN {2^u} ELSE {}
      /\ new.VectorizeWidth = Hint(v, VEC_MISSING)
      /\ new.InterleaveCount = Hint(i, INTRLV_MISSING)
      /\ new.Distribute = BoolOpt(d)
      /\ new.LICMVerDisable = BoolOpt(l)
      /\ new.Section = IF POLLY_KNOBS THEN Section(s) ELSE {}
  BY DEF Adjust, SetUnroll, OptionNames
<1> HIDE DEF new
<1>2. new.UnrollCount \subseteq {2^k : k \in 1..UNROLL_CNT_MAX}
  BY <1>1
<1>3. new.VectorizeWidth \subseteq {2^k : k \in 0..VEC_WIDTH_MAX}
  BY <1>1 DEF Hint, VEC_MISSING
<1>4. new.InterleaveCount \subseteq {2^k : k \in 0..INTRLV_COUNT_MAX}
  BY <1>1 DEF Hint, INTRLV_MISSING
<1>5. new.Section \subseteq 2..SECTION_SIZE_MAX
  BY <1>1 DEF Section, SECTION_MISSING
<1>6. Cardinality({o \in {"UnrollDisable", "UnrollFull", "UnrollCount"} : new[o] # {}}) <= 1
  <2> DEFINE on == {o \in {"UnrollDisable", "UnrollFull", "UnrollCount"} : new[o] # {}}
  <2>1. on = {} \/ on = {"UnrollFull"} \/ on = {"UnrollCount"}
    BY <1>1 DEF UNROLL_FULL
  <2>2. Cardinality({}) = 0
    BY FS_EmptySet
  <2>3. Cardinality({"UnrollFull"}) = 1 /\ Cardinality({"UnrollCount"}) = 1
    BY FS_Singleton
  <2>4. Cardinality(on) = 0 \/ Cardinality(on) = 1
    BY <2>1, <2>2, <2>3
  <2>5. QED BY <2>4
<1>7. LegalSetting(new)
  BY <1>2, <1>3, <1>4, <1>5, <1>6 DEF LegalSetting
<1>8. \A o \in OptionNames : Unset(new[o]) \/ Single(new[o])
  BY <1>1 DEF OptionNames, Unset, Single, Hint, BoolOpt, Section
<1>9. \A o \in PresenceOptions \cup {"Distribute"} : new[o] \subseteq {1}
  BY <1>1 DEF PresenceOptions, BoolOpt
<1>10. QED BY <1>1, <1>7, <1>8, <1>9 DEF Usable, new

LEMMA SectionRange ==
  ASSUME LoopAssumption
  PROVE  Sections \subseteq SECTION_MISSING..SECTION_SIZE_MAX
BY DEF Sections, SECTION_MISSING

\* Whatever ranges the build has, a random setting is legal: at most one way to unroll,
\* counts that are powers of two in their ranges, sections in theirs.
THEOREM RandomLegal == \A LS \in GenRandomLoopSetting : Usable(LS) /\ (~POLLY_KNOBS => LS.Section = {})
<1>1. Empty = [o \in OptionNames |-> Empty[o]] /\ Empty.Section = {}
  BY NamesAre DEF OptionNames
<1>2. SUFFICES ASSUME NEW u \in UNROLL_MISSING..UNROLL_FULL, NEW v \in 0..VEC_MISSING, NEW i \in 0..INTRLV_MISSING,
                      NEW d \in 0..2, NEW l \in 0..2, NEW s \in Sections
               PROVE  Usable(Adjust(Empty, u, v, i, d, l, s))
                      /\ (~POLLY_KNOBS => Adjust(Empty, u, v, i, d, l, s).Section = {})
  BY DEF GenRandomLoopSetting
<1>3. QED BY <1>1, SectionRange, LoopAssumption, AdjustUsable

\* ... and so is a perturbed one, however often and with whatever energy it is perturbed.
THEOREM PerturbedLegal ==
  ASSUME NEW LS, Usable(LS), ~POLLY_KNOBS => LS.Section = {}, NEW e
  PROVE  \A near \in GenNearbyLoopSetting(LS, e) : Usable(near) /\ (~POLLY_KNOBS => near.Section = {})
<1> USE LoopAssumption
<1>1. UnrollAsInt(LS) \in Int
  BY Pow2BitIsNat DEF UnrollAsInt, UNROLL_MISSING, UNROLL_FULL
<1>2. /\ HintAsInt(LS.VectorizeWidth, VEC_MISSING) \in Int
      /\ HintAsInt(LS.InterleaveCount, INTRLV_MISSING) \in Int
  BY Pow2BitIsNat DEF HintAsInt, VEC_MISSING, INTRLV_MISSING
<1>3. BoolOptAsInt(LS.Distribute) \in Int /\ BoolOptAsInt(LS.LICMVerDisable) \in Int
  <2>1. ASSUME NEW opt, opt \subseteq {1} PROVE BoolOptAsInt(opt) \in Int
    <3>1. opt # {} => The(opt) = 1
      BY <2>1 DEF The
    <3>2. QED BY <3>1 DEF BoolOptAsInt, FLAG_MISSING
  <2>2. QED BY <2>1 DEF Usable, PresenceOptions
<1>4. SectionAsInt(LS.Section) \in Int
  <2>1. LS.Section \subseteq 2..SECTION_SIZE_MAX
    BY DEF Usable, LegalSetting
  <2>2. LS.Section # {} => The(LS.Section) \in Int
    BY <2>1 DEF The
  <2>3. QED BY <2>2 DEF SectionAsInt, SECTION_MISSING
<1>5. /\ Nearby(UnrollAsInt(LS), UNROLL_MISSING, UNROLL_FULL, e) \subseteq UNROLL_MISSING..UNROLL_FULL
      /\ Nearby(HintAsInt(LS.VectorizeWidth, VEC_MISSING), 0, VEC_MISSING, e) \subseteq 0..VEC_MISSING
      /\ Nearby(HintAsInt(LS.InterleaveCount, INTRLV_MISSING), 0, INTRLV_MISSING, e) \subseteq 0..INTRLV_MISSING
      /\ Nearby(BoolOptAsInt(LS.Distribute), 0, 2, e) \subseteq 0..2
      /\ Nearby(BoolOptAsInt(LS.LICMVerDisable), 0, 2, e) \subseteq 0..2
      /\ Nearby(SectionAsInt(LS.Section), SECTION_MISSING, SECTION_SIZE_MAX, e)
           \subseteq SECTION_MISSING..SECTION_SIZE_MAX
  <2>1. /\ UNROLL_MISSING \in Int /\ UNROLL_FULL \in Int /\ UNROLL_MISSING <= UNROLL_FULL
        /\ VEC_MISSING \in Int /\ 0 <= VEC_MISSING /\ INTRLV_MISSING \in Int /\ 0 <= INTRLV_MISSING
        /\ SECTION_MISSING \in Int /\ SECTION_SIZE_MAX \in Int /\ SECTION_MISSING <= SECTION_SIZE_MAX
    BY DEF UNROLL_MISSING, UNROLL_FULL, VEC_MISSING, INTRLV_MISSING, SECTION_MISSING
  <2>2. Nearby(UnrollAsInt(LS), UNROLL_MISSING, UNROLL_FULL, e) \subseteq UNROLL_MISSING..UNROLL_FULL
    BY <1>1, <2>1, NearbyInRange
  <2>3. \A cur \in Int, max \in Int : 0 <= max => Nearby(cur, 0, max, e) \subseteq 0..max
    BY NearbyInRange
  <2>4. /\ \A cur \in Int : Nearby(cur, 0, 2, e) \subseteq 0..2
        /\ \A cur \in Int : Nearby(cur, 0, VEC_MISSING, e) \subseteq 0..VEC_MISSING
        /\ \A cur \in Int : Nearby(cur, 0, INTRLV_MISSING, e) \subseteq 0..INTRLV_MISSING
    BY <2>1, <2>3
  <2>5. Nearby(SectionAsInt(LS.Section), SECTION_MISSING, SECTION_SIZE_MAX, e)
          \subseteq SECTION_MISSING..SECTION_SIZE_MAX
    BY <1>4, <2>1, NearbyInRange
  <2>6. QED BY <1>2, <1>3, <2>2, <2>4, <2>5
<1>6. SUFFICES ASSUME NEW u \in UNROLL_MISSING..UNROLL_FULL, NEW v \in 0..VEC_MISSING, NEW i \in 0..INTRLV_MISSING,
                      NEW d \in 0..2, NEW l \in 0..2, NEW s \in SECTION_MISSING..SECTION_SIZE_MAX
               PROVE  Usable(Adjust(LS, u, v, i, d, l, s))
                      /\ (~POLLY_KNOBS => Adjust(LS, u, v, i, d, l, s).Section = {})
  BY <1>5, SectionRange DEF GenNearbyLoopSetting
<1>7. QED BY AdjustUsable DEF Usable

------------------------------------------------------------------------------
(* The metadata.                                                              *)

\* A loop's metadata says what a usable setting says and, of the options it leaves open,
\* what the source says.
THEOREM MetadataSays ==
  ASSUME NEW LS, Usable(LS), NEW source
  PROVE  SaysSetting(AddToLoopMD(source, LS), source, LS)
<1> DEFINE gone == {o \in PresenceOptions : LS[o] = {0}}
           set  == {o \in PresenceOptions \cup IntOptions : LS[o] # {}} \ gone
           said == AddToLoopMD(source, LS)
<1>1. gone = {}
  BY DEF Usable
<1>2. /\ DOMAIN said = DOMAIN source \cup set
      /\ \A o \in DOMAIN said : said[o] = IF o \in set THEN The(LS[o]) ELSE source[o]
  BY <1>1 DEF AddToLoopMD, UpdateLMD
<1>3. ASSUME NEW o \in PresenceOptions \cup IntOptions
      PROVE  IF LS[o] = {}
               THEN (o \in DOMAIN said <=> o \in DOMAIN source) /\ (o \in DOMAIN said => said[o] = source[o])
               ELSE o \in DOMAIN said /\ LS[o] = {said[o]}
  <2>1. CASE LS[o] = {}
    BY <1>2, <2>1
  <2>2. CASE LS[o] # {}
    <3>1. o \in OptionNames
      BY DEF PresenceOptions, IntOptions, OptionNames
    <3>2. LS[o] = {The(LS[o])}
      BY <2>2, <3>1 DEF Usable, Unset, Single, The
    <3>3. o \in set
      BY <1>1, <2>2
    <3>4. QED BY <1>2, <2>2, <3>2, <3>3
  <2>3. QED BY <2>1, <2>2
<1>4. QED BY <1>3 DEF SaysSetting

------------------------------------------------------------------------------
(* Configurations.                                                            *)

\* The functions over the first k of the ids, to one of its values each.
Partly(of, ids, k, fs) ==
  \A f \in fs : /\ f = [id \in {ids[i] : i \in 1..k} |-> f[id]]
                /\ \A i \in 1..k : f[ids[i]] \in of[ids[i]]

NextPartly(of, ids, k, fs) ==
  {[id \in {ids[i] : i \in 1..k} |-> IF id = ids[k] THEN v ELSE f[id]] : f \in fs, v \in of[ids[k]]}

LEMMA PartlyStep ==
  ASSUME NEW of, NEW ids, NEW k \in Nat, \A i, j \in 1..(k + 1) : ids[i] = ids[j] => i = j,
         NEW fs, Partly(of, ids, k, fs)
  PROVE  Partly(of, ids, k + 1, NextPartly(of, ids, k + 1, fs))
<1> SUFFICES ASSUME NEW f \in fs, NEW v \in of[ids[k + 1]]
             PROVE  LET g == [id \in {ids[i] : i \in 1..(k + 1)} |-> IF id = ids[k + 1] THEN v ELSE f[id]]
                    IN  /\ g = [id \in {ids[i] : i \in 1..(k + 1)} |-> g[id]]
                        /\ \A i \in 1..(k + 1) : g[ids[i]] \in of[ids[i]]
  BY DEF NextPartly, Partly
<1> DEFINE D == {ids[i] : i \in 1..(k + 1)}
           g == [id \in D |-> IF id = ids[k + 1] THEN v ELSE f[id]]
<1>1. \A i \in 1..(k + 1) : ids[i] \in D
  OBVIOUS
<1>2. \A i \in 1..k : f[ids[i]] \in of[ids[i]]
  BY DEF Partly
<1>3. ASSUME NEW i \in 1..(k + 1) PROVE g[ids[i]] \in of[ids[i]]
  <2>1. CASE i = k + 1
    BY <1>1, <2>1
  <2>2. CASE i # k + 1
    <3>1. i \in 1..k /\ k + 1 \in 1..(k + 1)
      BY <2>2
    <3>2. ids[i] # ids[k + 1]
      BY <2>2, <3>1
    <3>3. g[ids[i]] = f[ids[i]]
      BY <1>1, <3>2
    <3>4. QED BY <1>2, <3>1, <3>3
  <2>3. QED BY <2>1, <2>2
<1>4. QED BY <1>3

\* What is assembled id by id gives each of them one of its values.
LEMMA AssignmentsAre ==
  ASSUME NEW of, IsFiniteSet(DOMAIN of), NEW f \in Assignments(of)
  PROVE  DOMAIN f = DOMAIN of /\ \A id \in DOMAIN of : f[id] \in of[id]
<1> DEFINE D == DOMAIN of
           ids == SetToSeq(D)
           n == Len(ids)
           none == {<<>>}
           V == UNION {of[id] : id \in D}
           S == SUBSET (UNION {[X -> V] : X \in SUBSET D})
           Loop(g) == g = [k \in 0..n |-> IF k = 0 THEN none ELSE NextPartly(of, ids, k, g[k - 1])]
           step == [kx \in (1..n) \X S |-> IF NextPartly(of, ids, kx[1], kx[2]) \in S
                                             THEN NextPartly(of, ids, kx[1], kx[2]) ELSE {}]
           h == CHOOSE g : Loop(g)
<1>1. /\ n \in Nat /\ ids \in [1..n -> D] /\ Len(ids) = n
      /\ \A i, j \in 1..n : ids[i] = ids[j] => i = j
      /\ {ids[i] : i \in 1..n} = D
  <2> DEFINE c == Cardinality(D)
  <2>1. /\ c \in Nat /\ ids \in [1..c -> D] /\ Len(ids) = c
        /\ \A i, j \in 1..c : ids[i] = ids[j] => i = j
        /\ {ids[i] : i \in 1..c} = D
    BY Sequenced
  <2> HIDE DEF c, ids
  <2>2. QED BY <2>1
<1>2. Assignments(of) = h[n]
  BY DEF Assignments, NextPartly
<1> HIDE DEF ids, n
<1>3. Partly(of, ids, 0, none)
  BY DEF Partly
<1> HIDE DEF none
<1>4. ASSUME NEW k \in 0..n, NEW fs, Partly(of, ids, k, fs) PROVE fs \in S
  <2>1. {ids[i] : i \in 1..k} \in SUBSET D /\ \A i \in 1..k : ids[i] \in D
    BY <1>1
  <2>2. ASSUME NEW e \in fs PROVE e \in [{ids[i] : i \in 1..k} -> V]
    <3>1. e = [id \in {ids[i] : i \in 1..k} |-> e[id]] /\ \A i \in 1..k : e[ids[i]] \in of[ids[i]]
      BY <1>4 DEF Partly
    <3>2. \A i \in 1..k : e[ids[i]] \in V
      BY <2>1, <3>1
    <3>3. QED BY <3>1, <3>2
  <2> HIDE DEF V
  <2>3. QED BY <2>1, <2>2
<1>5. ASSUME NEW k \in 0..(n - 1), NEW fs, Partly(of, ids, k, fs)
      PROVE  Partly(of, ids, k + 1, NextPartly(of, ids, k + 1, fs))
  <2>1. k \in Nat /\ \A i \in 1..(k + 1) : i \in 1..n
    BY <1>1
  <2>2. \A i, j \in 1..(k + 1) : ids[i] = ids[j] => i = j
    BY <1>1, <2>1
  <2>3. QED BY <1>5, <2>1, <2>2, PartlyStep
<1>6. \E g : Loop(g)
  <2>1. step \in [(1..n) \X S -> S]
    OBVIOUS
  <2>2. \A k \in 1..n, x \in S :
          NextPartly(of, ids, k, x) \in S => step[<<k, x>>] = NextPartly(of, ids, k, x)
    OBVIOUS
  <2>3. none \in S /\ 0 \in 0..n
    <3> HIDE DEF S
    <3>1. QED BY <1>1, <1>3, <1>4
  <2> HIDE DEF step, S
  <2>4. PICK g : Rounds(n, none, step, S, g)
    BY <1>1, <2>1, <2>3, RoundsExist
  <2> DEFINE A == {k \in 0..n : Partly(of, ids, k, g[k])}
  <2>5. 0 \in A
    BY <1>3, <2>3, <2>4 DEF Rounds
  <2>6. ASSUME NEW k \in 0..(n - 1), k \in A
        PROVE  k + 1 \in A /\ g[k + 1] = NextPartly(of, ids, k + 1, g[k])
    <3>1. k + 1 \in 1..n /\ (k + 1) - 1 = k /\ k \in 0..n /\ k + 1 \in 0..n
      BY <1>1
    <3>2. Partly(of, ids, k, g[k]) /\ Partly(of, ids, k + 1, NextPartly(of, ids, k + 1, g[k]))
      BY <1>5, <2>6
    <3>3. g[k] \in S /\ NextPartly(of, ids, k + 1, g[k]) \in S
      BY <1>4, <3>1, <3>2
    <3>4. g[k + 1] = step[<<k + 1, g[k]>>]
      BY <2>4, <3>1 DEF Rounds
    <3>5. g[k + 1] = NextPartly(of, ids, k + 1, g[k])
      BY <2>2, <3>1, <3>3, <3>4
    <3>6. QED BY <3>1, <3>2, <3>5
  <2>7. \A k \in 0..n : k \in A
    <3> HIDE DEF A
    <3>1. QED BY <1>1, <2>5, <2>6, UpTo
  <2>8. ASSUME NEW k \in 0..n
        PROVE  g[k] = IF k = 0 THEN none ELSE NextPartly(of, ids, k, g[k - 1])
    <3>1. CASE k = 0
      BY <2>4, <3>1 DEF Rounds
    <3>2. CASE k # 0
      <4>1. k - 1 \in 0..(n - 1) /\ k - 1 \in 0..n /\ (k - 1) + 1 = k
        BY <1>1, <3>2
      <4>2. k - 1 \in A
        BY <2>7, <4>1
      <4> HIDE DEF A
      <4>3. g[(k - 1) + 1] = NextPartly(of, ids, (k - 1) + 1, g[k - 1])
        BY <2>6, <4>1, <4>2
      <4>4. QED BY <3>2, <4>1, <4>3
    <3>3. QED BY <3>1, <3>2
  <2>9. Loop(g)
    BY <2>4, <2>8 DEF Rounds
  <2> HIDE DEF Loop
  <2>10. QED BY <2>9
<1>7. Loop(h)
  <2> HIDE DEF Loop
  <2>1. QED BY <1>6
<1> HIDE DEF h
<1>8. h[0] = none /\ \A k \in 0..(n - 1) : h[k + 1] = NextPartly(of, ids, k + 1, h[k])
  BY <1>1, <1>7
<1> DEFINE A == {k \in 0..n : Partly(of, ids, k, h[k])}
<1>9. 0 \in A
  BY <1>1, <1>3, <1>8
<1>10. ASSUME NEW k \in 0..(n - 1), k \in A PROVE k + 1 \in A
  BY <1>1, <1>5, <1>8, <1>10
<1>11. \A k \in 0..n : k \in A
  <2> HIDE DEF A
  <2>1. QED BY <1>1, <1>9, <1>10, UpTo
<1>12. Partly(of, ids, n, h[n]) /\ f \in h[n]
  BY <1>1, <1>2, <1>11
<1>13. f = [id \in {ids[i] : i \in 1..n} |-> f[id]] /\ \A i \in 1..n : f[ids[i]] \in of[ids[i]]
  BY <1>12 DEF Partly
<1>14. DOMAIN f = {ids[i] : i \in 1..n}
  BY <1>13
<1>15. QED BY <1>1, <1>13, <1>14

\* A configuration that the generators may make, or make of another one.
LegalConf ==
  /\ DOMAIN conf.IntConfig = DOMAIN IntKnobs /\ DOMAIN conf.LoopConfig = Loops
  /\ \A id \in DOMAIN IntKnobs : conf.IntConfig[id] \in IntKnobs[id].min..IntKnobs[id].max
  /\ \A l \in Loops : Usable(conf.LoopConfig[l]) /\ (~POLLY_KNOBS => conf.LoopConfig[l].Section = {})

\* The knobs of the analysis, and the configurations made for them.
Tuned ==
  /\ kids \in Nests
  /\ walk = <<>> => ~Configured /\ loopKnobs = {}
  /\ walk # <<>> => walk \in Walks /\ loopKnobs = Loops /\ colToKnob = AssignToCols(walk)
  /\ Configured => LegalConf

LEMMA LegalAfter ==
  ASSUME Tuned, NEW c, Job(c), walk # <<>>,
         DOMAIN c.IntConfig = DOMAIN IntKnobs, DOMAIN c.LoopConfig = Loops,
         \A id \in DOMAIN IntKnobs : c.IntConfig[id] \in IntKnobs[id].min..IntKnobs[id].max,
         \A l \in Loops : Usable(c.LoopConfig[l]) /\ (~POLLY_KNOBS => c.LoopConfig[l].Section = {})
  PROVE  Tuned'
<1>1. conf' = c /\ UNCHANGED <<kids, loopKnobs, walk, colToKnob>>
  BY DEF Job
<1>2. Loops' = Loops
  BY <1>1 DEF Loops
<1>3. LegalConf'
  BY <1>1, <1>2 DEF LegalConf
<1>4. AssignToCols(walk)' = AssignToCols(walk)
  BY <1>1, <1>2 DEF AssignToCols, Size
<1>5. QED BY <1>1, <1>2, <1>3, <1>4 DEF Tuned

LEMMA DefaultUsable == Usable(Empty) /\ Empty.Section = {}
<1>1. Empty = [o \in OptionNames |-> {}]
  BY NamesAre
<1> DEFINE on == {o \in {"UnrollDisable", "UnrollFull", "UnrollCount"} : Empty[o] # {}}
<1>2. \A o \in OptionNames : Empty[o] = {}
  BY <1>1
<1>3. on = {}
  BY <1>2 DEF OptionNames
<1>4. Cardinality(on) <= 1
  BY <1>3, FS_EmptySet
<1>5. LegalSetting(Empty)
  BY <1>2, <1>4 DEF LegalSetting, OptionNames
<1>6. QED BY <1>1, <1>2, <1>5 DEF Usable, OptionNames, Unset, PresenceOptions

LEMMA TunedStep == Tuned /\ [Next]_vars => Tuned'
<1> SUFFICES ASSUME Tuned, [Next]_vars PROVE Tuned'
  OBVIOUS
<1>1. kids \in Nests /\ IsFiniteSet(Loops) /\ IsFiniteSet(DOMAIN IntKnobs) /\ DOMAIN IntKnobs # {}
  BY KnobAssumption DEF Tuned, Loops
<1>2. CASE Analyze
  <2>1. walk' \in Walks /\ loopKnobs' = Loops /\ Loops' = Loops /\ kids' = kids /\ conf' = conf
    BY <1>2 DEF Analyze, Loops
  <2>2. colToKnob' = AssignToCols(walk)'
    BY <1>2, <2>1 DEF Analyze, AssignToCols, Size
  <2>3. ~Configured /\ ~Configured'
    BY <1>2, <2>1 DEF Analyze, Tuned, Configured
  <2>4. walk' # <<>>
    <3>1. ToSet(walk') # {}
      BY <1>1, <2>1, KnobAssumption
    <3>2. QED BY <3>1 DEF ToSet
  <2>5. QED BY <1>1, <2>1, <2>2, <2>3, <2>4 DEF Tuned
<1>3. CASE Default
  <2> DEFINE c == GenDefaultConfig
  <2>1. walk # <<>> /\ Job(c)
    BY <1>3 DEF Default
  <2>2. loopKnobs = Loops
    BY <2>1 DEF Tuned
  <2>3. c = [IntConfig |-> [id \in DOMAIN IntKnobs |-> IntKnobs[id].dflt], LoopConfig |-> [l \in Loops |-> Empty]]
    BY <2>2 DEF GenDefaultConfig
  <2>4. /\ DOMAIN c.IntConfig = DOMAIN IntKnobs /\ DOMAIN c.LoopConfig = Loops
        /\ \A id \in DOMAIN IntKnobs : c.IntConfig[id] \in IntKnobs[id].min..IntKnobs[id].max
        /\ \A l \in Loops : Usable(c.LoopConfig[l]) /\ (~POLLY_KNOBS => c.LoopConfig[l].Section = {})
    BY <2>3, DefaultUsable, KnobAssumption
  <2> HIDE DEF c
  <2>5. QED BY <2>1, <2>4, LegalAfter
<1>4. CASE Random
  <2>1. walk # <<>> /\ loopKnobs = Loops
    BY <1>4 DEF Random, Tuned
  <2> DEFINE ofInt == [id \in DOMAIN IntKnobs |-> RandomInt(id)]
             ofLoop == [l \in Loops |-> Looked(l, GenRandomLoopSetting)]
  <2>2. PICK c \in [IntConfig : Assignments(ofInt), LoopConfig : Assignments(ofLoop)] : Job(c)
    BY <1>4, <2>1 DEF Random, GenRandomConfigs
  <2>3. DOMAIN ofInt = DOMAIN IntKnobs /\ DOMAIN ofLoop = Loops
        /\ (\A id \in DOMAIN IntKnobs : ofInt[id] = IntKnobs[id].min..IntKnobs[id].max)
        /\ \A l \in Loops : ofLoop[l] \subseteq GenRandomLoopSetting
    BY DEF RandomInt, Looked
  <2> HIDE DEF ofInt, ofLoop
  <2>4. c.IntConfig \in Assignments(ofInt) /\ c.LoopConfig \in Assignments(ofLoop)
    OBVIOUS
  <2>5. DOMAIN c.IntConfig = DOMAIN ofInt /\ \A id \in DOMAIN ofInt : c.IntConfig[id] \in ofInt[id]
    BY <1>1, <2>3, <2>4, AssignmentsAre
  <2>6. DOMAIN c.LoopConfig = DOMAIN ofLoop /\ \A id \in DOMAIN ofLoop : c.LoopConfig[id] \in ofLoop[id]
    BY <1>1, <2>3, <2>4, AssignmentsAre
  <2>7. /\ DOMAIN c.IntConfig = DOMAIN IntKnobs /\ DOMAIN c.LoopConfig = Loops
        /\ \A id \in DOMAIN IntKnobs : c.IntConfig[id] \in IntKnobs[id].min..IntKnobs[id].max
    BY <2>3, <2>5, <2>6
  <2>8. \A l \in Loops : Usable(c.LoopConfig[l]) /\ (~POLLY_KNOBS => c.LoopConfig[l].Section = {})
    BY <2>3, <2>6, RandomLegal
  <2>9. QED BY <2>1, <2>2, <2>7, <2>8, LegalAfter
<1>5. CASE Perturb
  <2>1. Configured /\ walk # <<>> /\ loopKnobs = Loops /\ LegalConf
    BY <1>5 DEF Perturb, Configured, Tuned
  <2>2. PICK e \in Energies : \E pick \in Picks(e) : \E c \in GenNearbyConfigs(pick, e) : Job(c)
    BY <1>5 DEF Perturb
  <2>3. PICK pick \in Picks(e) : \E c \in GenNearbyConfigs(pick, e) : Job(c)
    BY <2>2
  <2> DEFINE ofInt == [id \in DOMAIN IntKnobs |->
                         IF id \in pick THEN NearbyInt(id, e) ELSE {conf.IntConfig[id]}]
             ofLoop == [l \in Loops |->
                          IF l \in pick THEN Looked(l, GenNearbyLoopSetting(conf.LoopConfig[l], e))
                                        ELSE {conf.LoopConfig[l]}]
  <2>4. PICK c \in [IntConfig : Assignments(ofInt), LoopConfig : Assignments(ofLoop)] : Job(c)
    BY <2>1, <2>3 DEF GenNearbyConfigs
  <2>5. DOMAIN ofInt = DOMAIN IntKnobs /\ DOMAIN ofLoop = Loops
    OBVIOUS
  <2>6. ASSUME NEW id \in DOMAIN IntKnobs PROVE ofInt[id] \subseteq IntKnobs[id].min..IntKnobs[id].max
    <3>1. conf.IntConfig[id] \in IntKnobs[id].min..IntKnobs[id].max
      BY <2>1 DEF LegalConf
    <3>2. IntKnobs[id].min \in Int /\ IntKnobs[id].max \in Int /\ IntKnobs[id].min <= IntKnobs[id].max
      BY KnobAssumption
    <3>3. NearbyInt(id, e) \subseteq IntKnobs[id].min..IntKnobs[id].max
      BY <3>1, <3>2, NearbyInRange DEF NearbyInt
    <3>4. QED BY <3>1, <3>3
  <2>7. ASSUME NEW l \in Loops, NEW LS \in ofLoop[l]
        PROVE  Usable(LS) /\ (~POLLY_KNOBS => LS.Section = {})
    <3>1. Usable(conf.LoopConfig[l]) /\ (~POLLY_KNOBS => conf.LoopConfig[l].Section = {})
      BY <2>1 DEF LegalConf
    <3>2. LS = conf.LoopConfig[l] \/ LS \in GenNearbyLoopSetting(conf.LoopConfig[l], e)
      BY DEF Looked
    <3>3. QED BY <3>1, <3>2, PerturbedLegal
  <2> HIDE DEF ofInt, ofLoop
  <2>8. c.IntConfig \in Assignments(ofInt) /\ c.LoopConfig \in Assignments(ofLoop)
    OBVIOUS
  <2>9. DOMAIN c.IntConfig = DOMAIN ofInt /\ \A id \in DOMAIN ofInt : c.IntConfig[id] \in ofInt[id]
    BY <1>1, <2>5, <2>8, AssignmentsAre
  <2>10. DOMAIN c.LoopConfig = DOMAIN ofLoop /\ \A id \in DOMAIN ofLoop : c.LoopConfig[id] \in ofLoop[id]
    BY <1>1, <2>5, <2>8, AssignmentsAre
  <2>11. \A id \in DOMAIN IntKnobs : c.IntConfig[id] \in IntKnobs[id].min..IntKnobs[id].max
    BY <2>5, <2>6, <2>9
  <2>12. \A l \in Loops : Usable(c.LoopConfig[l]) /\ (~POLLY_KNOBS => c.LoopConfig[l].Section = {})
    BY <2>5, <2>7, <2>10
  <2>13. DOMAIN c.IntConfig = DOMAIN IntKnobs /\ DOMAIN c.LoopConfig = Loops
    BY <2>5, <2>9, <2>10
  <2>14. QED BY <2>1, <2>4, <2>11, <2>12, <2>13, LegalAfter
<1>6. ASSUME UNCHANGED <<kids, loopKnobs, walk, colToKnob, conf>> PROVE Tuned'
  <2>1. Loops' = Loops /\ AssignToCols(walk)' = AssignToCols(walk)
    BY <1>6 DEF Loops, AssignToCols, Size
  <2>2. LegalConf' <=> LegalConf
    BY <1>6, <2>1 DEF LegalConf
  <2>3. QED BY <1>6, <2>1, <2>2 DEF Tuned, Configured
<1>7. CASE Export \/ UNCHANGED vars
  BY <1>6, <1>7 DEF Export, vars
<1>8. QED BY <1>2, <1>3, <1>4, <1>5, <1>7 DEF Next

\* Whatever is generated or perturbed, in whatever order, however often and with whatever
\* energy, every knob has a legal value, and there are no values of anything else.
THEOREM ConfAlwaysLegal == Spec => []ConfLegal
<1>1. Init => Tuned
  BY DEF Init, Tuned, Configured
<1>2. Tuned => ConfLegal
  BY DEF Tuned, ConfLegal, LegalConf, Usable
<1>3. QED BY <1>1, <1>2, TunedStep, PTL DEF Spec
------------------------------------------------------------------------------
(* Rows.                                                                      *)

\* Where the columns of each knob of a walk begin: off[k] of them belong to the first k.
Offsets(w, size, off) ==
  /\ w \in Seq(Nat) /\ size \in [1..Len(w) -> Nat]
  /\ off \in [0..Len(w) -> Nat] /\ off[0] = 0
  /\ \A k \in 1..Len(w) : off[k] = off[k - 1] + size[k]

\* s has the first k elements of w, each as often as it has columns.
Repeats(w, size, off, k, s) ==
  /\ s \in Seq(Nat) /\ Len(s) = off[k]
  /\ \A m \in 1..k : \A j \in 1..size[m] : s[off[m - 1] + j] = w[m]

Copies(w, size) == [i \in 1..Len(w) |-> [k \in 1..size[i] |-> w[i]]]

LEMMA OffsetsExist ==
  ASSUME NEW w \in Seq(Nat), NEW size \in [1..Len(w) -> Nat]
  PROVE  \E off : Offsets(w, size, off)
<1> DEFINE n == Len(w)
           S == Nat
           first == 0
           step == [kx \in (1..n) \X S |-> kx[2] + size[kx[1]]]
<1>1. n \in Nat /\ first \in S /\ step \in [(1..n) \X S -> S]
  OBVIOUS
<1>2. \A k \in 1..n, x \in S : step[<<k, x>>] = x + size[k]
  OBVIOUS
<1> HIDE DEF step, S, first
<1>3. PICK off : Rounds(n, first, step, S, off)
  BY <1>1, RoundsExist
<1>4. ASSUME NEW k \in 1..n PROVE off[k] = off[k - 1] + size[k]
  <2>1. k - 1 \in 0..n
    BY <1>1
  <2>2. off[k - 1] \in S /\ off[k] = step[<<k, off[k - 1]>>]
    BY <1>3, <2>1 DEF Rounds
  <2>3. QED BY <1>2, <2>2
<1>5. off \in [0..n -> Nat] /\ off[0] = 0
  BY <1>3 DEF Rounds, S, first
<1>6. Offsets(w, size, off)
  BY <1>4, <1>5 DEF Offsets
<1>7. QED BY <1>6

\* The offsets grow, and every column below the last offset belongs to a knob.
LEMMA OffsetsGrow ==
  ASSUME NEW w, NEW size, NEW off, Offsets(w, size, off)
  PROVE  /\ \A k \in 0..Len(w), m \in 0..Len(w) : m <= k => off[m] <= off[k]
         /\ \A i \in 1..off[Len(w)] : \E k \in 1..Len(w) : \E j \in 1..size[k] : i = off[k - 1] + j
<1> DEFINE n == Len(w)
           A == {k \in 0..n : \A m \in 0..n : m <= k => off[m] <= off[k]}
           B == {q \in 0..n : \A i \in 1..off[q] : \E k \in 1..n : \E j \in 1..size[k] : i = off[k - 1] + j}
<1>1. n \in Nat /\ (\A k \in 0..n : off[k] \in Nat) /\ off[0] = 0
  BY DEF Offsets
<1>2. ASSUME NEW k \in 0..(n - 1)
      PROVE  /\ k + 1 \in 1..n /\ k + 1 \in 0..n /\ k \in 0..n /\ (k + 1) - 1 = k
             /\ size[k + 1] \in Nat /\ off[k + 1] = off[k] + size[k + 1]
  <2>1. k + 1 \in 1..n /\ k + 1 \in 0..n /\ k \in 0..n /\ (k + 1) - 1 = k
    BY <1>1
  <2>2. QED BY <2>1 DEF Offsets
<1>3. 0 \in A /\ 0 \in B
  BY <1>1
<1>4. ASSUME NEW k \in 0..(n - 1), k \in A PROVE k + 1 \in A
  <2>1. ASSUME NEW m \in 0..n, m <= k + 1 PROVE off[m] <= off[k + 1]
    <3>1. CASE m = k + 1
      BY <1>1, <1>2, <3>1
    <3>2. CASE m # k + 1
      <4>1. m <= k
        BY <2>1, <3>2
      <4>2. off[m] <= off[k]
        BY <1>4, <4>1
      <4> DEFINE a == off[m]
                 b == off[k]
                 c == off[k + 1]
      <4>3. a \in Nat /\ b \in Nat /\ c = b + size[k + 1] /\ size[k + 1] \in Nat /\ a <= b
        BY <1>1, <1>2, <4>2
      <4> HIDE DEF a, b, c
      <4>4. a <= c
        BY <4>3
      <4>5. QED BY <4>4 DEF a, c
    <3>3. QED BY <3>1, <3>2
  <2>2. QED BY <1>2, <2>1
<1>5. ASSUME NEW q \in 0..(n - 1), q \in B PROVE q + 1 \in B
  <2>1. ASSUME NEW i \in 1..off[q + 1]
        PROVE  \E k \in 1..n : \E j \in 1..size[k] : i = off[k - 1] + j
    <3>1. CASE i <= off[q]
      <4>1. i \in 1..off[q]
        BY <1>1, <1>2, <3>1
      <4>2. QED BY <1>5, <4>1
    <3>2. CASE ~(i <= off[q])
      <4>1. i - off[q] \in 1..size[q + 1] /\ i = off[q] + (i - off[q])
        BY <1>1, <1>2, <3>2
      <4>2. i = off[(q + 1) - 1] + (i - off[q])
        BY <1>2, <4>1
      <4>3. QED BY <1>2, <4>1, <4>2
    <3>3. QED BY <3>1, <3>2
  <2>2. QED BY <1>2, <2>1
<1>6. \A k \in 0..n : k \in A
  <2> HIDE DEF A
  <2>1. QED BY <1>1, <1>3, <1>4, UpTo
<1>7. \A q \in 0..n : q \in B
  <2> HIDE DEF B
  <2>1. QED BY <1>1, <1>3, <1>5, UpTo
<1>8. n \in B
  BY <1>1, <1>7
<1>9. QED BY <1>6, <1>8

LEMMA RepeatsStep ==
  ASSUME NEW w \in Seq(Nat), NEW size \in [1..Len(w) -> Nat], NEW off, Offsets(w, size, off),
         NEW k \in 0..(Len(w) - 1), NEW s, Repeats(w, size, off, k, s)
  PROVE  Repeats(w, size, off, k + 1, s \o [j \in 1..size[k + 1] |-> w[k + 1]])
<1> DEFINE t == [j \in 1..size[k + 1] |-> w[k + 1]]
           r == s \o t
<1>1. k \in Nat /\ k + 1 \in 1..Len(w) /\ (k + 1) - 1 = k /\ size[k + 1] \in Nat /\ w[k + 1] \in Nat
  OBVIOUS
<1>2. s \in Seq(Nat) /\ Len(s) = off[k] /\ off[k] \in Nat /\ off[k + 1] = off[k] + size[k + 1]
  BY <1>1 DEF Repeats, Offsets
<1>3. t \in Seq(Nat) /\ Len(t) = size[k + 1] /\ \A j \in 1..size[k + 1] : t[j] = w[k + 1]
  BY <1>1
<1> HIDE DEF t
<1>4. /\ r \in Seq(Nat) /\ Len(r) = Len(s) + Len(t)
      /\ \A i \in 1..Len(s) : r[i] = s[i]
      /\ \A j \in 1..Len(t) : r[Len(s) + j] = t[j]
  <2> DEFINE S == Nat
  <2>1. s \in Seq(S) /\ t \in Seq(S)
    BY <1>2, <1>3
  <2> HIDE DEF S
  <2>2. /\ r \in Seq(S) /\ Len(r) = Len(s) + Len(t)
        /\ \A i \in 1..Len(s) : r[i] = s[i]
        /\ \A j \in 1..Len(t) : r[Len(s) + j] = t[j]
    BY <2>1, Joined
  <2>3. QED BY <2>2 DEF S
<1> HIDE DEF r
<1>5. ASSUME NEW m \in 1..(k + 1), NEW j \in 1..size[m] PROVE r[off[m - 1] + j] = w[m]
  <2>1. CASE m = k + 1
    <3>1. off[m - 1] + j = Len(s) + j /\ j \in 1..Len(t)
      BY <1>1, <1>2, <1>3, <2>1
    <3>2. QED BY <1>3, <1>4, <2>1, <3>1
  <2>2. CASE m # k + 1
    <3>1. m \in 1..k /\ m \in 1..Len(w) /\ m - 1 \in 0..Len(w) /\ m \in 0..Len(w) /\ k \in 0..Len(w) /\ m <= k
      BY <2>2
    <3>2. off[m] = off[m - 1] + size[m] /\ off[m - 1] \in Nat /\ off[m] \in Nat /\ size[m] \in Nat
      BY <3>1 DEF Offsets
    <3>3. off[m] <= off[k]
      BY <3>1, OffsetsGrow
    <3>4. off[m - 1] + j \in 1..Len(s)
      <4>1. j \in Nat /\ 1 <= j /\ j <= size[m]
        BY <3>2
      <4> DEFINE a == off[m - 1]
                 b == off[m]
                 c == off[k]
      <4>2. a \in Nat /\ b = a + size[m] /\ size[m] \in Nat /\ b <= c /\ c = Len(s) /\ c \in Nat
        BY <1>2, <3>2, <3>3
      <4> HIDE DEF a, b, c
      <4>3. a + j \in 1..c
        BY <4>1, <4>2
      <4>4. QED BY <4>2, <4>3 DEF a
    <3>5. s[off[m - 1] + j] = w[m]
      BY <3>1 DEF Repeats
    <3>6. QED BY <1>4, <3>4, <3>5
  <2>3. QED BY <2>1, <2>2
<1>6. QED BY <1>2, <1>3, <1>4, <1>5 DEF Repeats, r, t

\* The copies one after the other.
LEMMA FlattenedCopies ==
  ASSUME NEW w \in Seq(Nat), NEW size \in [1..Len(w) -> Nat], NEW off, Offsets(w, size, off)
  PROVE  Repeats(w, size, off, Len(w), FlattenSeq(Copies(w, size)))
<1> DEFINE n == Len(w)
           seqs == Copies(w, size)
<1>1. n \in Nat /\ \A k \in 1..n : seqs[k] = [j \in 1..size[k] |-> w[k]]
  BY DEF Copies
<1>2. Flat(seqs, n, Nat)
  <2>1. seqs = [k \in 1..n |-> seqs[k]]
    BY DEF Copies
  <2>2. ASSUME NEW k \in 1..n PROVE seqs[k] \in Seq(Nat)
    <3>1. seqs[k] = [j \in 1..size[k] |-> w[k]] /\ size[k] \in Nat /\ w[k] \in Nat
      BY <1>1
    <3> HIDE DEF seqs
    <3>2. QED BY <3>1
  <2> HIDE DEF seqs, n
  <2>3. QED BY <2>1, <2>2 DEF Flat
<1>3. PICK f : JoinsUpTo(seqs, n, Nat, f) /\ FlattenSeq(seqs) = f[n]
  <2> HIDE DEF seqs, n
  <2>1. QED BY <1>1, <1>2, Flattened
<1>4. f[0] = <<>> /\ \A k \in 1..n : f[k] = f[k - 1] \o seqs[k]
  BY <1>3 DEF JoinsUpTo
<1> DEFINE A == {k \in 0..n : Repeats(w, size, off, k, f[k])}
<1> HIDE DEF seqs
<1>5. 0 \in A
  <2>1. Repeats(w, size, off, 0, <<>>)
    BY DEF Repeats, Offsets
  <2>2. QED BY <1>1, <1>4, <2>1
<1>6. ASSUME NEW k \in 0..(n - 1), k \in A PROVE k + 1 \in A
  <2>1. k + 1 \in 1..n /\ (k + 1) - 1 = k
    BY <1>1
  <2>2. Repeats(w, size, off, k + 1, f[k] \o [j \in 1..size[k + 1] |-> w[k + 1]])
    BY <1>6, RepeatsStep
  <2>3. f[k + 1] = f[k] \o [j \in 1..size[k + 1] |-> w[k + 1]]
    BY <1>1, <1>4, <2>1
  <2>4. Repeats(w, size, off, k + 1, f[k + 1]) /\ k + 1 \in 0..n
    BY <1>1, <2>1, <2>2, <2>3
  <2>5. QED BY <2>4
<1>7. \A k \in 0..n : k \in A
  <2> HIDE DEF A
  <2>1. QED BY <1>1, <1>5, <1>6, UpTo
<1>8. QED BY <1>1, <1>3, <1>7 DEF seqs

LEMMA OptionCount == Len(Options) \in Nat \ {0}
<1> DEFINE first == <<"VectorizeWidth", "InterleaveCount", "UnrollDisable", "UnrollFull", "UnrollCount",
                      "LICMVerDisable", "Distribute">>
           last == IF POLLY_KNOBS THEN <<"Section">> ELSE <<>>
<1>1. first \in Seq(OptionNames) /\ Len(first) = 7
  BY DEF OptionNames
<1>2. last \in Seq(OptionNames)
  <2>1. <<"Section">> \in Seq(OptionNames) /\ <<>> \in Seq(OptionNames)
    BY DEF OptionNames
  <2>2. QED BY <2>1
<1>3. Options = first \o last
  BY DEF Options
<1> HIDE DEF first, last
<1>4. Len(Options) = Len(first) + Len(last) /\ Len(last) \in Nat
  <2> DEFINE S == OptionNames
  <2>1. first \in Seq(S) /\ last \in Seq(S)
    BY <1>1, <1>2
  <2> HIDE DEF S
  <2>2. Len(first \o last) = Len(first) + Len(last)
    BY <2>1, Joined
  <2>3. QED BY <1>3, <2>1, <2>2
<1>5. QED BY <1>1, <1>4

\* The columns of the knobs of the walk, from off[k - 1] + 1 on for its k-th knob.
Sizes == [i \in 1..Len(walk) |-> Size(walk[i])]

Columns(off) ==
  /\ Offsets(walk, Sizes, off)
  /\ Repeats(walk, Sizes, off, Len(walk), colToKnob)

LEMMA ColumnsExist ==
  ASSUME Tuned, walk # <<>>
  PROVE  /\ walk \in Seq(Nat) /\ Sizes \in [1..Len(walk) -> Nat \ {0}]
         /\ ToSet(walk) = KnobIDs /\ 0 \notin KnobIDs
         /\ \A i, j \in 1..Len(walk) : i # j => walk[i] # walk[j]
         /\ \E off : Columns(off)
<1>1. kids \in Nests /\ walk \in Walks /\ loopKnobs = Loops /\ colToKnob = AssignToCols(walk)
  BY DEF Tuned
<1>2. /\ walk \in Seq(Nat) /\ ToSet(walk) = DOMAIN IntKnobs \cup Loops
      /\ \A i, j \in 1..Len(walk) : i # j => walk[i] # walk[j]
      /\ Loops \subseteq Nat \ {0} /\ DOMAIN IntKnobs \subseteq Nat \ {0}
  <2>1. /\ walk \in Seq(Nat) /\ ToSet(walk) = DOMAIN IntKnobs \cup DOMAIN kids
        /\ \A i, j \in DOMAIN walk : i # j => walk[i] # walk[j]
        /\ DOMAIN kids \subseteq Nat \ {0} /\ DOMAIN IntKnobs \subseteq Nat \ {0}
    BY <1>1, KnobAssumption
  <2>2. DOMAIN walk = 1..Len(walk)
    BY <2>1
  <2>3. QED BY <2>1, <2>2 DEF Loops
<1>3. \A id : Size(id) \in Nat \ {0}
  BY OptionCount DEF Size
<1>4. Sizes \in [1..Len(walk) -> Nat \ {0}]
  BY <1>3 DEF Sizes
<1>5. colToKnob = FlattenSeq(Copies(walk, Sizes))
  <2>1. Copies(walk, Sizes) = [i \in 1..Len(walk) |-> [k \in 1..Size(walk[i]) |-> walk[i]]]
    BY DEF Copies, Sizes
  <2>2. QED BY <1>1, <2>1 DEF AssignToCols
<1>6. Sizes \in [1..Len(walk) -> Nat]
  BY <1>4
<1>7. PICK off : Offsets(walk, Sizes, off)
  BY <1>2, <1>6, OffsetsExist
<1>8. Columns(off)
  BY <1>2, <1>5, <1>6, <1>7, FlattenedCopies DEF Columns
<1>9. QED BY <1>1, <1>2, <1>4, <1>8 DEF KnobIDs

\* Where the columns of the k-th knob begin, exportConfig() begins with it: nowhere else.
LEMMA StartsAre ==
  ASSUME Tuned, walk # <<>>, NEW off, Columns(off)
  PROVE  Starts = {off[k - 1] + 1 : k \in 1..Len(walk)}
<1> DEFINE n == Len(walk)
<1>1. /\ walk \in Seq(Nat) /\ Sizes \in [1..n -> Nat \ {0}] /\ Sizes \in [1..n -> Nat]
      /\ ToSet(walk) = KnobIDs /\ 0 \notin KnobIDs
      /\ \A i, j \in 1..n : i # j => walk[i] # walk[j]
  BY ColumnsExist
<1>2. n \in Nat /\ off \in [0..n -> Nat] /\ off[0] = 0 /\ \A k \in 1..n : off[k] = off[k - 1] + Sizes[k]
  BY <1>1 DEF Columns, Offsets
<1>3. Len(colToKnob) = off[n] /\ \A k \in 1..n : \A j \in 1..Sizes[k] : colToKnob[off[k - 1] + j] = walk[k]
  BY DEF Columns, Repeats
<1>4. /\ \A k \in 0..n, m \in 0..n : m <= k => off[m] <= off[k]
      /\ \A i \in 1..off[n] : \E k \in 1..n : \E j \in 1..Sizes[k] : i = off[k - 1] + j
  <2>1. Offsets(walk, Sizes, off)
    BY DEF Columns
  <2>2. QED BY <2>1, OffsetsGrow
<1>5. \A k \in 1..n : walk[k] # 0
  BY <1>1 DEF ToSet
<1> HIDE DEF n
<1>6. ASSUME NEW k \in 1..n
      PROVE  /\ k \in 0..n /\ k - 1 \in 0..n /\ off[k - 1] \in Nat /\ Sizes[k] \in Nat /\ 1 <= Sizes[k]
             /\ off[k] = off[k - 1] + Sizes[k] /\ off[k] <= off[n] /\ off[n] \in Nat
  <2>1. k \in 0..n /\ k - 1 \in 0..n /\ k <= n /\ n \in 0..n
    BY <1>2
  <2>2. off[k - 1] \in Nat /\ off[k] = off[k - 1] + Sizes[k] /\ off[k] <= off[n] /\ off[n] \in Nat
    BY <1>2, <1>4, <2>1
  <2>3. Sizes[k] \in Nat \ {0}
    BY <1>1 DEF n
  <2>4. QED BY <2>1, <2>2, <2>3
<1>7. ASSUME NEW k \in 1..n, NEW j \in 1..Sizes[k]
      PROVE  /\ off[k - 1] + j \in 1..Len(colToKnob)
             /\ off[k - 1] + j \in Starts <=> j = 1
  <2> DEFINE a == off[k - 1]
  <2>1. a \in Nat /\ Sizes[k] \in Nat /\ a + Sizes[k] <= off[n] /\ off[n] \in Nat /\ j \in Nat /\ 1 <= j /\ j <= Sizes[k]
    BY <1>6
  <2>2. a + j \in 1..Len(colToKnob) /\ colToKnob[a + j] = walk[k]
    <3>1. colToKnob[a + j] = walk[k]
      BY <1>3
    <3> HIDE DEF a
    <3>2. a + j \in 1..off[n]
      BY <2>1
    <3>3. QED BY <1>3, <3>1, <3>2
  <2>3. CASE j # 1
    <3>1. j - 1 \in 1..Sizes[k]
      BY <2>1, <2>3
    <3>2. colToKnob[a + (j - 1)] = walk[k]
      BY <1>3, <3>1
    <3> HIDE DEF a
    <3>3. a + (j - 1) = (a + j) - 1 /\ a + j # 1
      BY <2>1, <2>3
    <3>4. a + j \notin Starts
      BY <2>2, <3>2, <3>3 DEF Starts
    <3>5. QED BY <2>2, <2>3, <3>4 DEF a
  <2>4. CASE j = 1 /\ k = 1
    <3>1. a = 0
      BY <1>2, <2>4
    <3>2. a + j = 1 /\ colToKnob[1] # 0 /\ 1 \in 1..Len(colToKnob)
      BY <1>5, <2>2, <2>4, <3>1
    <3>3. a + j \in Starts
      BY <3>2 DEF Starts
    <3>4. QED BY <2>2, <2>4, <3>3
  <2>5. CASE j = 1 /\ k # 1
    <3> DEFINE p == k - 1
    <3>1. p \in 1..n /\ p # k
      BY <1>2, <2>5
    <3>2. a = off[p - 1] + Sizes[p] /\ off[p - 1] \in Nat /\ Sizes[p] \in Nat /\ 1 <= Sizes[p]
      BY <1>6, <3>1
    <3>3. colToKnob[off[p - 1] + Sizes[p]] = walk[p]
      BY <1>3, <3>1, <3>2
    <3>4. walk[p] # walk[k]
      BY <1>1, <3>1 DEF n
    <3>5. colToKnob[a] # walk[k] /\ a >= 1
      BY <3>2, <3>3, <3>4
    <3> HIDE DEF a
    <3>6. (a + j) - 1 = a /\ a + j # 1
      BY <2>1, <2>5, <3>5
    <3>7. a + j \in Starts
      BY <2>2, <3>5, <3>6 DEF Starts
    <3>8. QED BY <2>2, <2>5, <3>7 DEF a
  <2>6. QED BY <2>3, <2>4, <2>5
<1>8. ASSUME NEW k \in 1..n PROVE off[k - 1] + 1 \in Starts
  <2>1. 1 \in 1..Sizes[k]
    BY <1>6
  <2>2. QED BY <1>7, <2>1
<1>9. ASSUME NEW i \in Starts PROVE \E k \in 1..n : i = off[k - 1] + 1
  <2>1. i \in 1..off[n]
    BY <1>3 DEF Starts
  <2>2. PICK k \in 1..n : \E j \in 1..Sizes[k] : i = off[k - 1] + j
    BY <1>4, <2>1
  <2>3. PICK j \in 1..Sizes[k] : i = off[k - 1] + j
    BY <2>2
  <2>4. j = 1
    BY <1>7, <2>3
  <2>5. QED BY <2>3, <2>4
<1>10. QED BY <1>8, <1>9 DEF n

\* What exportConfig() writes.
Row ==
  [j \in Written |-> LET i == Max({s \in Starts : s <= j}) IN Cells(colToKnob[i])[j - i + 1]]

LEMMA CellCount ==
  ASSUME Tuned, Configured, NEW id \in KnobIDs
  PROVE  /\ Len(Cells(id)) = Size(id)
         /\ id \in loopKnobs => \A k \in 1..Len(Options) : Cells(id)[k] = conf.LoopConfig[id][Options[k]]
         /\ id \notin loopKnobs => Cells(id)[1] = {conf.IntConfig[id]}
<1>1. loopKnobs = Loops
  BY DEF Tuned
<1>2. CASE id \in loopKnobs
  BY <1>1, <1>2, OptionCount DEF Cells, Flatten, Size
<1>3. CASE id \notin loopKnobs
  BY <1>1, <1>3 DEF Cells, Size
<1>4. QED BY <1>2, <1>3

\* Every column is written, with the cell of its knob.
LEMMA RowIs ==
  ASSUME Tuned, Configured, NEW off, Columns(off)
  PROVE  /\ Written = 1..Len(colToKnob)
         /\ \A k \in 1..Len(walk) : \A j \in 1..Sizes[k] :
              /\ off[k - 1] + j \in Written
              /\ Row[off[k - 1] + j] = Cells(walk[k])[j]
<1> DEFINE n == Len(walk)
<1>0. walk # <<>>
  BY DEF Tuned
<1>1. /\ walk \in Seq(Nat) /\ Sizes \in [1..n -> Nat \ {0}] /\ Sizes \in [1..n -> Nat]
      /\ ToSet(walk) = KnobIDs
  BY <1>0, ColumnsExist
<1>2. n \in Nat /\ off \in [0..n -> Nat] /\ \A k \in 1..n : off[k] = off[k - 1] + Sizes[k]
  BY <1>1 DEF Columns, Offsets
<1>3. Len(colToKnob) = off[n] /\ \A k \in 1..n : \A j \in 1..Sizes[k] : colToKnob[off[k - 1] + j] = walk[k]
  BY DEF Columns, Repeats
<1>4. /\ \A k \in 0..n, m \in 0..n : m <= k => off[m] <= off[k]
      /\ \A i \in 1..off[n] : \E k \in 1..n : \E j \in 1..Sizes[k] : i = off[k - 1] + j
  <2>1. Offsets(walk, Sizes, off)
    BY DEF Columns
  <2>2. QED BY <2>1, OffsetsGrow
<1>5. Starts = {off[k - 1] + 1 : k \in 1..n}
  BY <1>0, StartsAre
<1>6. \A k \in 1..n : walk[k] \in KnobIDs /\ Len(Cells(walk[k])) = Sizes[k]
  <2>1. \A k \in 1..n : walk[k] \in KnobIDs /\ Sizes[k] = Size(walk[k])
    BY <1>1 DEF ToSet, Sizes
  <2>2. QED BY <2>1, CellCount
<1> HIDE DEF n
<1>7. ASSUME NEW k \in 1..n
      PROVE  /\ k \in 0..n /\ k - 1 \in 0..n /\ off[k - 1] \in Nat /\ Sizes[k] \in Nat /\ 1 <= Sizes[k]
             /\ off[k] = off[k - 1] + Sizes[k] /\ off[k] <= off[n] /\ off[n] \in Nat
             /\ colToKnob[off[k - 1] + 1] = walk[k]
  <2>1. k \in 0..n /\ k - 1 \in 0..n /\ k <= n /\ n \in 0..n
    BY <1>2
  <2>2. off[k - 1] \in Nat /\ off[k] = off[k - 1] + Sizes[k] /\ off[k] <= off[n] /\ off[n] \in Nat
    BY <1>2, <1>4, <2>1
  <2>3. Sizes[k] \in Nat \ {0}
    BY <1>1 DEF n
  <2>4. colToKnob[off[k - 1] + 1] = walk[k]
    BY <1>3, <2>3
  <2>5. QED BY <2>1, <2>2, <2>3, <2>4
<1>8. ASSUME NEW j \in Written PROVE j \in 1..Len(colToKnob)
  <2>1. PICK i \in Starts : \E c \in 1..Len(Cells(colToKnob[i])) : j = i + c - 1
    BY DEF Written
  <2>2. PICK k \in 1..n : i = off[k - 1] + 1
    BY <1>5
  <2>3. PICK c \in 1..Sizes[k] : j = i + c - 1
    BY <1>6, <1>7, <2>1, <2>2
  <2> DEFINE a == off[k - 1]
             z == off[n]
  <2>4. a \in Nat /\ Sizes[k] \in Nat /\ a + Sizes[k] <= z /\ z \in Nat
    BY <1>7
  <2>5. j = (a + 1) + c - 1
    BY <2>2, <2>3
  <2> HIDE DEF a, z
  <2>6. j \in 1..z
    BY <2>3, <2>4, <2>5
  <2>7. QED BY <1>3, <2>6 DEF z
<1>9. ASSUME NEW k \in 1..n, NEW j \in 1..Sizes[k]
      PROVE  /\ off[k - 1] + j \in Written
             /\ Row[off[k - 1] + j] = Cells(walk[k])[j]
  <2> DEFINE a == off[k - 1]
             i == a + 1
             T == {s \in Starts : s <= a + j}
  <2>1. a \in Nat /\ Sizes[k] \in Nat /\ j \in Nat /\ 1 <= j /\ j <= Sizes[k]
    BY <1>7
  <2>2. i \in Starts /\ i <= a + j /\ colToKnob[i] = walk[k] /\ i \in Nat
    BY <1>5, <1>7, <2>1
  <2>3. a + j \in Written
    <3>1. a + j = i + j - 1
      BY <2>1
    <3>2. j \in 1..Len(Cells(colToKnob[i]))
      BY <1>6, <2>2
    <3> HIDE DEF a, i
    <3>3. QED BY <2>2, <3>1, <3>2 DEF Written
  <2>4. ASSUME NEW s \in T PROVE s \in Nat /\ s <= i
    <3>1. PICK m \in 1..n : s = off[m - 1] + 1
      BY <1>5
    <3>2. off[m - 1] \in Nat /\ Sizes[m] \in Nat /\ m - 1 \in 0..n
      BY <1>7
    <3>3. CASE m <= k
      <4>1. m - 1 <= k - 1 /\ k - 1 \in 0..n
        BY <1>2, <3>3
      <4>2. off[m - 1] <= a
        BY <1>4, <3>2, <4>1
      <4> HIDE DEF a
      <4>3. QED BY <2>1, <3>1, <3>2, <4>2 DEF i
    <3>4. CASE ~(m <= k)
      <4>1. k <= m - 1
        BY <1>2, <3>4
      <4>2. off[k] <= off[m - 1] /\ off[k] = a + Sizes[k]
        BY <1>4, <1>7, <3>2, <4>1
      <4> DEFINE b == off[m - 1]
      <4>3. s = b + 1 /\ b \in Nat /\ a + Sizes[k] <= b /\ s <= a + j
        BY <3>1, <3>2, <4>2
      <4> HIDE DEF a, b
      <4>4. FALSE
        BY <2>1, <4>3
      <4>5. QED BY <4>4
    <3>5. QED BY <3>3, <3>4
  <2>5. Max(T) = i
    <3>1. i \in T /\ \A s \in T : i >= s
      BY <2>2, <2>4
    <3> HIDE DEF T
    <3>2. \A x \in T : (\A s \in T : x >= s) => x = i
      BY <2>2, <2>4, <3>1
    <3> HIDE DEF i
    <3>3. QED BY <3>1, <3>2 DEF Max
  <2> HIDE DEF T
  <2>6. Row[a + j] = Cells(colToKnob[i])[(a + j) - i + 1]
    <3>1. Max({s \in Starts : s <= a + j}) = i
      BY <2>5 DEF T
    <3> HIDE DEF a, i
    <3>2. QED BY <2>3, <3>1 DEF Row
  <2>7. (a + j) - i + 1 = j
    <3> HIDE DEF a
    <3>1. QED BY <2>1
  <2>8. QED BY <2>2, <2>3, <2>6, <2>7
<1>10. ASSUME NEW i \in 1..Len(colToKnob) PROVE i \in Written
  BY <1>3, <1>4, <1>9
<1>11. QED BY <1>8, <1>9, <1>10 DEF n

\* A row is what was exported of the configuration of the knobs.
RowExported == DOMAIN row # {} => Configured /\ row = Row

LEMMA ExportedFaithful ==
  ASSUME Tuned, RowExported
  PROVE  RowsFaithful
<1> SUFFICES ASSUME DOMAIN row # {} PROVE RowsFaithful
  BY DEF RowsFaithful
<1>1. Configured /\ row = Row /\ walk # <<>>
  BY DEF RowExported, Tuned
<1>2. PICK off : Columns(off)
  BY <1>1, ColumnsExist
<1>3. /\ walk \in Seq(Nat) /\ Sizes \in [1..Len(walk) -> Nat \ {0}] /\ ToSet(walk) = KnobIDs
      /\ \A i, j \in 1..Len(walk) : i # j => walk[i] # walk[j]
  BY <1>1, ColumnsExist
<1>4. /\ Written = 1..Len(colToKnob)
      /\ \A k \in 1..Len(walk) : \A j \in 1..Sizes[k] :
           /\ off[k - 1] + j \in Written
           /\ Row[off[k - 1] + j] = Cells(walk[k])[j]
  BY <1>1, <1>2, RowIs
<1>5. /\ off \in [0..Len(walk) -> Nat]
      /\ \A i \in 1..off[Len(walk)] : \E k \in 1..Len(walk) : \E j \in 1..Sizes[k] : i = off[k - 1] + j
  <2>1. Offsets(walk, Sizes, off)
    BY <1>2 DEF Columns
  <2>2. off \in [0..Len(walk) -> Nat]
    BY <2>1 DEF Offsets
  <2>3. QED BY <2>1, <2>2, OffsetsGrow
<1>6. /\ Len(colToKnob) = off[Len(walk)]
      /\ \A k \in 1..Len(walk) : \A j \in 1..Sizes[k] : colToKnob[off[k - 1] + j] = walk[k]
  BY <1>2 DEF Columns, Repeats
<1>7. DOMAIN row = 1..Len(colToKnob)
  <2>1. DOMAIN Row = Written
    BY DEF Row
  <2>2. QED BY <1>1, <1>4, <2>1
<1>8. ASSUME NEW id \in KnobIDs
      PROVE  LET first == Min({j \in DOMAIN row : colToKnob[j] = id})
             IN  IF id \in loopKnobs
                   THEN \A k \in 1..Len(Options) : row[first + k - 1] = conf.LoopConfig[id][Options[k]]
                   ELSE row[first] = {conf.IntConfig[id]}
  <2>1. PICK k \in 1..Len(walk) : id = walk[k]
    BY <1>3 DEF ToSet
  <2> DEFINE a == off[k - 1]
             T == {j \in DOMAIN row : colToKnob[j] = id}
             size == Sizes[k]
  <2>2. a \in Nat /\ size \in Nat /\ 1 <= size /\ size = Size(id)
    <3>1. k - 1 \in 0..Len(walk)
      BY <1>3
    <3>2. a \in Nat
      BY <1>5, <3>1
    <3>3. size \in Nat \ {0} /\ size = Size(id)
      BY <1>3, <2>1 DEF Sizes
    <3>4. QED BY <3>2, <3>3
  <2>3. a + 1 \in T
    <3>1. 1 \in 1..Sizes[k]
      BY <2>2
    <3>2. a + 1 \in Written /\ colToKnob[a + 1] = id
      BY <1>4, <1>6, <2>1, <3>1
    <3> HIDE DEF a
    <3>3. QED BY <1>4, <1>7, <3>2
  <2>4. ASSUME NEW x \in T PROVE x \in Nat /\ a + 1 <= x
    <3>1. x \in 1..off[Len(walk)] /\ colToKnob[x] = id
      BY <1>6, <1>7
    <3>2. PICK m \in 1..Len(walk) : \E j \in 1..Sizes[m] : x = off[m - 1] + j
      BY <1>5, <3>1
    <3>3. PICK j \in 1..Sizes[m] : x = off[m - 1] + j
      BY <3>2
    <3>4. walk[m] = walk[k]
      BY <1>6, <2>1, <3>1, <3>3
    <3>5. m = k
      BY <1>3, <3>4
    <3>6. x = a + j /\ j \in Nat /\ 1 <= j
      BY <1>3, <3>3, <3>5
    <3> HIDE DEF a
    <3>7. QED BY <2>2, <3>6
  <2>5. Min(T) = a + 1
    <3> DEFINE i == a + 1
    <3>1. i \in T /\ \A y \in T : i <= y
      BY <2>3, <2>4
    <3>2. i \in Nat
      BY <2>2
    <3>3. \A x \in T : x \in Nat
      BY <2>4
    <3> HIDE DEF T, i
    <3>4. \A x \in T : (\A y \in T : x <= y) => x = i
      BY <3>1, <3>2, <3>3
    <3>5. Min(T) = i
      BY <3>1, <3>4 DEF Min
    <3>6. QED BY <3>5 DEF i
  <2>6. ASSUME NEW j \in 1..size PROVE row[a + j] = Cells(id)[j]
    BY <1>1, <1>4, <2>1
  <2>7. /\ Len(Cells(id)) = Size(id)
        /\ id \in loopKnobs => \A o \in 1..Len(Options) : Cells(id)[o] = conf.LoopConfig[id][Options[o]]
        /\ id \notin loopKnobs => Cells(id)[1] = {conf.IntConfig[id]}
    BY <1>1, CellCount
  <2> HIDE DEF a, T, size
  <2>8. CASE id \in loopKnobs
    <3>1. size = Len(Options)
      BY <2>2, <2>8 DEF Size, Tuned
    <3>2. ASSUME NEW o \in 1..Len(Options) PROVE row[(a + 1) + o - 1] = conf.LoopConfig[id][Options[o]]
      <4>1. o \in 1..size /\ (a + 1) + o - 1 = a + o
        BY <2>2, <3>1
      <4>2. row[a + o] = Cells(id)[o]
        BY <2>6, <4>1
      <4>3. QED BY <2>7, <2>8, <4>1, <4>2
    <3>3. QED BY <2>5, <2>8, <3>2 DEF T
  <2>9. CASE id \notin loopKnobs
    <3>1. 1 \in 1..size
      BY <2>2
    <3>2. row[a + 1] = {conf.IntConfig[id]}
      BY <2>6, <2>7, <2>9, <3>1
    <3>3. QED BY <2>5, <2>9, <3>2 DEF T
  <2>10. QED BY <2>8, <2>9
<1>9. QED BY <1>7, <1>8 DEF RowsFaithful

LEMMA RowExportedStep == Tuned /\ RowExported /\ [Next]_vars => RowExported'
<1> SUFFICES ASSUME Tuned, RowExported, [Next]_vars PROVE RowExported'
  OBVIOUS
<1>1. ASSUME UNCHANGED <<kids, loopKnobs, walk, colToKnob, conf>> PROVE Row' = Row /\ (Configured' <=> Configured)
  BY <1>1 DEF Row, Written, Starts, Cells, Configured
<1>2. ASSUME DOMAIN row' = {} PROVE RowExported'
  BY <1>2 DEF RowExported
<1>3. CASE Analyze
  <2>1. ~Configured /\ row' = row
    BY <1>3 DEF Analyze, Tuned
  <2>2. QED BY <1>2, <2>1 DEF RowExported
<1>4. CASE Default \/ Random \/ Perturb
  <2>1. row' = <<>>
    BY <1>4 DEF Default, Random, Perturb, Job
  <2>2. DOMAIN row' = {}
    BY <2>1
  <2>3. QED BY <1>2, <2>2
<1>5. CASE Export
  <2>1. row' = Row /\ Configured /\ UNCHANGED <<kids, loopKnobs, walk, colToKnob, conf>>
    BY <1>5 DEF Export, Row, Configured
  <2>2. QED BY <1>1, <2>1 DEF RowExported
<1>6. CASE UNCHANGED vars
  BY <1>1, <1>6 DEF vars, RowExported
<1>7. QED BY <1>3, <1>4, <1>5, <1>6 DEF Next

\* For any number of knobs, in whatever order the knob set is walked: an exported row holds
\* every knob once, whole, and fills every column.
THEOREM RowsAreFaithful == Spec => []RowsFaithful
<1>1. Init => Tuned /\ RowExported
  BY DEF Init, Tuned, Configured, RowExported
<1>2. Tuned /\ RowExported /\ [Next]_vars => (Tuned /\ RowExported)'
  BY TunedStep, RowExportedStep
<1>3. QED BY <1>1, <1>2, ExportedFaithful, PTL DEF Spec
------------------------------------------------------------------------------
(* Groups of sectioned loops.                                                 *)

\* The nest of the module, with the depth of each of its loops.
Forest(depth) ==
  /\ IsFiniteSet(Loops)
  /\ kids \in [Loops -> Seq(Loops)]
  /\ \A p, q \in Loops : \A i \in DOMAIN kids[p], j \in DOMAIN kids[q] :
       kids[p][i] = kids[q][j] => p = q /\ i = j
  /\ depth \in [Loops -> 1..Cardinality(Loops)]
  /\ \A p \in Loops : \A i \in DOMAIN kids[p] : depth[kids[p][i]] = depth[p] + 1

LEMMA NestIsForest == ASSUME kids \in Nests PROVE \E depth : Forest(depth)
BY KnobAssumption DEF Forest, Loops

LEMMA ForestDepths ==
  ASSUME NEW depth, Forest(depth)
  PROVE  /\ Depths(Loops, Cardinality(Loops), depth)
         /\ \A l \in Loops : depth[l] \in Nat
         /\ \A l \in Loops : \A k \in ToSet(kids[l]) : k \in Loops /\ depth[k] > depth[l]
<1>1. Cardinality(Loops) \in Nat
  BY FS_CardinalityType DEF Forest
<1>2. Depths(Loops, Cardinality(Loops), depth) /\ \A l \in Loops : depth[l] \in Nat
  BY <1>1 DEF Depths, Forest
<1>3. ASSUME NEW l \in Loops, NEW k \in ToSet(kids[l]) PROVE k \in Loops /\ depth[k] > depth[l]
  <2>1. PICK i \in DOMAIN kids[l] : k = kids[l][i]
    BY DEF ToSet
  <2>2. k \in Loops /\ depth[k] = depth[l] + 1
    BY <2>1 DEF Forest
  <2>3. QED BY <1>2, <2>2
<1>4. QED BY <1>2, <1>3

\* A group is a loop and the groups of those in it.
LEMMA GroupIs ==
  ASSUME NEW depth, Forest(depth)
  PROVE  /\ Group \in [Loops -> SUBSET Loops]
         /\ \A l \in Loops : Group[l] = {l} \cup UNION {Group[k] : k \in ToSet(kids[l])}
<1> DEFINE V == SUBSET Loops
           Body(l, t) == {l} \cup UNION {t[k] : k \in ToSet(kids[l])}
           G == [lt \in Loops \X [Loops -> V] |-> Body(lt[1], lt[2])]
           Loop(t) == t = [l \in Loops |-> Body(l, t)]
           h == CHOOSE t : Loop(t)
<1>1. /\ Depths(Loops, Cardinality(Loops), depth)
      /\ \A l \in Loops : \A k \in ToSet(kids[l]) : k \in Loops /\ depth[k] > depth[l]
  BY ForestDepths
<1>2. \A l \in Loops, t \in [Loops -> V] : G[<<l, t>>] = Body(l, t)
  OBVIOUS
<1>3. G \in [Loops \X [Loops -> V] -> V]
  BY <1>1
<1>4. ASSUME NEW l \in Loops, NEW f \in [Loops -> V], NEW g \in [Loops -> V],
             \A k \in Loops : depth[k] > depth[l] => f[k] = g[k]
      PROVE  G[<<l, f>>] = G[<<l, g>>]
  <2>1. \A k \in ToSet(kids[l]) : f[k] = g[k]
    BY <1>1, <1>4
  <2>2. Body(l, f) = Body(l, g)
    BY <2>1
  <2> HIDE DEF G, Body
  <2>3. QED BY <1>2, <2>2
<1>5. {} \in V
  OBVIOUS
<1> HIDE DEF V, G, Body
<1>6. PICK t \in [Loops -> V] : \A l \in Loops : t[l] = G[<<l, t>>]
  <2> DEFINE n == Cardinality(Loops)
  <2>1. Depths(Loops, n, depth)
    BY <1>1
  <2>2. FromDeeper(Loops, depth, V, G)
    BY <1>3, <1>4 DEF FromDeeper
  <2> HIDE DEF n
  <2>3. QED BY <1>5, <2>1, <2>2, Computed
<1>7. Loop(t)
  BY <1>2, <1>6
<1>8. Loop(h)
  <2> HIDE DEF Loop
  <2>1. QED BY <1>7
<1>9. Group = h
  BY DEF Group, Body
<1>10. h = [l \in Loops |-> Body(l, h)]
  BY <1>8
<1> HIDE DEF h
<1>11. ASSUME NEW l \in Loops PROVE h[l] \subseteq Loops
  <2> DEFINE A == {x \in Loops : h[x] \subseteq Loops}
  <2>1. ASSUME NEW x \in Loops, \A k \in Loops : depth[k] > depth[x] => k \in A PROVE x \in A
    <3>1. \A k \in ToSet(kids[x]) : h[k] \subseteq Loops
      BY <1>1, <2>1
    <3>2. Body(x, h) \subseteq Loops
      BY <3>1 DEF Body
    <3>3. QED BY <1>10, <3>2
  <2>2. \A x \in Loops : x \in A
    <3> HIDE DEF A
    <3> DEFINE n == Cardinality(Loops)
    <3>1. Depths(Loops, n, depth)
      BY <1>1
    <3> HIDE DEF n
    <3>2. QED BY <2>1, <3>1, FromBelow
  <2>3. QED BY <2>2
<1>12. h \in [Loops -> SUBSET Loops]
  BY <1>10, <1>11
<1>13. \A l \in Loops : h[l] = {l} \cup UNION {h[k] : k \in ToSet(kids[l])}
  <2>1. ASSUME NEW l \in Loops PROVE h[l] = Body(l, h)
    BY <1>10
  <2>2. QED BY <2>1 DEF Body
<1>14. QED BY <1>9, <1>12, <1>13

SpineCells(set) == Loops \X {The(set[l].Section) : l \in Loops}

\* A spine is a sectioned loop, and the spine of its only sub-loop.
LEMMA SpineIs ==
  ASSUME NEW depth, Forest(depth), NEW set
  PROVE  /\ Spine(set) \in [Loops -> Seq(SpineCells(set))]
         /\ \A l \in Loops :
              Spine(set)[l] = IF set[l].Section = {} THEN <<>>
                              ELSE <<<<l, The(set[l].Section)>>>>
                                   \o IF Len(kids[l]) = 1 THEN Spine(set)[kids[l][1]] ELSE <<>>
<1> DEFINE C == SpineCells(set)
           V == Seq(C)
           Body(l, t) == IF set[l].Section = {} THEN <<>>
                         ELSE <<<<l, The(set[l].Section)>>>>
                              \o IF Len(kids[l]) = 1 THEN t[kids[l][1]] ELSE <<>>
           G == [lt \in Loops \X [Loops -> V] |-> Body(lt[1], lt[2])]
           Loop(t) == t = [l \in Loops |-> Body(l, t)]
           h == CHOOSE t : Loop(t)
<1>1. /\ Depths(Loops, Cardinality(Loops), depth)
      /\ \A l \in Loops : \A k \in ToSet(kids[l]) : k \in Loops /\ depth[k] > depth[l]
  BY ForestDepths
<1>2. ASSUME NEW l \in Loops, Len(kids[l]) = 1 PROVE kids[l][1] \in Loops /\ depth[kids[l][1]] > depth[l]
  <2>1. kids[l] \in Seq(Loops)
    BY DEF Forest
  <2>2. kids[l][1] \in ToSet(kids[l])
    BY <1>2, <2>1 DEF ToSet
  <2>3. QED BY <1>1, <2>2
<1>3. ASSUME NEW l \in Loops, NEW t \in [Loops -> V] PROVE Body(l, t) \in V
  <2>1. <<<<l, The(set[l].Section)>>>> \in V
    BY DEF SpineCells
  <2>2. <<>> \in V
    OBVIOUS
  <2>3. Len(kids[l]) = 1 => t[kids[l][1]] \in V
    BY <1>2
  <2>4. \A a, b \in V : a \o b \in V
    <3> HIDE DEF C
    <3>1. ASSUME NEW a \in V, NEW b \in V PROVE a \o b \in V
      BY Joined
    <3>2. QED BY <3>1
  <2> HIDE DEF V
  <2>5. QED BY <2>1, <2>2, <2>3, <2>4
<1>4. ASSUME NEW l \in Loops, NEW f \in [Loops -> V], NEW g \in [Loops -> V],
             \A k \in Loops : depth[k] > depth[l] => f[k] = g[k]
      PROVE  Body(l, f) = Body(l, g)
  <2>1. Len(kids[l]) = 1 => f[kids[l][1]] = g[kids[l][1]]
    BY <1>2, <1>4
  <2> HIDE DEF V
  <2>2. QED BY <2>1
<1>5. <<>> \in V
  OBVIOUS
<1> HIDE DEF V, Body
<1>6. \A l \in Loops, t \in [Loops -> V] : G[<<l, t>>] = Body(l, t)
  OBVIOUS
<1>7. G \in [Loops \X [Loops -> V] -> V]
  BY <1>3
<1> HIDE DEF G
<1>8. PICK t \in [Loops -> V] : \A l \in Loops : t[l] = G[<<l, t>>]
  <2> DEFINE n == Cardinality(Loops)
  <2>1. Depths(Loops, n, depth)
    BY <1>1
  <2>2. ASSUME NEW l \in Loops, NEW f \in [Loops -> V], NEW g \in [Loops -> V],
               \A k \in Loops : depth[k] > depth[l] => f[k] = g[k]
        PROVE  G[<<l, f>>] = G[<<l, g>>]
    BY <1>4, <1>6, <2>2
  <2>3. FromDeeper(Loops, depth, V, G)
    BY <1>7, <2>2 DEF FromDeeper
  <2> HIDE DEF n
  <2>4. QED BY <1>5, <2>1, <2>3, Computed
<1>9. Loop(t)
  BY <1>6, <1>8
<1>10. Loop(h)
  <2> HIDE DEF Loop
  <2>1. QED BY <1>9
<1>11. Spine(set) = h
  BY DEF Spine, Body
<1>12. h = [l \in Loops |-> Body(l, h)]
  BY <1>10
<1> HIDE DEF h
<1> DEFINE A == {x \in Loops : h[x] \in V}
<1>13. ASSUME NEW x \in Loops, \A k \in Loops : depth[k] > depth[x] => k \in A PROVE x \in A
  <2> DEFINE t2 == [l \in Loops |-> IF depth[l] > depth[x] THEN h[l] ELSE <<>>]
  <2>1. t2 \in [Loops -> V]
    BY <1>5, <1>13
  <2>2. Len(kids[x]) = 1 => t2[kids[x][1]] = h[kids[x][1]]
    BY <1>2
  <2> HIDE DEF t2
  <2>3. Body(x, t2) = Body(x, h)
    BY <2>2 DEF Body
  <2>4. QED BY <1>3, <1>12, <2>1, <2>3
<1>14. \A x \in Loops : x \in A
  <2> HIDE DEF A
  <2> DEFINE n == Cardinality(Loops)
  <2>1. Depths(Loops, n, depth)
    BY <1>1
  <2> HIDE DEF n
  <2>2. QED BY <1>13, <2>1, FromBelow
<1>15. h \in [Loops -> V]
  BY <1>12, <1>14
<1>16. QED BY <1>11, <1>12, <1>15 DEF Body, V

\* Where a spine stops: not above where it started.
LEMMA BottomIs ==
  ASSUME NEW depth, Forest(depth), NEW set
  PROVE  \A l \in Loops :
           /\ Bottom(set)[l] = IF set[l].Section # {} /\ Len(kids[l]) = 1 THEN Bottom(set)[kids[l][1]] ELSE l
           /\ Bottom(set)[l] \in Loops /\ depth[Bottom(set)[l]] >= depth[l]
<1> DEFINE V == Loops \cup {0}
           Body(l, t) == IF set[l].Section # {} /\ Len(kids[l]) = 1 THEN t[kids[l][1]] ELSE l
           G == [lt \in Loops \X [Loops -> V] |-> Body(lt[1], lt[2])]
           Loop(t) == t = [l \in Loops |-> Body(l, t)]
           h == CHOOSE t : Loop(t)
<1>1. /\ Depths(Loops, Cardinality(Loops), depth)
      /\ \A l \in Loops : depth[l] \in Nat
      /\ \A l \in Loops : \A k \in ToSet(kids[l]) : k \in Loops /\ depth[k] > depth[l]
  BY ForestDepths
<1>2. ASSUME NEW l \in Loops, Len(kids[l]) = 1 PROVE kids[l][1] \in Loops /\ depth[kids[l][1]] > depth[l]
  <2>1. kids[l] \in Seq(Loops)
    BY DEF Forest
  <2>2. kids[l][1] \in ToSet(kids[l])
    BY <1>2, <2>1 DEF ToSet
  <2>3. QED BY <1>1, <2>2
<1>3. ASSUME NEW l \in Loops, NEW t \in [Loops -> V] PROVE Body(l, t) \in V
  BY <1>2
<1>4. ASSUME NEW l \in Loops, NEW f \in [Loops -> V], NEW g \in [Loops -> V],
             \A k \in Loops : depth[k] > depth[l] => f[k] = g[k]
      PROVE  Body(l, f) = Body(l, g)
  BY <1>2, <1>4
<1>5. 0 \in V
  OBVIOUS
<1> HIDE DEF V, Body
<1>6. \A l \in Loops, t \in [Loops -> V] : G[<<l, t>>] = Body(l, t)
  OBVIOUS
<1>7. G \in [Loops \X [Loops -> V] -> V]
  BY <1>3
<1> HIDE DEF G
<1>8. PICK t \in [Loops -> V] : \A l \in Loops : t[l] = G[<<l, t>>]
  <2> DEFINE n == Cardinality(Loops)
  <2>1. Depths(Loops, n, depth)
    BY <1>1
  <2>2. ASSUME NEW l \in Loops, NEW f \in [Loops -> V], NEW g \in [Loops -> V],
               \A k \in Loops : depth[k] > depth[l] => f[k] = g[k]
        PROVE  G[<<l, f>>] = G[<<l, g>>]
    BY <1>4, <1>6, <2>2
  <2>3. FromDeeper(Loops, depth, V, G)
    BY <1>7, <2>2 DEF FromDeeper
  <2> HIDE DEF n
  <2>4. QED BY <1>5, <2>1, <2>3, Computed
<1>9. Loop(t)
  BY <1>6, <1>8
<1>10. Loop(h)
  <2> HIDE DEF Loop
  <2>1. QED BY <1>9
<1>11. Bottom(set) = h
  BY DEF Bottom, Body
<1>12. \A l \in Loops : h[l] = Body(l, h)
  BY <1>10
<1> HIDE DEF h
<1> DEFINE A == {x \in Loops : h[x] \in Loops /\ depth[h[x]] >= depth[x]}
<1>13. ASSUME NEW x \in Loops, \A k \in Loops : depth[k] > depth[x] => k \in A PROVE x \in A
  <2>1. CASE set[x].Section # {} /\ Len(kids[x]) = 1
    <3> DEFINE k == kids[x][1]
    <3>1. k \in Loops /\ depth[k] > depth[x]
      BY <1>2, <2>1
    <3>2. h[k] \in Loops /\ depth[h[k]] >= depth[k]
      BY <1>13, <3>1
    <3>3. h[x] = h[k]
      BY <1>12, <2>1 DEF Body
    <3> HIDE DEF k
    <3>4. depth[x] \in Nat /\ depth[k] \in Nat /\ depth[h[k]] \in Nat
      BY <1>1, <3>1, <3>2
    <3>5. QED BY <3>1, <3>2, <3>3, <3>4
  <2>2. CASE ~(set[x].Section # {} /\ Len(kids[x]) = 1)
    <3>1. h[x] = x
      BY <1>12, <2>2 DEF Body
    <3>2. QED BY <1>1, <3>1
  <2>3. QED BY <2>1, <2>2
<1>14. \A x \in Loops : x \in A
  <2> HIDE DEF A
  <2> DEFINE n == Cardinality(Loops)
  <2>1. Depths(Loops, n, depth)
    BY <1>1
  <2> HIDE DEF n
  <2>2. QED BY <1>13, <2>1, FromBelow
<1>15. ASSUME NEW l \in Loops PROVE h[l] = Body(l, h) /\ h[l] \in Loops /\ depth[h[l]] >= depth[l]
  BY <1>12, <1>14
<1>16. QED BY <1>11, <1>15 DEF Body

Own(set, l) == IF Len(Spine(set)[l]) >= 2 THEN <<Spine(set)[l]>> ELSE <<>>

\* What is found below the spine of l.
Rest(set, l) ==
  LET b == Bottom(set)[l]
  IN  FlattenSeq([i \in 1..Len(kids[b]) |-> AnalyzeSections(set)[kids[b][i]]])

\* What is found at a loop: its own spine, and what is below it.
LEMMA SectionsAre ==
  ASSUME NEW depth, Forest(depth), NEW set
  PROVE  \A l \in Loops : /\ AnalyzeSections(set)[l] = Own(set, l) \o Rest(set, l)
                          /\ AnalyzeSections(set)[l] \in Seq(Seq(SpineCells(set)))
<1> DEFINE S == Seq(SpineCells(set))
           V == Seq(S)
           bottom == Bottom(set)
           Body(l, t) == Own(set, l) \o FlattenSeq([i \in 1..Len(kids[bottom[l]]) |-> t[kids[bottom[l]][i]]])
           G == [lt \in Loops \X [Loops -> V] |-> Body(lt[1], lt[2])]
           Loop(t) == t = [l \in Loops |-> Body(l, t)]
           h == CHOOSE t : Loop(t)
<1>1. /\ Depths(Loops, Cardinality(Loops), depth)
      /\ \A l \in Loops : depth[l] \in Nat
      /\ \A l \in Loops : \A k \in ToSet(kids[l]) : k \in Loops /\ depth[k] > depth[l]
  BY ForestDepths
<1>2. ASSUME NEW l \in Loops
      PROVE  /\ bottom[l] \in Loops /\ Len(kids[bottom[l]]) \in Nat
             /\ \A i \in 1..Len(kids[bottom[l]]) : kids[bottom[l]][i] \in Loops /\ depth[kids[bottom[l]][i]] > depth[l]
  <2> DEFINE b == bottom[l]
  <2>1. b \in Loops /\ depth[b] >= depth[l]
    BY BottomIs
  <2> HIDE DEF b
  <2>2. kids[b] \in Seq(Loops)
    BY <2>1 DEF Forest
  <2>3. ASSUME NEW i \in 1..Len(kids[b]) PROVE kids[b][i] \in Loops /\ depth[kids[b][i]] > depth[l]
    <3> DEFINE k == kids[b][i]
    <3>1. k \in ToSet(kids[b])
      BY <2>2 DEF ToSet
    <3> HIDE DEF k
    <3>2. k \in Loops /\ depth[k] > depth[b]
      BY <1>1, <2>1, <3>1
    <3>3. depth[k] \in Nat /\ depth[b] \in Nat /\ depth[l] \in Nat
      BY <1>1, <2>1, <3>2
    <3>4. k \in Loops /\ depth[k] > depth[l]
      BY <2>1, <3>2, <3>3
    <3>5. QED BY <3>4 DEF k
  <2>4. QED BY <2>1, <2>2, <2>3 DEF b
<1> HIDE DEF bottom
<1>3. ASSUME NEW l \in Loops, NEW t, \A k \in Loops : depth[k] > depth[l] => t[k] \in V PROVE Body(l, t) \in V
  <2> DEFINE n == Len(kids[bottom[l]])
             seqs == [i \in 1..n |-> t[kids[bottom[l]][i]]]
  <2>1. \A i \in 1..n : seqs[i] \in V
    BY <1>2, <1>3
  <2>2. n \in Nat /\ seqs = [i \in 1..n |-> seqs[i]]
    BY <1>2
  <2> HIDE DEF seqs, n
  <2>3. FlattenSeq(seqs) \in V
    <3> HIDE DEF S
    <3>1. Flat(seqs, n, S)
      BY <2>1, <2>2 DEF Flat
    <3>2. PICK f : JoinsUpTo(seqs, n, S, f) /\ FlattenSeq(seqs) = f[n]
      BY <2>2, <3>1, Flattened
    <3>3. n \in 0..n
      BY <2>2
    <3>4. QED BY <3>2, <3>3 DEF JoinsUpTo
  <2>4. Own(set, l) \in V
    <3>1. Spine(set)[l] \in S
      BY SpineIs
    <3> HIDE DEF S
    <3>2. QED BY <3>1 DEF Own
  <2>5. Own(set, l) \o FlattenSeq(seqs) \in V
    <3> HIDE DEF S
    <3>1. QED BY <2>3, <2>4, Joined
  <2>6. QED BY <2>5 DEF seqs, n
<1>4. ASSUME NEW l \in Loops, NEW f \in [Loops -> V], NEW g \in [Loops -> V],
             \A k \in Loops : depth[k] > depth[l] => f[k] = g[k]
      PROVE  Body(l, f) = Body(l, g)
  <2> DEFINE n == Len(kids[bottom[l]])
  <2>1. \A i \in 1..n : f[kids[bottom[l]][i]] = g[kids[bottom[l]][i]]
    BY <1>2, <1>4
  <2>2. [i \in 1..n |-> f[kids[bottom[l]][i]]] = [i \in 1..n |-> g[kids[bottom[l]][i]]]
    <3> HIDE DEF n, V
    <3>1. QED BY <2>1
  <2>3. QED BY <2>2
<1>5. <<>> \in V
  OBVIOUS
<1> HIDE DEF V, Body
<1>6. \A l \in Loops, t \in [Loops -> V] : G[<<l, t>>] = Body(l, t)
  OBVIOUS
<1>7. G \in [Loops \X [Loops -> V] -> V]
  <2>1. \A l \in Loops, t \in [Loops -> V] : Body(l, t) \in V
    BY <1>3
  <2>2. QED BY <2>1
<1> HIDE DEF G
<1>8. PICK t \in [Loops -> V] : \A l \in Loops : t[l] = G[<<l, t>>]
  <2> DEFINE n == Cardinality(Loops)
  <2>1. Depths(Loops, n, depth)
    BY <1>1
  <2>2. ASSUME NEW l \in Loops, NEW f \in [Loops -> V], NEW g \in [Loops -> V],
               \A k \in Loops : depth[k] > depth[l] => f[k] = g[k]
        PROVE  G[<<l, f>>] = G[<<l, g>>]
    BY <1>4, <1>6, <2>2
  <2>3. FromDeeper(Loops, depth, V, G)
    BY <1>7, <2>2 DEF FromDeeper
  <2> HIDE DEF n
  <2>4. QED BY <1>5, <2>1, <2>3, Computed
<1>9. Loop(t)
  BY <1>6, <1>8
<1>10. Loop(h)
  <2> HIDE DEF Loop
  <2>1. QED BY <1>9
<1>11. AnalyzeSections(set) = h
  BY DEF AnalyzeSections, Body, Own, bottom
<1>12. \A l \in Loops : h[l] = Body(l, h)
  BY <1>10
<1> HIDE DEF h
<1> DEFINE A == {x \in Loops : h[x] \in V}
<1>13. ASSUME NEW x \in Loops, \A k \in Loops : depth[k] > depth[x] => k \in A PROVE x \in A
  <2>1. \A k \in Loops : depth[k] > depth[x] => h[k] \in V
    BY <1>13
  <2>2. Body(x, h) \in V
    BY <1>3, <2>1
  <2>3. QED BY <1>12, <2>2
<1>14. \A x \in Loops : x \in A
  <2> HIDE DEF A
  <2> DEFINE n == Cardinality(Loops)
  <2>1. Depths(Loops, n, depth)
    BY <1>1
  <2> HIDE DEF n
  <2>2. QED BY <1>13, <2>1, FromBelow
<1>15. ASSUME NEW l \in Loops PROVE h[l] = Body(l, h) /\ h[l] \in V
  BY <1>12, <1>14
<1>16. ASSUME NEW l \in Loops PROVE Body(l, h) = Own(set, l) \o Rest(set, l)
  BY <1>11 DEF Body, Rest, bottom
<1>17. QED BY <1>11, <1>15, <1>16 DEF V

\* Induction over the nest, from the leaves and from the top-level loops.
LEMMA Upward ==
  ASSUME NEW depth, Forest(depth), NEW A,
         \A l \in Loops : (\A k \in ToSet(kids[l]) : k \in A) => l \in A
  PROVE  \A l \in Loops : l \in A
<1> DEFINE n == Cardinality(Loops)
<1>1. /\ Depths(Loops, n, depth)
      /\ \A l \in Loops : \A k \in ToSet(kids[l]) : k \in Loops /\ depth[k] > depth[l]
  BY ForestDepths
<1> HIDE DEF n
<1>2. \A l \in Loops : (\A k \in Loops : depth[k] > depth[l] => k \in A) => l \in A
  BY <1>1
<1>3. QED BY <1>1, <1>2, FromBelow

LEMMA Downward ==
  ASSUME NEW depth, Forest(depth), NEW A,
         \A l \in Loops : (\A p \in Loops : l \in ToSet(kids[p]) => p \in A) => l \in A
  PROVE  \A l \in Loops : l \in A
<1> DEFINE n == Cardinality(Loops)
<1>1. /\ Depths(Loops, n, depth)
      /\ \A l \in Loops : depth[l] \in Nat
      /\ \A l \in Loops : \A k \in ToSet(kids[l]) : k \in Loops /\ depth[k] > depth[l]
  BY ForestDepths
<1> HIDE DEF n
<1>2. ASSUME NEW l \in Loops, \A k \in Loops : depth[k] < depth[l] => k \in A PROVE l \in A
  <2>1. \A p \in Loops : l \in ToSet(kids[p]) => depth[p] < depth[l]
    BY <1>1
  <2>2. QED BY <1>2, <2>1
<1>3. QED BY <1>1, <1>2, FromAbove

\* A group has the sub-loops of what is in it, and but for the first loop the loop around.
LEMMA GroupDown ==
  ASSUME NEW depth, Forest(depth), NEW a \in Loops, NEW q \in Group[a], NEW k \in ToSet(kids[q])
  PROVE  k \in Group[a]
<1> DEFINE A == {x \in Loops : \A y \in Group[x] : ToSet(kids[y]) \subseteq Group[x]}
<1>1. \A l \in Loops : Group[l] = {l} \cup UNION {Group[i] : i \in ToSet(kids[l])}
  BY GroupIs
<1>2. \A l \in Loops : \A i \in ToSet(kids[l]) : i \in Loops
  BY ForestDepths
<1>3. ASSUME NEW l \in Loops, \A i \in ToSet(kids[l]) : i \in A PROVE l \in A
  <2>1. ASSUME NEW y \in Group[l], NEW z \in ToSet(kids[y]) PROVE z \in Group[l]
    <3>1. CASE y = l
      <4>1. z \in Loops
        BY <1>2, <3>1
      <4>2. z \in Group[z]
        BY <1>1, <4>1
      <4>3. QED BY <1>1, <3>1, <4>2
    <3>2. CASE y # l
      <4>1. PICK i \in ToSet(kids[l]) : y \in Group[i]
        BY <1>1, <3>2
      <4>2. z \in Group[i]
        BY <1>3, <4>1
      <4>3. QED BY <1>1, <4>2
    <3>3. QED BY <3>1, <3>2
  <2>2. QED BY <2>1
<1>4. a \in A
  <2> HIDE DEF A
  <2>1. QED BY <1>3, Upward
<1>5. QED BY <1>4

LEMMA GroupUp ==
  ASSUME NEW depth, Forest(depth), NEW a \in Loops, NEW h \in Group[a], h # a
  PROVE  \E q \in Group[a] : h \in ToSet(kids[q])
<1> DEFINE A == {x \in Loops : \A y \in Group[x] : y # x => \E q \in Group[x] : y \in ToSet(kids[q])}
<1>1. \A l \in Loops : Group[l] = {l} \cup UNION {Group[i] : i \in ToSet(kids[l])}
  BY GroupIs
<1>2. \A l \in Loops : \A i \in ToSet(kids[l]) : i \in Loops
  BY ForestDepths
<1>3. ASSUME NEW l \in Loops, \A i \in ToSet(kids[l]) : i \in A PROVE l \in A
  <2>1. ASSUME NEW y \in Group[l], y # l PROVE \E q \in Group[l] : y \in ToSet(kids[q])
    <3>1. PICK i \in ToSet(kids[l]) : y \in Group[i]
      BY <1>1, <2>1
    <3>2. CASE y = i
      <4>1. l \in Group[l]
        BY <1>1
      <4>2. QED BY <3>1, <3>2, <4>1
    <3>3. CASE y # i
      <4>1. PICK q \in Group[i] : y \in ToSet(kids[q])
        BY <1>3, <3>1, <3>3
      <4>2. q \in Group[l]
        BY <1>1, <4>1
      <4>3. QED BY <4>1, <4>2
    <3>4. QED BY <3>2, <3>3
  <2>2. QED BY <2>1
<1>4. a \in A
  <2> HIDE DEF A
  <2>1. QED BY <1>3, Upward
<1>5. QED BY <1>4

\* Deeper than its first loop is all else in a group.
LEMMA GroupDeeper ==
  ASSUME NEW depth, Forest(depth), NEW a \in Loops, NEW h \in Group[a], h # a
  PROVE  depth[h] > depth[a]
<1> DEFINE A == {x \in Loops : \A y \in Group[x] : y # x => depth[y] > depth[x]}
<1>1. \A l \in Loops : Group[l] = {l} \cup UNION {Group[i] : i \in ToSet(kids[l])}
  BY GroupIs
<1>2. /\ \A l \in Loops : depth[l] \in Nat
      /\ \A l \in Loops : \A i \in ToSet(kids[l]) : i \in Loops /\ depth[i] > depth[l]
  BY ForestDepths
<1>3. ASSUME NEW l \in Loops, \A i \in ToSet(kids[l]) : i \in A PROVE l \in A
  <2>1. ASSUME NEW y \in Group[l], y # l PROVE depth[y] > depth[l]
    <3>1. PICK i \in ToSet(kids[l]) : y \in Group[i]
      BY <1>1, <2>1
    <3>2. i \in Loops /\ depth[i] > depth[l]
      BY <1>2, <3>1
    <3>3. y = i \/ depth[y] > depth[i]
      BY <1>3, <3>1
    <3>4. y \in Loops
      BY <3>1, <3>2, GroupIs
    <3>5. depth[y] \in Nat /\ depth[i] \in Nat /\ depth[l] \in Nat
      BY <1>2, <3>2, <3>4
    <3>6. QED BY <3>2, <3>3, <3>5
  <2>2. QED BY <2>1
<1>4. a \in A
  <2> HIDE DEF A
  <2>1. QED BY <1>3, Upward
<1>5. QED BY <1>4

\* A loop is directly in one other at most.
LEMMA OneParent ==
  ASSUME NEW depth, Forest(depth), NEW p \in Loops, NEW q \in Loops, NEW k \in ToSet(kids[p]), k \in ToSet(kids[q])
  PROVE  p = q
<1>1. PICK i \in DOMAIN kids[p] : k = kids[p][i]
  BY DEF ToSet
<1>2. PICK j \in DOMAIN kids[q] : k = kids[q][j]
  BY DEF ToSet
<1>3. kids[p][i] = kids[q][j] => p = q
  BY DEF Forest
<1>4. QED BY <1>1, <1>2, <1>3

\* Of two groups that have a loop in common one has the other's first.
LEMMA GroupsNest ==
  ASSUME NEW depth, Forest(depth), NEW a \in Loops, NEW b \in Loops, NEW h \in Group[a], h \in Group[b]
  PROVE  a \in Group[b] \/ b \in Group[a]
<1> DEFINE A == {x \in Loops : x \in Group[a] /\ x \in Group[b] => a \in Group[b] \/ b \in Group[a]}
<1>1. ASSUME NEW l \in Loops, \A p \in Loops : l \in ToSet(kids[p]) => p \in A PROVE l \in A
  <2>1. SUFFICES ASSUME l \in Group[a], l \in Group[b], l # a, l # b PROVE a \in Group[b] \/ b \in Group[a]
    OBVIOUS
  <2>2. PICK p \in Group[a] : l \in ToSet(kids[p])
    BY <2>1, GroupUp
  <2>3. PICK q \in Group[b] : l \in ToSet(kids[q])
    BY <2>1, GroupUp
  <2>4. p \in Loops /\ q \in Loops
    BY GroupIs
  <2>5. p = q
    BY <2>2, <2>3, <2>4, OneParent
  <2>6. p \in A
    BY <1>1, <2>2, <2>4
  <2>7. QED BY <2>3, <2>5, <2>6
<1>2. h \in Loops
  BY GroupIs
<1>3. h \in A
  <2> HIDE DEF A
  <2>1. QED BY <1>1, <1>2, Downward
<1>4. QED BY <1>3

\* The groups of two sub-loops of a loop have nothing in common, nor have those of two
\* top-level loops.
LEMMA KidsApart ==
  ASSUME NEW depth, Forest(depth), NEW l \in Loops, NEW a \in ToSet(kids[l]), NEW b \in ToSet(kids[l]), a # b
  PROVE  Group[a] \cap Group[b] = {}
<1>1. PICK i \in DOMAIN kids[l] : a = kids[l][i]
  BY DEF ToSet
<1>2. PICK j \in DOMAIN kids[l] : b = kids[l][j]
  BY DEF ToSet
<1>3. a \in Loops /\ b \in Loops /\ depth[a] = depth[b] /\ depth[a] \in Nat
  <2>1. a \in Loops /\ b \in Loops
    BY ForestDepths
  <2>2. depth[a] = depth[l] + 1 /\ depth[b] = depth[l] + 1
    BY <1>1, <1>2 DEF Forest
  <2>3. QED BY <2>1, <2>2, ForestDepths
<1>4. ASSUME NEW h \in Group[a], h \in Group[b] PROVE FALSE
  <2>1. a \in Group[b] \/ b \in Group[a]
    BY <1>3, <1>4, GroupsNest
  <2>2. depth[a] > depth[b] \/ depth[b] > depth[a]
    BY <1>3, <2>1, GroupDeeper
  <2>3. QED BY <1>3, <2>2
<1>5. QED BY <1>4

LEMMA TopsApart ==
  ASSUME NEW depth, Forest(depth), NEW a \in TopLevel, NEW b \in TopLevel, a # b
  PROVE  Group[a] \cap Group[b] = {}
<1>1. a \in Loops /\ b \in Loops /\ \A p \in Loops : a \notin ToSet(kids[p]) /\ b \notin ToSet(kids[p])
  BY DEF TopLevel
<1>2. ASSUME NEW h \in Group[a], h \in Group[b] PROVE FALSE
  <2>1. a \in Group[b] \/ b \in Group[a]
    BY <1>1, <1>2, GroupsNest
  <2>2. CASE a \in Group[b]
    <3>1. \E q \in Group[b] : a \in ToSet(kids[q])
      BY <1>1, <2>2, GroupUp
    <3>2. \A q \in Group[b] : q \in Loops
      BY <1>1, GroupIs
    <3>3. QED BY <1>1, <3>1, <3>2
  <2>3. CASE b \in Group[a]
    <3>1. \E q \in Group[a] : b \in ToSet(kids[q])
      BY <1>1, <2>3, GroupUp
    <3>2. \A q \in Group[a] : q \in Loops
      BY <1>1, GroupIs
    <3>3. QED BY <1>1, <3>1, <3>2
  <2>4. QED BY <2>1, <2>2, <2>3
<1>3. QED BY <1>2

\* Every loop is in the group of a top-level loop.
LEMMA TopsCover ==
  ASSUME NEW depth, Forest(depth)
  PROVE  \A l \in Loops : \E t \in TopLevel : l \in Group[t]
<1> DEFINE A == {x \in Loops : \E t \in TopLevel : x \in Group[t]}
<1>1. ASSUME NEW l \in Loops, \A p \in Loops : l \in ToSet(kids[p]) => p \in A PROVE l \in A
  <2>1. CASE l \in TopLevel
    <3>1. l \in Group[l]
      BY GroupIs
    <3>2. QED BY <2>1, <3>1
  <2>2. CASE l \notin TopLevel
    <3>1. PICK p \in Loops : l \in ToSet(kids[p])
      BY <2>2 DEF TopLevel
    <3>2. PICK t \in TopLevel : p \in Group[t]
      BY <1>1, <3>1
    <3>3. t \in Loops
      BY DEF TopLevel
    <3>4. l \in Group[t]
      BY <3>1, <3>2, <3>3, GroupDown
    <3>5. QED BY <3>4
  <2>3. QED BY <2>1, <2>2
<1>2. \A l \in Loops : l \in A
  <2> HIDE DEF A
  <2>1. QED BY <1>1, Downward
<1>3. QED BY <1>2

\* One in front of others.
LEMMA Consed ==
  ASSUME NEW S, NEW c \in S, NEW t \in Seq(S)
  PROVE  /\ <<c>> \o t \in Seq(S) /\ Len(<<c>> \o t) = Len(t) + 1 /\ (<<c>> \o t)[1] = c
         /\ \A i \in 1..Len(t) : (<<c>> \o t)[i + 1] = t[i]
<1> DEFINE a == <<c>>
           s == a \o t
<1>1. a \in Seq(S) /\ Len(a) = 1 /\ a[1] = c
  OBVIOUS
<1>2. Len(t) \in Nat
  OBVIOUS
<1> HIDE DEF a
<1>3. /\ s \in Seq(S) /\ Len(s) = Len(a) + Len(t)
      /\ \A k \in 1..Len(a) : s[k] = a[k]
      /\ \A k \in 1..Len(t) : s[Len(a) + k] = t[k]
  BY <1>1, Joined
<1> HIDE DEF s
<1>4. \A i \in 1..Len(t) : s[i + 1] = t[i]
  <2>1. ASSUME NEW i \in 1..Len(t) PROVE s[i + 1] = t[i]
    <3>1. Len(a) + i = i + 1
      BY <1>1, <1>2
    <3>2. s[Len(a) + i] = t[i]
      BY <1>3
    <3>3. QED BY <3>1, <3>2
  <2>2. QED BY <2>1
<1>5. Len(s) = Len(t) + 1 /\ s[1] = c
  BY <1>1, <1>2, <1>3
<1>6. QED BY <1>3, <1>4, <1>5 DEF s, a

\* s is what follows from l on: sectioned loops one in the other, with their sections, to
\* one that has no sectioned loop as its only sub-loop.
SpineOf(set, depth, l, s) ==
  /\ s \in Seq(SpineCells(set))
  /\ Len(s) = 0 <=> set[l].Section = {}
  /\ Len(s) # 0 => s[1][1] = l /\ depth[l] + Len(s) <= Cardinality(Loops) + 1
  /\ \A i \in 1..Len(s) : /\ s[i][1] \in Loops /\ set[s[i][1]].Section # {}
                          /\ s[i][2] = The(set[s[i][1]].Section)
  /\ \A i \in 1..(Len(s) - 1) : kids[s[i][1]] = <<s[i + 1][1]>>
  /\ Len(s) # 0 => \A k : kids[s[Len(s)][1]] = <<k>> => set[k].Section = {}

LEMMA SpineStarts ==
  ASSUME NEW depth, Forest(depth), NEW set, NEW l \in Loops, set[l].Section # {},
         \A k : kids[l] = <<k>> => set[k].Section = {}
  PROVE  SpineOf(set, depth, l, <<<<l, The(set[l].Section)>>>>)
<1> DEFINE c == <<l, The(set[l].Section)>>
           s == <<c>>
           C == SpineCells(set)
<1>1. c \in C /\ c[1] = l /\ c[2] = The(set[l].Section)
  BY DEF SpineCells
<1> HIDE DEF c, C
<1>2. s \in Seq(C) /\ Len(s) = 1 /\ s[1] = c
  BY <1>1
<1> HIDE DEF s
<1>3. depth[l] \in 1..Cardinality(Loops)
  BY DEF Forest
<1>4. depth[l] + 1 <= Cardinality(Loops) + 1
  <2>1. Cardinality(Loops) \in Nat
    BY FS_CardinalityType DEF Forest
  <2>2. QED BY <1>3, <2>1
<1>5. \A i \in 1..Len(s) : i = 1
  BY <1>2
<1>6. 1..(Len(s) - 1) = {}
  BY <1>2
<1>7. SpineOf(set, depth, l, s)
  BY <1>1, <1>2, <1>4, <1>5, <1>6 DEF SpineOf, C
<1>8. QED BY <1>7 DEF s, c

LEMMA SpineGrows ==
  ASSUME NEW depth, Forest(depth), NEW set, NEW l \in Loops, set[l].Section # {},
         NEW k \in Loops, kids[l] = <<k>>, NEW t, SpineOf(set, depth, k, t), Len(t) # 0
  PROVE  SpineOf(set, depth, l, <<<<l, The(set[l].Section)>>>> \o t)
<1> DEFINE c == <<l, The(set[l].Section)>>
           s == <<c>> \o t
           C == SpineCells(set)
<1>1. c \in C /\ c[1] = l /\ c[2] = The(set[l].Section)
  BY DEF SpineCells
<1> HIDE DEF c, C
<1>2. /\ t \in Seq(C) /\ t[1][1] = k /\ depth[k] + Len(t) <= Cardinality(Loops) + 1
      /\ \A i \in 1..Len(t) : /\ t[i][1] \in Loops /\ set[t[i][1]].Section # {}
                              /\ t[i][2] = The(set[t[i][1]].Section)
      /\ \A i \in 1..(Len(t) - 1) : kids[t[i][1]] = <<t[i + 1][1]>>
      /\ \A x : kids[t[Len(t)][1]] = <<x>> => set[x].Section = {}
  BY DEF SpineOf, C
<1>3. s \in Seq(C) /\ Len(s) = Len(t) + 1 /\ s[1] = c /\ \A i \in 1..Len(t) : s[i + 1] = t[i]
  BY <1>1, <1>2, Consed
<1>4. Len(t) \in Nat \ {0}
  BY <1>2
<1> HIDE DEF s
<1>5. depth[l] + Len(s) <= Cardinality(Loops) + 1
  <2>1. depth[k] = depth[l] + 1
    <3>1. 1 \in DOMAIN kids[l] /\ kids[l][1] = k
      OBVIOUS
    <3>2. depth[kids[l][1]] = depth[l] + 1
      BY <3>1 DEF Forest
    <3>3. QED BY <3>1, <3>2
  <2>2. depth[l] \in Nat /\ Cardinality(Loops) \in Nat
    BY ForestDepths, FS_CardinalityType DEF Forest
  <2>3. QED BY <1>2, <1>3, <1>4, <2>1, <2>2
<1>6. ASSUME NEW i \in 1..Len(s) PROVE i = 1 \/ (i - 1 \in 1..Len(t) /\ s[i] = t[i - 1])
  <2>1. CASE i # 1
    <3>1. i - 1 \in 1..Len(t) /\ (i - 1) + 1 = i
      BY <1>3, <1>4, <2>1
    <3>2. QED BY <1>3, <3>1
  <2>2. QED BY <2>1
<1>7. ASSUME NEW i \in 1..Len(s)
      PROVE  s[i][1] \in Loops /\ set[s[i][1]].Section # {} /\ s[i][2] = The(set[s[i][1]].Section)
  BY <1>1, <1>2, <1>3, <1>6
<1>8. ASSUME NEW i \in 1..(Len(s) - 1) PROVE kids[s[i][1]] = <<s[i + 1][1]>>
  <2>1. i \in 1..Len(t) /\ i \in 1..Len(s) /\ s[i + 1] = t[i]
    BY <1>3, <1>4
  <2>2. CASE i = 1
    BY <1>1, <1>2, <1>3, <2>1, <2>2
  <2>3. CASE i # 1
    <3>1. i - 1 \in 1..(Len(t) - 1) /\ (i - 1) + 1 = i /\ s[i] = t[i - 1]
      BY <1>4, <1>6, <2>1, <2>3
    <3>2. kids[t[i - 1][1]] = <<t[(i - 1) + 1][1]>>
      BY <1>2, <3>1
    <3>3. QED BY <2>1, <3>1, <3>2
  <2>4. QED BY <2>2, <2>3
<1>9. s[Len(s)] = t[Len(t)] /\ Len(s) # 0 /\ s[1][1] = l
  <2>1. Len(t) \in 1..Len(t)
    BY <1>4
  <2>2. s[Len(t) + 1] = t[Len(t)]
    BY <1>3, <2>1
  <2>3. QED BY <1>1, <1>3, <1>4, <2>2
<1>10. SpineOf(set, depth, l, s)
  BY <1>2, <1>3, <1>5, <1>7, <1>8, <1>9 DEF SpineOf, C
<1>11. QED BY <1>10 DEF s, c

LEMMA SpineShape ==
  ASSUME NEW depth, Forest(depth), NEW set
  PROVE  \A l \in Loops : SpineOf(set, depth, l, Spine(set)[l])
<1> DEFINE A == {l \in Loops : SpineOf(set, depth, l, Spine(set)[l])}
<1>1. \A l \in Loops :
        /\ Spine(set)[l] = IF set[l].Section = {} THEN <<>>
                           ELSE <<<<l, The(set[l].Section)>>>>
                                \o IF Len(kids[l]) = 1 THEN Spine(set)[kids[l][1]] ELSE <<>>
        /\ Spine(set)[l] \in Seq(SpineCells(set))
  BY SpineIs
<1>2. ASSUME NEW l \in Loops, \A k \in ToSet(kids[l]) : k \in A PROVE l \in A
  <2> DEFINE s == Spine(set)[l]
             c == <<l, The(set[l].Section)>>
  <2>1. kids[l] \in Seq(Loops)
    BY DEF Forest
  <2>2. CASE set[l].Section = {}
    <3>1. s = <<>>
      BY <1>1, <2>2
    <3>2. SpineOf(set, depth, l, <<>>)
      BY <2>2 DEF SpineOf
    <3>3. QED BY <3>1, <3>2
  <2>3. CASE set[l].Section # {} /\ Len(kids[l]) # 1
    <3>1. s = <<c>> \o <<>>
      BY <1>1, <2>3
    <3>2. s = <<c>>
      BY <3>1
    <3>3. \A k : kids[l] # <<k>>
      BY <2>3
    <3>4. SpineOf(set, depth, l, <<c>>)
      BY <2>3, <3>3, SpineStarts
    <3>5. QED BY <3>2, <3>4
  <2>4. CASE set[l].Section # {} /\ Len(kids[l]) = 1
    <3> DEFINE k == kids[l][1]
               t == Spine(set)[k]
    <3>1. k \in ToSet(kids[l]) /\ kids[l] = <<k>>
      BY <2>1, <2>4 DEF ToSet
    <3>2. k \in Loops /\ SpineOf(set, depth, k, t)
      BY <1>2, <3>1, ForestDepths
    <3>3. s = <<c>> \o t
      BY <1>1, <2>4
    <3>4. CASE Len(t) = 0
      <4>1. set[k].Section = {} /\ t = <<>>
        BY <3>2, <3>4 DEF SpineOf
      <4>2. s = <<c>>
        BY <3>3, <4>1
      <4>3. \A x : kids[l] = <<x>> => x = k
        BY <3>1
      <4>4. SpineOf(set, depth, l, <<c>>)
        BY <2>4, <4>1, <4>3, SpineStarts
      <4>5. QED BY <4>2, <4>4
    <3>5. CASE Len(t) # 0
      <4> HIDE DEF k, t
      <4>1. SpineOf(set, depth, l, <<c>> \o t)
        BY <2>4, <3>1, <3>2, <3>5, SpineGrows
      <4>2. QED BY <3>3, <4>1
    <3>6. QED BY <3>4, <3>5
  <2>5. QED BY <2>2, <2>3, <2>4
<1>3. \A l \in Loops : l \in A
  <2> HIDE DEF A
  <2>1. QED BY <1>2, Upward
<1>4. QED BY <1>3

\* A loop at which a spine may begin: it does not continue one.
Begins(set, l) == \A q \in Loops : kids[q] = <<l>> => set[q].Section = {}

\* Where groups begin.
Heads(set, X) == {h \in X : Len(Spine(set)[h]) >= 2 /\ Begins(set, h)}

LEMMA RestTyped ==
  ASSUME NEW depth, Forest(depth), NEW set, NEW l \in Loops
  PROVE  Rest(set, l) \in Seq(Seq(SpineCells(set)))
<1> DEFINE S == Seq(SpineCells(set))
           b == Bottom(set)[l]
           n == Len(kids[b])
           seqs == [i \in 1..n |-> AnalyzeSections(set)[kids[b][i]]]
<1>1. b \in Loops
  BY BottomIs
<1> HIDE DEF b
<1>2. kids[b] \in Seq(Loops) /\ n \in Nat
  BY <1>1 DEF Forest
<1>3. \A i \in 1..n : seqs[i] \in Seq(S)
  <2>1. \A i \in 1..n : kids[b][i] \in Loops
    BY <1>2
  <2>2. QED BY <2>1, SectionsAre
<1>4. seqs = [i \in 1..n |-> seqs[i]]
  OBVIOUS
<1>5. Rest(set, l) = FlattenSeq(seqs)
  BY DEF Rest, b
<1> HIDE DEF seqs, n, S
<1>6. Flat(seqs, n, S)
  BY <1>3, <1>4 DEF Flat
<1>7. PICK f : JoinsUpTo(seqs, n, S, f) /\ FlattenSeq(seqs) = f[n]
  BY <1>2, <1>6, Flattened
<1>8. n \in 0..n
  BY <1>2
<1>9. f[n] \in Seq(S)
  BY <1>7, <1>8 DEF JoinsUpTo
<1>10. QED BY <1>5, <1>7, <1>9 DEF S

\* What is found at a loop where a spine may begin is all spines in its group.
LEMMA FoundLists ==
  ASSUME NEW depth, Forest(depth), NEW set, NEW k \in Loops, Begins(set, k),
         Lists(Rest(set, k), Heads(set, Group[k] \ {k}), Spine(set))
  PROVE  Lists(AnalyzeSections(set)[k], Heads(set, Group[k]), Spine(set))
<1> DEFINE S == Seq(SpineCells(set))
           rest == Rest(set, k)
           H == Heads(set, Group[k] \ {k})
           spine == Spine(set)
<1>1. AnalyzeSections(set)[k] = Own(set, k) \o rest
  BY SectionsAre
<1>2. rest \in Seq(S)
  BY RestTyped
<1>3. k \in Group[k]
  BY GroupIs
<1>4. CASE Len(spine[k]) >= 2
  <2>1. Own(set, k) = <<spine[k]>>
    BY <1>4 DEF Own
  <2>2. Heads(set, Group[k]) = {k} \cup H
    BY <1>3, <1>4 DEF Heads
  <2>3. {k} \cap H = {}
    BY DEF Heads
  <2>4. <<spine[k]>> \in Seq(S)
    BY SpineIs
  <2>5. Lists(rest, H, spine)
    OBVIOUS
  <2> HIDE DEF H, S, rest, spine
  <2>6. Lists(<<spine[k]>>, {k}, spine)
    BY ListsOne
  <2>7. Lists(<<spine[k]>> \o rest, {k} \cup H, spine)
    BY <1>2, <2>3, <2>4, <2>5, <2>6, ListsJoin
  <2>8. QED BY <1>1, <2>1, <2>2, <2>7 DEF spine
<1>5. CASE ~(Len(spine[k]) >= 2)
  <2>1. Own(set, k) \o rest = rest
    <3>1. Own(set, k) = <<>>
      BY <1>5 DEF Own
    <3> HIDE DEF rest, S
    <3>2. QED BY <1>2, <3>1
  <2>2. Heads(set, Group[k]) = H
    BY <1>5 DEF Heads
  <2>3. QED BY <1>1, <2>1, <2>2
<1>6. QED BY <1>4, <1>5

\* What is found below a spine is all spines that begin below.
LEMMA RestLists ==
  ASSUME NEW depth, Forest(depth), NEW set
  PROVE  \A l \in Loops : Lists(Rest(set, l), Heads(set, Group[l] \ {l}), Spine(set))
<1> DEFINE A == {l \in Loops : Lists(Rest(set, l), Heads(set, Group[l] \ {l}), Spine(set))}
<1>1. /\ \A l \in Loops : Group[l] = {l} \cup UNION {Group[k] : k \in ToSet(kids[l])}
      /\ \A l \in Loops : Group[l] \subseteq Loops
  BY GroupIs
<1>2. ASSUME NEW l \in Loops, NEW k \in ToSet(kids[l]) PROVE k \in Loops /\ l \notin Group[k]
  <2>1. k \in Loops /\ depth[k] > depth[l] /\ depth[k] \in Nat /\ depth[l] \in Nat
    BY ForestDepths
  <2>2. l \in Group[k] => l = k \/ depth[l] > depth[k]
    BY <2>1, GroupDeeper
  <2>3. QED BY <2>1, <2>2
<1>3. ASSUME NEW l \in Loops, \A k \in ToSet(kids[l]) : k \in A PROVE l \in A
  <2>1. kids[l] \in Seq(Loops)
    BY DEF Forest
  <2>2. CASE set[l].Section # {} /\ Len(kids[l]) = 1
    <3> DEFINE k == kids[l][1]
    <3>1. kids[l] = <<k>> /\ ToSet(kids[l]) = {k}
      BY <2>1, <2>2 DEF ToSet
    <3>2. k \in Loops /\ k \in A /\ l \notin Group[k]
      BY <1>2, <1>3, <3>1
    <3>3. Rest(set, l) = Rest(set, k)
      <4>1. Bottom(set)[l] = Bottom(set)[k]
        BY <2>2, BottomIs
      <4> HIDE DEF k
      <4>2. QED BY <4>1 DEF Rest
    <3>4. ~Begins(set, k)
      BY <2>2, <3>1 DEF Begins
    <3> HIDE DEF k
    <3>5. Group[l] = {l} \cup Group[k]
      BY <1>1, <3>1
    <3>6. Heads(set, Group[l] \ {l}) = Heads(set, Group[k] \ {k})
      BY <3>2, <3>4, <3>5 DEF Heads
    <3>7. QED BY <3>2, <3>3, <3>6
  <2>3. CASE ~(set[l].Section # {} /\ Len(kids[l]) = 1)
    <3> DEFINE n == Len(kids[l])
               seqs == [i \in 1..n |-> AnalyzeSections(set)[kids[l][i]]]
               Hs == [i \in 1..n |-> Heads(set, Group[kids[l][i]])]
               S == Seq(SpineCells(set))
               spine == Spine(set)
    <3>1. Bottom(set)[l] = l
      BY <2>3, BottomIs
    <3>2. Rest(set, l) = FlattenSeq(seqs)
      BY <3>1 DEF Rest
    <3>3. ASSUME NEW i \in 1..n PROVE kids[l][i] \in Loops /\ kids[l][i] \in ToSet(kids[l])
      BY <2>1 DEF ToSet
    <3>4. ASSUME NEW i \in 1..n PROVE Lists(seqs[i], Hs[i], spine)
      <4> DEFINE k == kids[l][i]
      <4>1. k \in Loops /\ k \in ToSet(kids[l])
        BY <3>3
      <4>2. Begins(set, k)
        <5>1. ASSUME NEW q \in Loops, kids[q] = <<k>>, set[q].Section # {} PROVE FALSE
          <6>1. k \in ToSet(kids[q]) /\ Len(kids[q]) = 1
            BY <5>1 DEF ToSet
          <6> HIDE DEF k
          <6>2. q = l
            BY <4>1, <6>1, OneParent
          <6>3. QED BY <2>3, <5>1, <6>1, <6>2
        <5>2. QED BY <5>1 DEF Begins
      <4>3. Lists(Rest(set, k), Heads(set, Group[k] \ {k}), Spine(set))
        BY <1>3, <4>1
      <4> HIDE DEF k
      <4>4. Lists(AnalyzeSections(set)[k], Heads(set, Group[k]), Spine(set))
        BY <4>1, <4>2, <4>3, FoundLists
      <4>5. seqs[i] = AnalyzeSections(set)[k] /\ Hs[i] = Heads(set, Group[k])
        BY DEF k
      <4>6. QED BY <4>4, <4>5
    <3>5. ASSUME NEW i \in 1..n, NEW j \in 1..n, i # j PROVE Hs[i] \cap Hs[j] = {}
      <4> DEFINE a == kids[l][i]
                 b == kids[l][j]
      <4>1. a \in ToSet(kids[l]) /\ b \in ToSet(kids[l])
        BY <3>3
      <4>2. a # b
        <5>1. i \in DOMAIN kids[l] /\ j \in DOMAIN kids[l]
          BY <2>1
        <5>2. QED BY <3>5, <5>1 DEF Forest
      <4>3. Hs[i] \subseteq Group[a] /\ Hs[j] \subseteq Group[b]
        BY DEF Heads
      <4> HIDE DEF a, b
      <4>4. Group[a] \cap Group[b] = {}
        BY <4>1, <4>2, KidsApart
      <4>5. QED BY <4>3, <4>4
    <3>6. n \in Nat /\ Flat(seqs, n, S)
      <4>1. n \in Nat
        BY <2>1
      <4>2. \A i \in 1..n : seqs[i] \in Seq(S)
        BY <3>3, SectionsAre
      <4> HIDE DEF S
      <4>3. QED BY <4>1, <4>2 DEF Flat
    <3>7. UNION {Hs[i] : i \in 1..n} = Heads(set, Group[l] \ {l})
      <4>1. ASSUME NEW h PROVE h \in Group[l] \ {l} <=> \E i \in 1..n : h \in Group[kids[l][i]]
        <5>1. h \in Group[l] \ {l} <=> \E k \in ToSet(kids[l]) : h \in Group[k]
          BY <1>1, <1>2
        <5>2. ToSet(kids[l]) = {kids[l][i] : i \in 1..n}
          BY <2>1 DEF ToSet
        <5> HIDE DEF n
        <5>3. QED BY <5>1, <5>2
      <4>2. \A h : h \in UNION {Hs[i] : i \in 1..n} <=> \E i \in 1..n : h \in Heads(set, Group[kids[l][i]])
        OBVIOUS
      <4> HIDE DEF Hs, seqs, n
      <4>3. QED BY <4>1, <4>2 DEF Heads
    <3> HIDE DEF n, seqs, Hs, S, spine
    <3>8. Lists(FlattenSeq(seqs), UNION {Hs[i] : i \in 1..n}, spine)
      BY <3>4, <3>5, <3>6, ListsFlat
    <3>9. QED BY <3>2, <3>7, <3>8 DEF spine
  <2>4. QED BY <2>2, <2>3
<1>4. \A l \in Loops : l \in A
  <2> HIDE DEF A
  <2>1. QED BY <1>3, Upward
<1>5. QED BY <1>4

\* The groups of a module whose loop knobs are all applied once, in whatever order, are the
\* spines of its loops, once each.
LEMMA TransformsList ==
  ASSUME NEW depth, Forest(depth), NEW set, NEW w \in Seq(Nat), Loops \subseteq ToSet(w),
         \A i, j \in DOMAIN w : i # j => w[i] # w[j]
  PROVE  Lists(Transforms(AnalyzeSections(set), w, TopLevel), Heads(set, Loops), Spine(set))
<1> DEFINE n == Len(w)
           seqs == [i \in 1..n |-> IF w[i] \in TopLevel THEN AnalyzeSections(set)[w[i]] ELSE <<>>]
           Hs == [i \in 1..n |-> IF w[i] \in TopLevel THEN Heads(set, Group[w[i]]) ELSE {}]
           S == Seq(SpineCells(set))
           spine == Spine(set)
<1>1. TopLevel \subseteq Loops
  BY DEF TopLevel
<1>2. ASSUME NEW i \in 1..n PROVE Lists(seqs[i], Hs[i], spine)
  <2>1. CASE w[i] \in TopLevel
    <3> DEFINE k == w[i]
    <3>1. k \in TopLevel /\ k \in Loops
      BY <1>1, <2>1
    <3>2. seqs[i] = AnalyzeSections(set)[k] /\ Hs[i] = Heads(set, Group[k])
      BY <2>1
    <3> HIDE DEF k, seqs, Hs
    <3>3. Begins(set, k)
      <4>1. ASSUME NEW q \in Loops, kids[q] = <<k>> PROVE FALSE
        <5>1. k \in ToSet(kids[q])
          BY <4>1 DEF ToSet
        <5>2. QED BY <3>1, <5>1 DEF TopLevel
      <4>2. QED BY <4>1 DEF Begins
    <3>4. Lists(Rest(set, k), Heads(set, Group[k] \ {k}), Spine(set))
      BY <3>1, RestLists
    <3>5. QED BY <3>1, <3>2, <3>3, <3>4, FoundLists
  <2>2. CASE w[i] \notin TopLevel
    <3>1. seqs[i] = <<>> /\ Hs[i] = {}
      BY <2>2
    <3>2. QED BY <3>1, ListsNone
  <2>3. QED BY <2>1, <2>2
<1>3. ASSUME NEW i \in 1..n, NEW j \in 1..n, i # j PROVE Hs[i] \cap Hs[j] = {}
  <2>1. CASE w[i] \in TopLevel /\ w[j] \in TopLevel
    <3> DEFINE a == w[i]
               b == w[j]
    <3>1. a \in TopLevel /\ b \in TopLevel /\ a # b
      BY <1>3, <2>1
    <3>2. Hs[i] \subseteq Group[a] /\ Hs[j] \subseteq Group[b]
      BY <2>1 DEF Heads
    <3> HIDE DEF a, b
    <3>3. Group[a] \cap Group[b] = {}
      BY <3>1, TopsApart
    <3>4. QED BY <3>2, <3>3
  <2>2. CASE ~(w[i] \in TopLevel /\ w[j] \in TopLevel)
    BY <2>2
  <2>3. QED BY <2>1, <2>2
<1>4. n \in Nat /\ Flat(seqs, n, S)
  <2>1. n \in Nat
    OBVIOUS
  <2>2. \A i \in 1..n : seqs[i] \in Seq(S)
    <3>1. <<>> \in Seq(S)
      OBVIOUS
    <3>2. \A l \in TopLevel : AnalyzeSections(set)[l] \in Seq(S)
      BY <1>1, SectionsAre
    <3> HIDE DEF S
    <3>3. QED BY <3>1, <3>2
  <2> HIDE DEF S
  <2>3. QED BY <2>1, <2>2 DEF Flat
<1>5. UNION {Hs[i] : i \in 1..n} = Heads(set, Loops)
  <2>1. ASSUME NEW h \in Heads(set, Loops) PROVE h \in UNION {Hs[i] : i \in 1..n}
    <3>1. h \in Loops /\ Len(Spine(set)[h]) >= 2 /\ Begins(set, h)
      BY DEF Heads
    <3>2. PICK t \in TopLevel : h \in Group[t]
      BY <3>1, TopsCover
    <3>3. PICK i \in DOMAIN w : w[i] = t
      BY <1>1, <3>2 DEF ToSet
    <3>4. i \in 1..n /\ Hs[i] = Heads(set, Group[t])
      BY <3>2, <3>3
    <3>5. h \in Heads(set, Group[t])
      BY <3>1, <3>2 DEF Heads
    <3> HIDE DEF n, Hs
    <3>6. QED BY <3>4, <3>5
  <2>2. ASSUME NEW i \in 1..n, NEW h \in Hs[i] PROVE h \in Heads(set, Loops)
    <3>1. w[i] \in TopLevel /\ h \in Heads(set, Group[w[i]])
      BY <2>2
    <3>2. Group[w[i]] \subseteq Loops
      BY <1>1, <3>1, GroupIs
    <3>3. QED BY <3>1, <3>2 DEF Heads
  <2> HIDE DEF Hs, n
  <2>3. QED BY <2>1, <2>2
<1>6. Transforms(AnalyzeSections(set), w, TopLevel) = FlattenSeq(seqs)
  BY DEF Transforms
<1> HIDE DEF n, seqs, Hs, S, spine
<1>7. Lists(FlattenSeq(seqs), UNION {Hs[i] : i \in 1..n}, spine)
  BY <1>2, <1>3, <1>4, ListsFlat
<1>8. QED BY <1>5, <1>6, <1>7 DEF spine

\* The loops of a spine.
Chain(s) == [i \in 1..Len(s) |-> s[i][1]]

\* A spine that begins a group is a maximal nest ...
LEMMA SpineIsNest ==
  ASSUME NEW depth, Forest(depth), NEW set, NEW h \in Heads(set, Loops)
  PROVE  Chain(Spine(set)[h]) \in MaximalNests(set) /\ Chain(Spine(set)[h])[1] = h
<1> DEFINE s == Spine(set)[h]
           n == Len(s)
           p == Chain(s)
<1>1. h \in Loops /\ n >= 2 /\ Begins(set, h)
  BY DEF Heads
<1>2. SpineOf(set, depth, h, s)
  BY <1>1, SpineShape
<1> HIDE DEF s
<1>3. /\ s \in Seq(SpineCells(set)) /\ s[1][1] = h /\ depth[h] + n <= Cardinality(Loops) + 1
      /\ \A i \in 1..n : s[i][1] \in Loops /\ set[s[i][1]].Section # {}
      /\ \A i \in 1..(n - 1) : kids[s[i][1]] = <<s[i + 1][1]>>
      /\ \A k : kids[s[n][1]] = <<k>> => set[k].Section = {}
  <2>1. s \in Seq(SpineCells(set))
    BY <1>2 DEF SpineOf
  <2>2. Len(s) # 0
    BY <1>1, <2>1
  <2>3. QED BY <1>2, <2>1, <2>2 DEF SpineOf
<1>4. n \in Nat /\ n \in 2..Cardinality(Loops)
  <2>1. n \in Nat /\ Cardinality(Loops) \in Nat
    BY <1>3, FS_CardinalityType DEF Forest
  <2>2. depth[h] \in 1..Cardinality(Loops)
    BY <1>1 DEF Forest
  <2> HIDE DEF n
  <2>3. QED BY <1>1, <1>3, <2>1, <2>2
<1> HIDE DEF n
<1>5. p \in [1..n -> Loops] /\ \A i \in 1..n : p[i] = s[i][1]
  <2>1. p = [i \in 1..n |-> s[i][1]]
    BY DEF Chain, n
  <2> HIDE DEF p
  <2>2. QED BY <1>3, <2>1
<1> HIDE DEF p
<1>6. p \in Seq(Loops) /\ Len(p) = n
  BY <1>4, <1>5
<1>7. IsNest(set, p)
  <2>1. \A i \in 1..n : set[p[i]].Section # {}
    BY <1>3, <1>5
  <2>2. ASSUME NEW i \in 1..(n - 1) PROVE kids[p[i]] = <<p[i + 1]>>
    <3>1. i \in 1..n /\ i + 1 \in 1..n
      BY <1>4
    <3>2. QED BY <1>3, <1>5, <3>1
  <2>3. QED BY <1>6, <2>1, <2>2 DEF IsNest
<1>8. ASSUME NEW l \in Loops, IsNest(set, <<l>> \o p) PROVE FALSE
  <2> DEFINE r == <<l>> \o p
  <2>1. Len(r) = n + 1 /\ r[1] = l /\ \A i \in 1..n : r[i + 1] = p[i]
    BY <1>6, Consed
  <2>2. IsNest(set, r)
    BY <1>8
  <2> HIDE DEF r
  <2>3. 1 \in 1..Len(r) /\ 1 \in 1..(Len(r) - 1) /\ 1 \in 1..n /\ 1 + 1 = 2
    BY <1>4, <2>1
  <2>4. set[r[1]].Section # {} /\ kids[r[1]] = <<r[2]>>
    BY <2>2, <2>3 DEF IsNest
  <2>5. r[2] = h
    <3>1. r[1 + 1] = p[1]
      BY <2>1, <2>3
    <3>2. p[1] = h
      BY <1>3, <1>5, <2>3
    <3>3. QED BY <2>3, <3>1, <3>2
  <2>6. QED BY <1>1, <2>1, <2>4, <2>5 DEF Begins
<1>9. ASSUME NEW l \in Loops, IsNest(set, Append(p, l)) PROVE FALSE
  <2> DEFINE r == Append(p, l)
  <2>1. Len(r) = n + 1 /\ r[n + 1] = l /\ r[n] = p[n]
    BY <1>4, <1>6
  <2>2. IsNest(set, r)
    BY <1>9
  <2> HIDE DEF r
  <2>3. n + 1 \in 1..Len(r) /\ n \in 1..(Len(r) - 1) /\ n \in 1..n
    BY <1>4, <2>1
  <2>4. set[r[n + 1]].Section # {} /\ kids[r[n]] = <<r[n + 1]>>
    BY <2>2, <2>3 DEF IsNest
  <2>5. p[n] = s[n][1]
    BY <1>5, <2>3
  <2>6. QED BY <1>3, <2>1, <2>4, <2>5
<1>10. p \in MaximalNests(set)
  <2>1. p \in UNION {[1..m -> Loops] : m \in 2..Cardinality(Loops)}
    BY <1>4, <1>5
  <2>2. \A l \in Loops : ~IsNest(set, <<l>> \o p) /\ ~IsNest(set, Append(p, l))
    BY <1>8, <1>9
  <2>3. QED BY <1>7, <2>1, <2>2 DEF MaximalNests
<1>11. p[1] = h
  BY <1>3, <1>4, <1>5
<1>12. QED BY <1>10, <1>11 DEF p, s

\* ... and there are no others.
LEMMA NestIsSpine ==
  ASSUME NEW depth, Forest(depth), NEW set, NEW p \in MaximalNests(set)
  PROVE  p[1] \in Heads(set, Loops) /\ p = Chain(Spine(set)[p[1]])
<1>1. PICK n \in 2..Cardinality(Loops) : p \in [1..n -> Loops]
  BY DEF MaximalNests
<1>2. /\ IsNest(set, p)
      /\ \A l \in Loops : ~IsNest(set, <<l>> \o p) /\ ~IsNest(set, Append(p, l))
  BY DEF MaximalNests
<1>3. n \in Nat /\ n >= 2 /\ p \in Seq(Loops) /\ Len(p) = n
  <2>1. Cardinality(Loops) \in Nat
    BY FS_CardinalityType DEF Forest
  <2>2. n \in Nat /\ n >= 2
    BY <2>1
  <2>3. QED BY <1>1, <2>2
<1>4. /\ \A i \in 1..n : p[i] \in Loops /\ set[p[i]].Section # {}
      /\ \A i \in 1..(n - 1) : kids[p[i]] = <<p[i + 1]>>
  BY <1>1, <1>2, <1>3 DEF IsNest
<1> DEFINE h == p[1]
           s == Spine(set)[h]
           m == Len(s)
<1>5. h \in Loops /\ set[h].Section # {}
  BY <1>3, <1>4
<1> HIDE DEF h
<1>6. SpineOf(set, depth, h, s)
  BY <1>5, SpineShape
<1> HIDE DEF s
<1>7. m \in Nat /\ m # 0
  BY <1>5, <1>6 DEF SpineOf
<1>8. /\ s[1][1] = h
      /\ \A i \in 1..m : s[i][1] \in Loops /\ set[s[i][1]].Section # {}
      /\ \A i \in 1..(m - 1) : kids[s[i][1]] = <<s[i + 1][1]>>
      /\ \A k : kids[s[m][1]] = <<k>> => set[k].Section = {}
  BY <1>6, <1>7 DEF SpineOf
<1> HIDE DEF m
<1> DEFINE A == {i \in 0..n : i = 0 \/ (i <= m /\ s[i][1] = p[i])}
<1>9. 0 \in A
  BY <1>3
<1>10. ASSUME NEW i \in 0..(n - 1), i \in A PROVE i + 1 \in A
  <2>1. i \in Nat /\ i + 1 \in 0..n /\ i + 1 \in 1..n
    BY <1>3
  <2>2. CASE i = 0
    <3>1. s[i + 1][1] = p[i + 1] /\ i + 1 <= m
      BY <1>7, <1>8, <2>2 DEF h
    <3>2. QED BY <2>1, <3>1
  <2>3. CASE i # 0
    <3>1. i <= m /\ s[i][1] = p[i] /\ i \in 1..(n - 1)
      BY <1>3, <1>10, <2>1, <2>3
    <3>2. kids[p[i]] = <<p[i + 1]>> /\ set[p[i + 1]].Section # {}
      BY <1>4, <2>1, <3>1
    <3>3. i # m
      BY <1>8, <3>1, <3>2
    <3>4. i \in 1..(m - 1) /\ i + 1 <= m
      BY <1>7, <2>1, <2>3, <3>1, <3>3
    <3>5. kids[s[i][1]] = <<s[i + 1][1]>>
      BY <1>8, <3>4
    <3>6. s[i + 1][1] = p[i + 1]
      <4> DEFINE x == s[i + 1][1]
                 y == p[i + 1]
      <4>1. <<x>> = <<y>>
        BY <3>1, <3>2, <3>5
      <4> HIDE DEF x, y
      <4>2. x = y
        BY <4>1
      <4>3. QED BY <4>2 DEF x, y
    <3>7. QED BY <2>1, <3>4, <3>6
  <2>4. QED BY <2>2, <2>3
<1>11. \A i \in 0..n : i \in A
  <2> HIDE DEF A
  <2>1. QED BY <1>3, <1>9, <1>10, UpTo
<1>12. n <= m /\ \A i \in 1..n : s[i][1] = p[i]
  <2>1. \A i \in 1..n : i \in 0..n /\ i # 0
    BY <1>3
  <2>2. \A i \in 1..n : i <= m /\ s[i][1] = p[i]
    BY <1>11, <2>1
  <2>3. n \in 1..n
    BY <1>3
  <2>4. QED BY <2>2, <2>3
<1>13. n = m
  <2>1. SUFFICES ASSUME n < m PROVE FALSE
    BY <1>3, <1>7, <1>12
  <2> DEFINE l == s[n + 1][1]
             r == Append(p, l)
  <2>2. n + 1 \in 1..m /\ n \in 1..(m - 1) /\ n \in 1..n
    BY <1>3, <1>7, <2>1
  <2>3. l \in Loops /\ set[l].Section # {} /\ kids[p[n]] = <<l>>
    BY <1>8, <1>12, <2>2
  <2> HIDE DEF l
  <2>4. Len(r) = n + 1 /\ r[n + 1] = l /\ \A i \in 1..n : r[i] = p[i]
    BY <1>3, <2>3
  <2> HIDE DEF r
  <2>5. ASSUME NEW i \in 1..(n + 1) PROVE set[r[i]].Section # {}
    <3>1. i = n + 1 \/ i \in 1..n
      BY <1>3
    <3>2. QED BY <1>4, <2>3, <2>4, <3>1
  <2>6. ASSUME NEW i \in 1..n PROVE kids[r[i]] = <<r[i + 1]>>
    <3>1. CASE i = n
      BY <2>3, <2>4, <3>1
    <3>2. CASE i # n
      <4>1. i \in 1..(n - 1) /\ i + 1 \in 1..n
        BY <1>3, <3>2
      <4>2. QED BY <1>4, <2>4, <4>1
    <3>3. QED BY <3>1, <3>2
  <2>7. (n + 1) - 1 = n
    BY <1>3
  <2>8. IsNest(set, r)
    BY <2>4, <2>5, <2>6, <2>7 DEF IsNest
  <2>9. QED BY <1>2, <2>3, <2>8 DEF r
<1>14. Begins(set, h)
  <2>1. SUFFICES ASSUME NEW l \in Loops, kids[l] = <<h>>, set[l].Section # {} PROVE FALSE
    BY DEF Begins
  <2> DEFINE r == <<l>> \o p
  <2>2. Len(r) = n + 1 /\ r[1] = l /\ \A i \in 1..n : r[i + 1] = p[i]
    BY <1>3, Consed
  <2> HIDE DEF r
  <2>3. ASSUME NEW i \in 1..(n + 1) PROVE i = 1 \/ (i - 1 \in 1..n /\ r[i] = p[i - 1])
    <3>1. CASE i # 1
      <4>1. i - 1 \in 1..n /\ (i - 1) + 1 = i
        BY <1>3, <3>1
      <4>2. QED BY <2>2, <4>1
    <3>2. QED BY <3>1
  <2>4. ASSUME NEW i \in 1..(n + 1) PROVE set[r[i]].Section # {}
    BY <1>4, <2>1, <2>2, <2>3
  <2>5. ASSUME NEW i \in 1..n PROVE kids[r[i]] = <<r[i + 1]>>
    <3>1. i \in 1..(n + 1) /\ r[i + 1] = p[i]
      BY <1>3, <2>2
    <3>2. CASE i = 1
      BY <2>1, <2>2, <3>1, <3>2 DEF h
    <3>3. CASE i # 1
      <4>1. i - 1 \in 1..(n - 1) /\ (i - 1) + 1 = i
        BY <1>3, <3>3
      <4>2. kids[p[i - 1]] = <<p[(i - 1) + 1]>>
        BY <1>4, <4>1
      <4>3. r[i] = p[i - 1]
        BY <2>3, <3>1, <3>3
      <4>4. QED BY <3>1, <4>1, <4>2, <4>3
    <3>4. QED BY <3>2, <3>3
  <2>6. (n + 1) - 1 = n
    BY <1>3
  <2>7. IsNest(set, r)
    BY <2>2, <2>4, <2>5, <2>6 DEF IsNest
  <2>8. QED BY <1>2, <2>7 DEF r
<1>15. p[1] \in Heads(set, Loops)
  <2>1. m >= 2
    BY <1>3, <1>13
  <2>2. QED BY <1>5, <1>14, <2>1 DEF Heads, h, m, s
<1>16. p = Chain(s)
  <2>1. Chain(s) = [i \in 1..n |-> s[i][1]]
    BY <1>13 DEF Chain, m
  <2>2. p = [i \in 1..n |-> p[i]]
    BY <1>1
  <2>3. QED BY <1>12, <2>1, <2>2
<1>17. QED BY <1>15, <1>16 DEF s, h

\* What ModuleMatches says of a module: m and g are its metadata and its groups.
Matches(set, m, g) ==
  /\ \A l \in Loops : SaysSetting(m[l], SourceMD[l], set[l])
  /\ Len(g) = Cardinality(MaximalNests(set))
  /\ \A p \in MaximalNests(set) : \E x \in ToSet(g) :
       /\ Len(x) = Len(p)
       /\ \A i \in 1..Len(p) : x[i][1] = p[i] /\ set[p[i]].Section = {x[i][2]}

\* Sequences that list the spines where groups begin are the maximal nests.
LEMMA ListedNests ==
  ASSUME NEW depth, Forest(depth), NEW set, NEW g \in Seq(Seq(SpineCells(set))),
         Lists(g, Heads(set, Loops), Spine(set)),
         \A l \in Loops : Unset(set[l].Section) \/ Single(set[l].Section)
  PROVE  /\ Len(g) = Cardinality(MaximalNests(set))
         /\ \A p \in MaximalNests(set) : \E x \in ToSet(g) :
              /\ Len(x) = Len(p)
              /\ \A i \in 1..Len(p) : x[i][1] = p[i] /\ set[p[i]].Section = {x[i][2]}
<1> DEFINE n == Len(g)
           spine == Spine(set)
           H == Heads(set, Loops)
           M == MaximalNests(set)
<1>1. n \in Nat
  OBVIOUS
<1>2. PICK at : ListsAs(g, n, H, spine, at)
  BY DEF Lists
<1>3. /\ at \in [1..n -> H] /\ \A x \in H : \E i \in 1..n : at[i] = x
      /\ \A i, j \in 1..n : at[i] = at[j] => i = j
      /\ \A i \in 1..n : g[i] = spine[at[i]]
  BY <1>2 DEF ListsAs
<1>4. \A h \in H : Chain(spine[h]) \in M /\ Chain(spine[h])[1] = h
  BY SpineIsNest
<1>5. \A p \in M : p[1] \in H /\ p = Chain(spine[p[1]])
  BY NestIsSpine
<1>6. H \subseteq Loops
  BY DEF Heads
<1> HIDE DEF H, M
<1>7. n = Cardinality(M)
  <2> DEFINE f == [i \in 1..n |-> Chain(spine[at[i]])]
  <2>1. f \in [1..n -> M]
    BY <1>3, <1>4
  <2>2. ASSUME NEW i \in 1..n, NEW j \in 1..n, f[i] = f[j] PROVE i = j
    <3>1. at[i] \in H /\ at[j] \in H
      BY <1>3
    <3>2. f[i][1] = at[i] /\ f[j][1] = at[j]
      BY <1>4, <3>1
    <3> HIDE DEF f
    <3>3. QED BY <1>3, <2>2, <3>2
  <2>3. ASSUME NEW p \in M PROVE \E i \in 1..n : f[i] = p
    <3>1. PICK i \in 1..n : at[i] = p[1]
      BY <1>3, <1>5
    <3>2. f[i] = p
      BY <1>5, <3>1
    <3>3. QED BY <3>2
  <2> HIDE DEF f, n
  <2>4. f \in Bijection(1..n, M)
    BY <2>1, <2>2, <2>3 DEF Bijection, Injection, Surjection, IsInjective
  <2>5. ExistsBijection(1..n, M)
    BY <2>4 DEF ExistsBijection
  <2>6. QED BY <1>1, <2>5, FS_CountingElements
<1>8. ASSUME NEW p \in M
      PROVE  \E x \in ToSet(g) : /\ Len(x) = Len(p)
                                 /\ \A i \in 1..Len(p) : x[i][1] = p[i] /\ set[p[i]].Section = {x[i][2]}
  <2> DEFINE h == p[1]
             x == spine[h]
  <2>1. h \in H /\ h \in Loops
    BY <1>5, <1>6
  <2>2. p = [i \in 1..Len(x) |-> x[i][1]]
    BY <1>5 DEF Chain
  <2> HIDE DEF h
  <2>3. SpineOf(set, depth, h, x)
    BY <2>1, SpineShape
  <2>4. x \in ToSet(g)
    <3>1. PICK i \in 1..n : at[i] = h
      BY <1>3, <2>1
    <3>2. g[i] = x
      BY <1>3, <3>1
    <3>3. QED BY <3>2 DEF ToSet
  <2> HIDE DEF x
  <2>5. /\ x \in Seq(SpineCells(set))
        /\ \A i \in 1..Len(x) : x[i][1] \in Loops /\ set[x[i][1]].Section # {} /\ x[i][2] = The(set[x[i][1]].Section)
    BY <2>3 DEF SpineOf
  <2>6. Len(p) = Len(x) /\ \A i \in 1..Len(x) : p[i] = x[i][1]
    <3>1. Len(x) \in Nat
      BY <2>5
    <3>2. QED BY <2>2, <3>1
  <2>7. ASSUME NEW i \in 1..Len(x) PROVE set[p[i]].Section = {x[i][2]}
    <3> DEFINE o == set[p[i]].Section
    <3>1. o # {} /\ x[i][2] = The(o) /\ (Unset(o) \/ Single(o))
      BY <2>5, <2>6
    <3> HIDE DEF o
    <3>2. PICK v : o = {v}
      BY <3>1 DEF Unset, Single
    <3>3. The(o) = v
      BY <3>2 DEF The
    <3>4. QED BY <3>1, <3>2, <3>3 DEF o
  <2>8. QED BY <2>4, <2>6, <2>7
<1>9. QED BY <1>7, <1>8 DEF M

\* What applying a configuration makes of a module matches it.
LEMMA AdjustedMatches ==
  ASSUME kids \in Nests, walk \in Walks, NEW set, \A l \in Loops : Usable(set[l])
  PROVE  Matches(set, Adjusted(set, walk).md, Adjusted(set, walk).groups)
<1> DEFINE applied == {id \in ToSet(walk) : Applies(id)}
           adjusted == UNION {Group[l] : l \in applied}
           m == [l \in Loops |-> IF l \in adjusted THEN AddToLoopMD(SourceMD[l], set[l]) ELSE SourceMD[l]]
           g == Transforms(AnalyzeSections(set), walk, applied)
<1>1. PICK depth : Forest(depth)
  BY NestIsForest
<1>2. Adjusted(set, walk).md = m /\ Adjusted(set, walk).groups = g
  BY DEF Adjusted
<1>3. /\ walk \in Seq(Nat) /\ Loops \subseteq ToSet(walk)
      /\ \A i, j \in DOMAIN walk : i # j => walk[i] # walk[j]
  BY KnobAssumption DEF Loops
<1>4. applied = TopLevel
  BY <1>3 DEF Applies, TopLevel
<1>5. Loops \subseteq adjusted
  BY <1>1, <1>4, TopsCover
<1>6. ASSUME NEW l \in Loops PROVE SaysSetting(m[l], SourceMD[l], set[l])
  <2>1. m[l] = AddToLoopMD(SourceMD[l], set[l])
    BY <1>5
  <2> HIDE DEF m
  <2>2. QED BY <2>1, MetadataSays
<1> HIDE DEF m, g, applied, adjusted
<1>7. Lists(g, Heads(set, Loops), Spine(set))
  BY <1>1, <1>3, <1>4, TransformsList DEF g
<1>8. g \in Seq(Seq(SpineCells(set)))
  <2> DEFINE S == Seq(SpineCells(set))
             seqs == [i \in 1..Len(walk) |-> IF walk[i] \in TopLevel THEN AnalyzeSections(set)[walk[i]] ELSE <<>>]
  <2>1. g = FlattenSeq(seqs)
    BY <1>4 DEF g, Transforms
  <2>2. Len(walk) \in Nat
    BY <1>3
  <2> DEFINE n == Len(walk)
  <2> HIDE DEF n
  <2>3. \A i \in 1..n : seqs[i] \in Seq(S)
    <3>1. <<>> \in Seq(S)
      OBVIOUS
    <3>2. \A l \in TopLevel : AnalyzeSections(set)[l] \in Seq(S)
      BY <1>1, SectionsAre DEF TopLevel
    <3> HIDE DEF S
    <3>3. QED BY <3>1, <3>2 DEF n
  <2>4. seqs = [i \in 1..n |-> seqs[i]]
    BY DEF n
  <2> HIDE DEF seqs, S
  <2>5. Flat(seqs, n, S)
    BY <2>3, <2>4 DEF Flat
  <2>6. PICK f : JoinsUpTo(seqs, n, S, f) /\ FlattenSeq(seqs) = f[n]
    BY <2>2, <2>5, Flattened DEF n
  <2>7. n \in 0..n
    BY <2>2 DEF n
  <2>8. f[n] \in Seq(S)
    BY <2>6, <2>7 DEF JoinsUpTo
  <2>9. QED BY <2>1, <2>6, <2>8 DEF S
<1>9. \A l \in Loops : Unset(set[l].Section) \/ Single(set[l].Section)
  BY DEF Usable, OptionNames
<1>10. Matches(set, m, g)
  BY <1>1, <1>6, <1>7, <1>8, <1>9, ListedNests DEF Matches
<1>11. QED BY <1>2, <1>10

Matched == Configured => Matches(conf.LoopConfig, md, groups)

\* A module matches or not by its loops, and the rest of what Matches takes.
LEMMA SameMatches ==
  ASSUME UNCHANGED kids, NEW set, NEW m, NEW g
  PROVE  Matches(set, m, g)' <=> Matches(set, m, g)
<1>1. Loops' = Loops
  BY DEF Loops
<1>2. \A p : IsNest(set, p)' <=> IsNest(set, p)
  BY DEF IsNest
<1>3. MaximalNests(set)' = MaximalNests(set)
  BY <1>1, <1>2 DEF MaximalNests
<1>4. QED BY <1>1, <1>3 DEF Matches

\* A job's module matches its configuration.
LEMMA JobMatches ==
  ASSUME Tuned, Tuned', walk # <<>>, NEW c, Job(c)
  PROVE  Matched'
<1>1. PICK s, m, g : s = c.LoopConfig /\ m = Adjusted(s, walk).md /\ g = Adjusted(s, walk).groups
  OBVIOUS
<1>2. conf' = c /\ kids' = kids /\ md' = m /\ groups' = g
  BY <1>1 DEF Job, ApplyConfig
<1>3. SUFFICES ASSUME Configured' PROVE Matches(s, m, g)'
  BY <1>1, <1>2 DEF Matched
<1>4. \A l \in Loops : Usable(s[l])
  <2>1. LegalConf'
    BY <1>3 DEF Tuned
  <2>2. Loops' = Loops
    BY <1>2 DEF Loops
  <2>3. QED BY <1>1, <1>2, <2>1, <2>2 DEF LegalConf
<1>5. kids \in Nests /\ walk \in Walks
  BY DEF Tuned
<1>6. Matches(s, m, g)
  BY <1>1, <1>4, <1>5, AdjustedMatches
<1>7. QED BY <1>2, <1>6, SameMatches

LEMMA MatchedStep == Tuned /\ Matched /\ [Next]_vars => Matched'
<1> SUFFICES ASSUME Tuned, Matched, [Next]_vars PROVE Matched'
  OBVIOUS
<1>1. Tuned'
  BY TunedStep
<1>2. CASE UNCHANGED <<conf, kids, md, groups>>
  <2>1. PICK s, m, g : s = conf.LoopConfig /\ m = md /\ g = groups
    OBVIOUS
  <2>2. Matches(s, m, g)' <=> Matches(s, m, g)
    BY <1>2, SameMatches
  <2>3. conf'.LoopConfig = s /\ md' = m /\ groups' = g
    BY <1>2, <2>1
  <2>4. Configured' <=> Configured
    BY <1>2 DEF Configured
  <2>5. QED BY <2>1, <2>2, <2>3, <2>4 DEF Matched
<1>3. CASE Analyze
  BY <1>2, <1>3 DEF Analyze
<1>4. CASE Default
  BY <1>1, <1>4, JobMatches DEF Default
<1>5. CASE Random
  <2>1. walk # <<>> /\ \E c \in GenRandomConfigs : Job(c)
    BY <1>5 DEF Random
  <2>2. QED BY <1>1, <2>1, JobMatches
<1>6. CASE Perturb
  <2>1. walk # <<>>
    BY <1>6 DEF Perturb, Configured, Tuned
  <2>2. PICK e \in Energies : \E pick \in Picks(e) : \E c \in GenNearbyConfigs(pick, e) : Job(c)
    BY <1>6 DEF Perturb
  <2>3. \E c : Job(c)
    BY <2>2
  <2>4. QED BY <1>1, <2>1, <2>3, JobMatches
<1>7. CASE Export
  BY <1>2, <1>7 DEF Export
<1>8. CASE UNCHANGED vars
  BY <1>2, <1>8 DEF vars
<1>9. QED BY <1>3, <1>4, <1>5, <1>6, <1>7, <1>8 DEF Next

\* For every forest of loops, every setting of their knobs and every order in which the maps
\* of the knob set are walked: after each job, every loop's metadata says what its setting
\* says and what the source says for the rest, and the function has exactly one group for
\* each maximal nest of two or more sectioned loops, with the sections of their settings.
THEOREM ModulesMatch == Spec => []ModuleMatches
<1>1. Init => Tuned /\ Matched
  BY DEF Init, Tuned, Matched, Configured
<1>2. Tuned /\ Matched /\ [Next]_vars => (Tuned /\ Matched)'
  BY TunedStep, MatchedStep
<1>3. Matched => ModuleMatches
  BY DEF Matched, Matches, ModuleMatches
<1>4. QED BY <1>1, <1>2, <1>3, PTL DEF Spec
================================================================================
