---------------------------- MODULE LoopSettings ----------------------------
(***************************************************************************)
(* tuner::LoopSetting: the optional hints a loop knob holds, how they are  *)
(* generated and moved, and the metadata they become.                      *)
(*                                                                         *)
(* A std::optional is the set of its value, or {}; true is 1 and false 0.  *)
(* Generators are the sets of what they may return: their distributions    *)
(* are left out, but for a standard deviation of zero, which returns the   *)
(* mean.                                                                   *)
(***************************************************************************)
EXTENDS Integers, FiniteSets, Sequences

CONSTANTS
  UNROLL_CNT_MAX, VEC_WIDTH_MAX, INTRLV_COUNT_MAX, \* exponents of two
  SECTION_SIZE_MAX,
  POLLY_KNOBS                                      \* built with Polly

ASSUME LoopAssumption ==
  /\ UNROLL_CNT_MAX \in 1..15 /\ VEC_WIDTH_MAX \in 0..15 /\ INTRLV_COUNT_MAX \in 0..15
  /\ SECTION_SIZE_MAX \in 2..128
  /\ POLLY_KNOBS \in BOOLEAN

\* The options, in the order flatten() writes them.
Options ==
  <<"VectorizeWidth", "InterleaveCount", "UnrollDisable", "UnrollFull", "UnrollCount",
    "LICMVerDisable", "Distribute">> \o IF POLLY_KNOBS THEN <<"Section">> ELSE <<>>

Empty == [o \in {Options[i] : i \in 1..Len(Options)} \cup {"Section"} |-> {}]

The(opt) == CHOOSE v \in opt : TRUE

-----------------------------------------------------------------------------
(* Settings as integers.                                                    *)

\* The number of bits of val - 1 below the 16th.
Pow2Bit(val) ==
  IF val = 1 THEN 0 ELSE Cardinality({b \in 0..15 : ((val - 1) \div 2^b) % 2 = 1})

UNROLL_MISSING == 0
UNROLL_FULL    == UNROLL_CNT_MAX + 1
VEC_MISSING    == VEC_WIDTH_MAX + 1
INTRLV_MISSING == INTRLV_COUNT_MAX + 1
FLAG_MISSING   == 1
SECTION_MISSING == 1

UnrollAsInt(LS) ==
  IF LS.UnrollDisable # {} THEN UNROLL_MISSING - 1
  ELSE IF LS.UnrollFull # {} THEN UNROLL_FULL
  ELSE IF LS.UnrollCount # {} THEN Pow2Bit(The(LS.UnrollCount))
  ELSE UNROLL_MISSING

HintAsInt(opt, missing) == IF opt = {} THEN missing ELSE Pow2Bit(The(opt))
BoolOptAsInt(opt)       == IF opt = {} THEN FLAG_MISSING ELSE 2 * The(opt)
SectionAsInt(opt)       == IF opt = {} THEN SECTION_MISSING ELSE The(opt)

\* Seeded fault in SetUnroll: an option set before stays set.
SetUnrollKeeps(LS, v) ==
  [LS EXCEPT !.UnrollFull = IF v = UNROLL_FULL THEN {1} ELSE @,
             !.UnrollCount = IF v \in 1..UNROLL_CNT_MAX THEN {2^v} ELSE @]

SetUnroll(LS, v) ==
  [LS EXCEPT !.UnrollDisable = {},
             !.UnrollFull = IF v = UNROLL_FULL THEN {1} ELSE {},
             !.UnrollCount = IF v \in 1..UNROLL_CNT_MAX THEN {2^v} ELSE {}]

Hint(v, missing) == IF v = missing THEN {} ELSE {2^v}

\* Any value but the missing one sets the flag.
BoolOpt(v) == IF v = FLAG_MISSING THEN {} ELSE {1}

Section(v) == IF v = SECTION_MISSING THEN {} ELSE {v}

-----------------------------------------------------------------------------
(* Generators.                                                              *)

\* nearbyInt(): both products are truncated to int; without a deviation cur is the answer.
Nearby(cur, min, max, energy) ==
  LET stdDev == (((max - min) * energy) \div 100) \div 2
  IN  IF stdDev = 0
        THEN {IF cur < min THEN min ELSE IF cur > max THEN max ELSE cur}
        ELSE min..max

\* A setting from one value for each of its options.
Adjust(LS, unroll, vec, interleave, distribute, licm, section) ==
  [SetUnroll(LS, unroll) EXCEPT
     !.VectorizeWidth  = Hint(vec, VEC_MISSING),
     !.InterleaveCount = Hint(interleave, INTRLV_MISSING),
     !.Distribute      = BoolOpt(distribute),
     !.LICMVerDisable  = BoolOpt(licm),
     !.Section         = IF POLLY_KNOBS THEN Section(section) ELSE @]

Sections == IF POLLY_KNOBS THEN SECTION_MISSING..SECTION_SIZE_MAX ELSE {SECTION_MISSING}

GenNearbyLoopSetting(LS, e) ==
  { Adjust(LS, u, v, i, d, l, s) :
      u \in Nearby(UnrollAsInt(LS), UNROLL_MISSING, UNROLL_FULL, e),
      v \in Nearby(HintAsInt(LS.VectorizeWidth, VEC_MISSING), 0, VEC_MISSING, e),
      i \in Nearby(HintAsInt(LS.InterleaveCount, INTRLV_MISSING), 0, INTRLV_MISSING, e),
      d \in Nearby(BoolOptAsInt(LS.Distribute), 0, 2, e),
      l \in Nearby(BoolOptAsInt(LS.LICMVerDisable), 0, 2, e),
      s \in IF POLLY_KNOBS
              THEN Nearby(SectionAsInt(LS.Section), SECTION_MISSING, SECTION_SIZE_MAX, e)
              ELSE Sections }

\* Every range holds the missing value, so the coin that skips an option adds nothing.
GenRandomLoopSetting ==
  { Adjust(Empty, u, v, i, d, l, s) :
      u \in UNROLL_MISSING..UNROLL_FULL, v \in 0..VEC_MISSING, i \in 0..INTRLV_MISSING,
      d \in 0..2, l \in 0..2, s \in Sections }

-----------------------------------------------------------------------------
(* Metadata: a function from the names of options to their values.          *)

PresenceOptions == {"UnrollDisable", "UnrollFull", "LICMVerDisable"}
IntOptions == {"UnrollCount", "VectorizeWidth", "InterleaveCount", "Distribute"}

\* updateLMD(), for every key of new and of gone: the keys do not depend on each other.
UpdateLMD(md, new, gone) ==
  [o \in (DOMAIN md \cup DOMAIN new) \ gone |-> IF o \in DOMAIN new THEN new[o] ELSE md[o]]

\* Options that are not set leave the metadata alone; a false presence option is deleted.
AddToLoopMD(md, LS) ==
  LET gone == {o \in PresenceOptions : LS[o] = {0}}
      set  == {o \in PresenceOptions \cup IntOptions : LS[o] # {}} \ gone
  IN  UpdateLMD(md, [o \in set |-> The(LS[o])], gone)

\* flatten(): the cells of a row.
Flatten(LS) == [i \in 1..Len(Options) |-> LS[Options[i]]]

-----------------------------------------------------------------------------
\* LoopSettingGen.cpp 33-34 and the comments at 10, 75, 108, 172: at most one unrolling
\* option, counts that are powers of two within their range, sections within theirs.
LegalSetting(LS) ==
  /\ Cardinality({o \in {"UnrollDisable", "UnrollFull", "UnrollCount"} : LS[o] # {}}) <= 1
  /\ LS.UnrollCount \subseteq {2^k : k \in 1..UNROLL_CNT_MAX}
  /\ LS.VectorizeWidth \subseteq {2^k : k \in 0..VEC_WIDTH_MAX}
  /\ LS.InterleaveCount \subseteq {2^k : k \in 0..INTRLV_COUNT_MAX}
  /\ LS.Section \subseteq 2..SECTION_SIZE_MAX
=============================================================================
