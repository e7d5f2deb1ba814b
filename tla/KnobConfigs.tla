----------------------------- MODULE KnobConfigs -----------------------------
(***************************************************************************)
(* The knobs of one tuner and the configurations it makes for them.        *)
(*                                                                         *)
(* The knob set holds scalar knobs from the start, and one knob per loop   *)
(* of the function once the first job has analyzed it.  Each job generates *)
(* a configuration, sets the knobs, and has them modify a fresh copy of    *)
(* the module: each loop gets its metadata, nests of sectioned loops       *)
(* become groups.  A configuration is exported as a row of a matrix, with  *)
(* a fixed number of columns for each knob.                                *)
(***************************************************************************)
EXTENDS LoopSettings, FiniteSetsExt, SequencesExt, TLC

CONSTANTS
  IntKnobs, \* the scalar knobs: [min, max, dflt] of each KnobID
  Nests,    \* the loop nests: the sub-loops of each loop; a loop goes by the ID of its knob
  SourceMD, \* the metadata of each loop in the source
  Walks,    \* orders in which the maps of the knob set may be walked, scalars first
  Energies, \* what perturbConfig() is called with
  Full,     \* bound: the loops all of whose settings are looked at ...
  Sample    \* ... and the settings looked at of the others

\* Every tuner has scalar knobs, KnobTicker starts at 1, and loops have knobs of their own.
\* Loops form trees: a loop is in one other at most, one level deeper.
ASSUME KnobAssumption ==
  /\ DOMAIN IntKnobs # {} /\ IsFiniteSet(DOMAIN IntKnobs) /\ DOMAIN IntKnobs \subseteq Nat \ {0}
  /\ \A id \in DOMAIN IntKnobs :
       /\ IntKnobs[id].min \in Int /\ IntKnobs[id].max \in Int
       /\ IntKnobs[id].dflt \in IntKnobs[id].min..IntKnobs[id].max
  /\ \A nest \in Nests :
       /\ IsFiniteSet(DOMAIN nest) /\ DOMAIN nest \subseteq Nat \ {0}
       /\ DOMAIN nest \cap DOMAIN IntKnobs = {}
       /\ nest \in [DOMAIN nest -> Seq(DOMAIN nest)]
       /\ \A p, q \in DOMAIN nest : \A i \in DOMAIN nest[p], j \in DOMAIN nest[q] :
            nest[p][i] = nest[q][j] => p = q /\ i = j
       /\ \E depth \in [DOMAIN nest -> 1..Cardinality(DOMAIN nest)] :
            \A p \in DOMAIN nest : \A i \in DOMAIN nest[p] : depth[nest[p][i]] = depth[p] + 1
       /\ \A w \in Walks :
            /\ w \in Seq(Nat) /\ ToSet(w) = DOMAIN IntKnobs \cup DOMAIN nest
            /\ \A i, j \in DOMAIN w : i # j => w[i] # w[j]

VARIABLES
  kids,      \* the nest of this module
  loopKnobs, \* the keys of KS_.LoopKnobs
  walk,      \* the order of the knob set's maps
  colToKnob, \* the knob of each column
  conf,      \* the configuration of the last job
  picked,    \* elmsKept of that job's perturbation
  md,        \* the module of that job: the metadata of its loops
  groups,    \* ... and the transforms of its function
  row        \* the row conf was exported to: a function of the columns written

vars == <<kids, loopKnobs, walk, colToKnob, conf, picked, md, groups, row>>

Loops    == DOMAIN kids
TopLevel == {l \in Loops : \A p \in Loops : l \notin ToSet(kids[p])}
KnobIDs  == DOMAIN IntKnobs \cup loopKnobs

Init ==
  /\ kids \in Nests
  /\ loopKnobs = {} /\ walk = <<>> /\ colToKnob = <<>>
  /\ conf = [IntConfig |-> <<>>, LoopConfig |-> <<>>]
  /\ picked = 0 /\ md = SourceMD /\ groups = <<>> /\ row = <<>>

-----------------------------------------------------------------------------
(* The first job's analysis: a knob for every loop, and columns for every   *)
(* knob.                                                                    *)

Size(id) == IF id \in Loops THEN Len(Options) ELSE 1

AssignToCols(w) == FlattenSeq([i \in 1..Len(w) |-> [k \in 1..Size(w[i]) |-> w[i]]])

Analyze ==
  /\ walk = <<>>
  /\ loopKnobs' = Loops
  /\ walk' \in Walks
  /\ colToKnob' = AssignToCols(walk')
  /\ UNCHANGED <<kids, conf, picked, md, groups, row>>

-----------------------------------------------------------------------------
(* Configurations.                                                          *)

\* The functions that take each id to one of its values: id after id, as the generators go.
Assignments(of) ==
  LET ids == SetToSeq(DOMAIN of)
      upTo[n \in 0..Len(ids)] ==
        IF n = 0 THEN {<<>>}
        ELSE {[id \in {ids[i] : i \in 1..n} |-> IF id = ids[n] THEN v ELSE f[id]] :
                f \in upTo[n - 1], v \in of[ids[n]]}
  IN  upTo[Len(ids)]

Looked(l, settings) == IF l \in Full THEN settings ELSE settings \cap Sample

GenDefaultConfig ==
  [IntConfig  |-> [id \in DOMAIN IntKnobs |-> IntKnobs[id].dflt],
   LoopConfig |-> [l \in loopKnobs |-> Empty]]

RandomInt(id) == IntKnobs[id].min..IntKnobs[id].max

GenRandomConfigs ==
  [IntConfig  : Assignments([id \in DOMAIN IntKnobs |-> RandomInt(id)]),
   LoopConfig : Assignments([l \in loopKnobs |-> Looked(l, GenRandomLoopSetting)])]

\* CollectIDs keeps this many of the sz knobs: the percentage is taken for a fraction.
ElmsKept(energy, sz) == energy * sz

\* The knobs that are perturbed.  Past the last one the code reads beyond its vector,
\* where it finds no ID of a knob, if it survives.
Picks(energy) ==
  LET kept == ElmsKept(energy, Cardinality(KnobIDs))
  IN  {p \in SUBSET KnobIDs : Cardinality(p) = kept \/ (kept > Cardinality(KnobIDs) /\ p = KnobIDs)}

NearbyInt(id, energy) ==
  Nearby(conf.IntConfig[id], IntKnobs[id].min, IntKnobs[id].max, energy)

GenNearbyConfigs(pick, energy) ==
  [IntConfig  : Assignments([id \in DOMAIN IntKnobs |->
                  IF id \in pick THEN NearbyInt(id, energy) ELSE {conf.IntConfig[id]}]),
   LoopConfig : Assignments([l \in loopKnobs |->
                  IF l \in pick THEN Looked(l, GenNearbyLoopSetting(conf.LoopConfig[l], energy))
                                ELSE {conf.LoopConfig[l]}])]

-----------------------------------------------------------------------------
(* applyConfig(): all knobs are set, then each modifies the module.         *)

\* The sectioned loops from l down, to a fork, a leaf or a loop that is not sectioned.
Spine(set) ==
  LET dims[l \in Loops] ==
        IF set[l].Section = {} THEN <<>>
        ELSE <<<<l, The(set[l].Section)>>>>
             \o IF Len(kids[l]) = 1 THEN dims[kids[l][1]] ELSE <<>>
  IN  dims

\* Where the walk down from l stops.
Bottom(set) ==
  LET cur[l \in Loops] ==
        IF set[l].Section # {} /\ Len(kids[l]) = 1 THEN cur[kids[l][1]] ELSE l
  IN  cur

\* analyzeSections(): a group per spine of two or more, then the rest of the tree.
AnalyzeSections(set) ==
  LET below == Bottom(set)
      dims  == Spine(set)
      found[l \in Loops] ==
        (IF Len(dims[l]) >= 2 THEN <<dims[l]>> ELSE <<>>)
        \o FlattenSeq([i \in 1..Len(kids[below[l]]) |-> found[kids[below[l]][i]]])
  IN  found

\* identifyLoops(), and the loop itself.
Group ==
  LET tree[l \in Loops] == {l} \cup UNION {tree[k] : k \in ToSet(kids[l])}
  IN  tree

\* Seeded fault in Applies: the knobs of inner loops are applied, too.
AppliesAlways(l) == l \in Loops

\* LoopKnob::apply(): a top-level loop's knob adjusts its whole group.
Applies(l) == l \in TopLevel

\* addLoopTransformGroup(), for each of the knobs of w: appended to what is there.
Transforms(sections, w, applied) ==
  FlattenSeq([i \in 1..Len(w) |-> IF w[i] \in applied THEN sections[w[i]] ELSE <<>>])

\* The module after the knobs of w have been applied, when they are set to set.
Adjusted(set, w) ==
  LET applied  == {id \in ToSet(w) : Applies(id)}
      adjusted == UNION {Group[l] : l \in applied}
  IN  [md     |-> [l \in Loops |-> IF l \in adjusted THEN AddToLoopMD(SourceMD[l], set[l])
                                                      ELSE SourceMD[l]],
       groups |-> Transforms(AnalyzeSections(set), w, applied)]

ApplyConfig(c) ==
  LET m == Adjusted(c.LoopConfig, walk)
  IN  md' = m.md /\ groups' = m.groups

Job(c) ==
  /\ conf' = c
  /\ ApplyConfig(c)
  /\ row' = <<>>
  /\ UNCHANGED <<kids, loopKnobs, walk, colToKnob>>

Default == walk # <<>> /\ Job(GenDefaultConfig) /\ picked' = 0

\* Bound: after a default configuration, since nothing generated depends on the last one.
Random ==
  /\ walk # <<>> /\ conf = GenDefaultConfig
  /\ \E c \in GenRandomConfigs : Job(c)
  /\ picked' = 0

Perturb ==
  /\ DOMAIN conf.IntConfig # {}
  /\ \E e \in Energies :
       /\ picked' = ElmsKept(e, Cardinality(KnobIDs))
       /\ \E pick \in Picks(e) : \E c \in GenNearbyConfigs(pick, e) : Job(c)

-----------------------------------------------------------------------------
(* exportConfig().                                                          *)

\* The cells of a knob, from its first column on.
Cells(id) ==
  IF id \in loopKnobs THEN Flatten(conf.LoopConfig[id]) ELSE <<{conf.IntConfig[id]}>>

\* Seeded fault in Starts: every column is taken for the start of a knob.
EveryColumn == 1..Len(colToKnob)

\* The columns in which the loop over the columns meets another knob.
Starts == {i \in 1..Len(colToKnob) : colToKnob[i] # IF i = 1 THEN 0 ELSE colToKnob[i - 1]}

Written == UNION {{i + k - 1 : k \in 1..Len(Cells(colToKnob[i]))} : i \in Starts}

Export ==
  /\ DOMAIN conf.IntConfig # {}
  /\ row' = [j \in Written |->
               LET i == Max({s \in Starts : s <= j}) IN Cells(colToKnob[i])[j - i + 1]]
  /\ UNCHANGED <<kids, loopKnobs, walk, colToKnob, conf, picked, md, groups>>

Next == Analyze \/ Default \/ Random \/ Perturb \/ Export

Spec == Init /\ [][Next]_vars

-----------------------------------------------------------------------------
(* Correctness.                                                             *)

Configured == DOMAIN conf.IntConfig # {}

\* Knob.h 98-101, param.h 22-25, LoopSettingGen.cpp 33-34: whatever is generated or
\* perturbed, and however often, holds a legal value of every knob and of nothing else.
ConfLegal ==
  Configured =>
    /\ DOMAIN conf.IntConfig = DOMAIN IntKnobs /\ DOMAIN conf.LoopConfig = Loops
    /\ \A id \in DOMAIN IntKnobs : conf.IntConfig[id] \in IntKnobs[id].min..IntKnobs[id].max
    /\ \A l \in Loops : LegalSetting(conf.LoopConfig[l])

\* A loop's metadata says what its setting says, and for the rest what the source says.
SaysSetting(said, source, LS) ==
  \A o \in PresenceOptions \cup IntOptions :
    IF LS[o] = {}
      THEN /\ o \in DOMAIN said <=> o \in DOMAIN source
           /\ o \in DOMAIN said => said[o] = source[o]
      ELSE o \in DOMAIN said /\ LS[o] = {said[o]}

\* Loops one in the other, nothing beside them, all sectioned.
IsNest(set, p) ==
  /\ \A i \in 1..Len(p) : set[p[i]].Section # {}
  /\ \A i \in 1..(Len(p) - 1) : kids[p[i]] = <<p[i + 1]>>

MaximalNests(set) ==
  {p \in UNION {[1..n -> Loops] : n \in 2..Cardinality(Loops)} :
     IsNest(set, p) /\ \A l \in Loops : ~IsNest(set, <<l>> \o p) /\ ~IsNest(set, Append(p, l))}

\* LoopKnob.cpp 82-123, 137-170, 183-195 with Tuner.h 99-110: in whatever order the knobs
\* are applied, each loop gets its own setting, and the function one group, once, for each
\* maximal nest of two or more sectioned loops.
ModuleMatches ==
  LET set   == conf.LoopConfig
      nests == MaximalNests(set)
  IN  Configured =>
        /\ \A l \in Loops : SaysSetting(md[l], SourceMD[l], set[l])
        /\ Len(groups) = Cardinality(nests)
        /\ \A p \in nests : \E g \in ToSet(groups) :
             /\ Len(g) = Len(p)
             /\ \A i \in 1..Len(p) : g[i][1] = p[i] /\ set[p[i]].Section = {g[i][2]}

\* KnobConfig.cpp 190-207 with LoopKnob.h 74-97 and BayesianTuner.h 405-418: an exported
\* row holds every knob once, whole, and fills every column.
RowsFaithful ==
  DOMAIN row # {} =>
    /\ DOMAIN row = 1..Len(colToKnob)
    /\ \A id \in KnobIDs :
         LET first == Min({j \in DOMAIN row : colToKnob[j] = id})
         IN  IF id \in loopKnobs
               THEN \A k \in 1..Len(Options) : row[first + k - 1] = conf.LoopConfig[id][Options[k]]
               ELSE row[first] = {conf.IntConfig[id]}

\* KnobConfig.cpp 103-109: "drop a percentage of the collected IDs": no more are kept than
\* were collected.
PicksCollected == picked <= Cardinality(KnobIDs)
=============================================================================
