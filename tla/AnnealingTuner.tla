--------------------------- MODULE AnnealingTuner ---------------------------
(***************************************************************************)
(* tuner::AnnealingTuner: a walk from configuration to configuration.      *)
(*                                                                         *)
(* The tuner holds a current state and a trial state, a neighbour of it.   *)
(* It asks for either again while it has no good measurement of it, and    *)
(* then decides which of the two to go on from.  A measurement that was    *)
(* good may get worse with more runs, so a configuration may be asked for  *)
(* long after it was compiled first.  Costs are left out: which state is   *)
(* cheaper may come out either way.                                        *)
(***************************************************************************)
EXTENDS RandomTuner

VARIABLES
  current, \* currentState, 0 before initalizedFirstState
  walking, \* trialState
  good     \* the configurations whose feedback is of good quality

annealing == <<current, walking>>

AnnealInit == current = 0 /\ walking = 0 /\ good = {}

\* missingCost(), which updates the statistics first.
MissingCost(c) == c \notin good

\* Each decision adds one configuration to the first two.
timeStep == configs - 2

\* chooseNextState(): a cheaper trial always wins; one that costs more never does at step
\* 0, always at step 1, and with some probability from then on.
NextStates == IF timeStep = 1 THEN {walking} ELSE {current, walking}

\* Seeded fault in Decides: only the current state needs a cost.
DecidesEarly(c) ==
  /\ configs > 0 /\ ~MissingCost(current)
  /\ current' \in NextStates
  /\ NewConfig(c)
  /\ walking' = c

\* Seeded fault in Decides: the new trial state is not kept.
DecidesForgetful(c) ==
  /\ configs > 0 /\ ~MissingCost(current) /\ ~MissingCost(walking)
  /\ current' \in NextStates
  /\ NewConfig(c)
  /\ UNCHANGED walking

\* analyze(), in the first job: the default and a random configuration.
FirstStates(c) ==
  /\ configs = 0
  /\ configs' = 2 /\ current' = 1 /\ walking' = 2
  /\ c = current'

AsksAgain(c) ==
  /\ configs > 0
  /\ \/ MissingCost(current) /\ c = current
     \/ ~MissingCost(current) /\ MissingCost(walking) /\ c = walking
  /\ UNCHANGED <<configs, current, walking>>

Decides(c) ==
  /\ configs > 0 /\ ~MissingCost(current) /\ ~MissingCost(walking)
  /\ current' \in NextStates
  /\ NewConfig(c)
  /\ walking' = c

\* analyze() and getNextConfig().
AnnealConfig(c) == FirstStates(c) \/ AsksAgain(c) \/ Decides(c)
=============================================================================
