----------------------------- MODULE RandomTuner -----------------------------
(***************************************************************************)
(* tuner::RandomTuner, the base of every tuner that tries something: the   *)
(* list of configurations and the count of versions compiled ahead.        *)
(*                                                                         *)
(* A configuration is its place in Configs_.  What it says is left to      *)
(* KnobConfigs.                                                            *)
(***************************************************************************)
EXTENDS Driver

VARIABLES
  configs,    \* size of Configs_
  aheadOfTime \* aheadOfTimeCount

randomTuner == <<configs, aheadOfTime>>

RandomInit == configs = 0 /\ aheadOfTime = 0

\* Seeded fault in CountUpTo: the count starts again with every job.
CountRestarts(bound) == aheadOfTime' = IF optEnd THEN 0 ELSE 1

\* getNextConfig(): c is a new configuration.
NewConfig(c) == c = configs + 1 /\ configs' = c

\* shouldCompileNext(): yes, a bounded number of times.
RandomYes == aheadOfTime < CompileAhead

CountUpTo(bound) == aheadOfTime' = IF aheadOfTime < bound THEN aheadOfTime + 1 ELSE 0
=============================================================================
