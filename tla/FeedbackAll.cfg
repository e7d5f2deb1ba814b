SPECIFICATION Spec
CONSTANTS
  Threads = {"t1", "t2"}
  Times = {1, 3}
  MaxRuns = 3
  MinTrials = 2
  Top = 5
  BufSz = 2
  Requested = {"None", "Total_IgnoreError", "Recent"}
  Updaters = {"driver", "tuner"}
  RecentUpdaters = {"driver"}
INVARIANTS
  EveryRunCounts
  FreshAnswers
  RecentResets
PROPERTIES
  OnlyResetLowers
