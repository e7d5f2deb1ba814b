SPECIFICATION Spec
CONSTANTS
  Threads = {"t1", "t2"}
  Times = {1, 3}
  MaxRuns = 3
  MinTrials = 2
  Top = 100
  BufSz = 2
  Requested = {"Recent"}
  Updaters = {"driver", "tuner"}
  RecentUpdaters = {"driver", "tuner"}
INVARIANT
  NoBogusSample
