CONSTANTS
    Jobs = {j1, j2, j3, j4, j5}
    Concurrency = 2
    MaxQueue = 2

SPECIFICATION Spec

INVARIANT BudgetExact
PROPERTY AbandonedNeverRuns
PROPERTY EveryJobIsAnswered
