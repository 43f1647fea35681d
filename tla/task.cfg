SPECIFICATION FairSpec
CONSTANT MAX_TASKS = 3
INVARIANT TypeOK
INVARIANT TableConsistent
INVARIANT SwitchToRunnable
PROPERTY NoResurrection
PROPERTY InterruptReturns
