\* Every call of the queue returns; every workflow ends; every job settles.
CONSTANTS
    j1 = j1  j2 = j2  c1 = c1  c2 = c2  c3 = c3  t1 = t1  t2 = t2  w1 = w1
SPECIFICATION FairSpec
PROPERTIES EveryCallReturns WorkflowEnds EveryJobSettles
CHECK_DEADLOCK FALSE
