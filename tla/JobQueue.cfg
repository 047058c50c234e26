CONSTANTS
    e1 = e1
    e2 = e2
    Execution = {e1}
    BatchSize = 1
    MaxFaults = 2
    MaxTerms = 2
    CanStepDown = TRUE
SPECIFICATION FairSpec
INVARIANT RunsOnce
INVARIANT InProgressIsHeld
PROPERTY FinalStatusSticks
PROPERTY EveryExecutionEnds
 
