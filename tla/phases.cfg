CONSTANTS
    RunFlags <- MCRunFlags
    MaxCycle = 1
    MaxLeg = 2
    MaxEvent = 1
SPECIFICATION FairSpec
INVARIANTS EndedLegIsClosed HintSpeaksForItsPhase CarriedWorkIsAdmitted
PROPERTIES TransitionCommits SweepSettles PreludeLeft ReportStarted
CHECK_DEADLOCK FALSE
