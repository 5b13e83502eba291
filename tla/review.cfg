CONSTANTS
    ours = ours
    theirs = theirs
    v = v
    w = w
    Proposal = {ours, theirs}
    NoProposal = NoProposal
    Variant = {v, w}
    NoAnswer = NoAnswer
    KeepRecent = 1
    Budget = 1
    MaxFaults = 1
    Author <- MCAuthor
    Answer <- MCAnswer
SPECIFICATION FairSpec
INVARIANTS DecidedOnce UndecidedKept OfferedStillOpen OneGoodVariantCarries
PROPERTIES NothingSkipped ReviewPromised EveryProposalDecided InboxDrains
CHECK_DEADLOCK FALSE
