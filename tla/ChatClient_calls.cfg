SPECIFICATION Spec
CONSTANTS
    Request = {r1}
    MaxTime = 2
    MaxConnect = 2
    None = None
INVARIANTS OwnAnswer NothingWaitsInVain
PROPERTIES AnswerIsHandled LoginFollowsAnswers
CHECK_DEADLOCK FALSE
CONSTRAINT Bound
