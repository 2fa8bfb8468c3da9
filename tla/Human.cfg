SPECIFICATION FairSpec
CONSTANTS
    Requests = {r1, r2, r3}
    NoRequest = NoRequest
    MaxPolls = 1
INVARIANTS
    PendingIsWaited
    AnswerMatchesClick
    ClickForShownOrLater
PROPERTIES
    AllAnswered
