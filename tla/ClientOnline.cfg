SPECIFICATION FairSpec
CONSTANTS
    Base = 2
    MaxFrameSize = 2
    MaxPending = 2
    Answers <- MCAnswers
    UserAnswer <- MCUserAnswer
    Env <- MCRefuse
    MaxIssued = 4
    MaxAnswers = 2
INVARIANTS
    TypeOK
    CommandsInOrder
    CommandsFollowLogin
    MessagesInOrder
    OnlineIsKept
PROPERTIES
    IdleOnlyWhenRefused
    PendingGoesOutOrIdle
    KeepsPromise
