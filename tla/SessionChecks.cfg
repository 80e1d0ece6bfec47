SPECIFICATION FairSpec
CONSTANTS
    Frames <- MCFrames
    Greetings <- MCGreetings
    MaxPending = 2
    Users = {"u1", "u2"}
    Credentials <- MCCredentials
    None = None
    MaxIssued = 2
INVARIANTS
    TypeOK
    BusyHasCause
    AcceptedIsKept
    LogoutForgets
PROPERTIES
    LoginEnds
