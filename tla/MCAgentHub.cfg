CONSTANTS
    MaxClients = 2
    MaxRequests = 1
    MaxFaults = 2
    None = None
SPECIFICATION Spec
INVARIANT TypeOK
INVARIANT AnswerBuffered
INVARIANT LeaseIsLive
PROPERTY ImplementsService
PROPERTY CommitsAnswered
PROPERTY LeaseFreed
PROPERTY PresenceRecovers
CHECK_DEADLOCK FALSE
