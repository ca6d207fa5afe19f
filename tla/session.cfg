SPECIFICATION Spec
CONSTANTS
    poll = poll
    service = service
    NoTask = NoTask
    Tasks <- MCTasks
    Cancellable <- MCCancellable
    MaxExtra = 1
INVARIANTS
    OneLoginAtATime
    RetryUsesFreshSession
    FailureNeedsTwoExpiries
PROPERTIES
    CookieNeverRegresses
    SharedSpec
    EveryCallEnds
