SPECIFICATION LockFairSpec
CONSTANTS
    t1 = t1  t2 = t2  t3 = t3  t4 = t4
    here = here  there = there
    NoProcess = NoProcess
    User <- MCUser
    Process <- MCProcess
    Home <- MCHome
    Async <- MCAsync
INVARIANTS InstallIsAlone CountersAreExact
PROPERTIES InstallGetsItsTurn ImplementsRWLock
