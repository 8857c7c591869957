SPECIFICATION FairSpec
CONSTANTS
    c1 = c1
    c2 = c2
    c3 = c3
    robot = robot
    left = left
    right = right
    frame = frame
    plate = plate
    hand = hand
    loop = loop
    pool = pool
    NoClient = NoClient
    Client <- MCClient
    Configuration <- DefaultConfiguration
    Target <- MCTarget
    Assembly <- MCAssembly
    Places <- MCPlaces
    Stored <- MCStored
    Remembered <- MCRemembered
    Evictable <- MCEvictable
INVARIANTS NothingIsBuiltTwice FailsOnlyOnACycle
PROPERTIES RequestsStaySmall CommandsEnd
