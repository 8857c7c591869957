SPECIFICATION Spec
CONSTANTS
    robot = robot  clamp = clamp  demo = demo
    arm = arm  base = base  jaw = jaw
    r1 = r1  r2 = r2  r3 = r3  r4 = r4
    renderLoop = renderLoop  testLoop = testLoop  script = script
    Model <- Models
    Alias <- Aliases
    Part <- Parts
    Request <- Requests
    SourceOf <- Sources
    Yields <- Components
    LoopOf <- Loops
    Setting <- Settings
    None = None
INVARIANTS
    PutInOnce
    TreesAreWhole
PROPERTIES
    PartsAreFound
    RequestsEnd
\* The requests have their answers.
CHECK_DEADLOCK FALSE
