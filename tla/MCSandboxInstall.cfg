SPECIFICATION FairSpec
CONSTANTS
    req = req  cad = cad  b3d = b3d  ocp = ocp
    t1 = t1  t2 = t2  s1 = s1  s2 = s2
    NoSession = NoSession
    Task <- MCTask
    Session <- Sessions
    Package <- MCPackage
    Preinstall <- MCPreinstall
    Clobbers <- MCClobbers
    Brings <- MCBrings
    Renders = 2
    Setting <- Settings
INVARIANTS RunsOnItsNeeds GuardsTellTheTruth InstallsHoldTheEnvironment
PROPERTIES InstallsOnlyWhatIsMissing EveryRenderEnds
