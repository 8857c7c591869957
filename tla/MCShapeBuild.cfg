SPECIFICATION Spec
CONSTANTS
    Client <- TwoClients
    Shape <- Shapes
    Assembly <- Assemblies
    Task <- BuildTask
    ParentOf <- BuildParent
    ShapeOf <- BuildShape
    LoopOf <- BuildLoop
    Threads = 4
    MayFail = {"panel", "left"}
INVARIANT OneBuilder
PROPERTIES
    KeptIsNotRebuilt
    BuildsEnd
\* The clients have their answers.
CHECK_DEADLOCK FALSE
