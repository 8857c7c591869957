SPECIFICATION Spec
CONSTANTS
    root = root
    lib = lib
    libSub = libSub
    tools = tools
    main = main
    other = other
    Package <- Packages
    Root = root
    Parent <- ParentIs
    Client <- Clients
    Main = main
    Worker = {w1, w2}
    None = None
    All = All
    Raised = Raised
    Setting <- Contexts
INVARIANTS
    OnlyWholePackages
    AnswersAreRight
PROPERTIES
    LoadedOnce
    LoadsEnd
\* The clients have their answers, or packages that name one another wait for each other.
CHECK_DEADLOCK FALSE
