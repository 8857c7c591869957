SPECIFICATION Spec
CONSTANTS
    ocp = ocp  mesh = mesh  none = none
    Client <- Clients
    Task <- Names
    Shape <- Shapes
    Environment <- Environments
    Package <- Packages
    OuterOf <- Outers
    After <- Afters
    LoopOf <- Loops
    ShapeOf <- ShapesOf
    Gated <- Tests
    EnvOf <- Envs
    Uses <- UsesOf
    Wrapper = Wrapper
    MayFail = {"gasketJob", "panelStl"}
    Setting <- Settings
    None = none
PROPERTY RendersEnd
\* The commands are answered.
CHECK_DEADLOCK FALSE
