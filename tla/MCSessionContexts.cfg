SPECIFICATION Spec
CONSTANTS
    c1 = c1  c2 = c2  c3 = c3  c4 = c4
    top = top  sub = sub
    plain = plain  devel = devel
    Command <- Commands
    Folder = {top, sub}
    Config = {plain, devel}
    Setting <- Settings
    MaxByHand = 1
    None = None
INVARIANTS
    AnswersAreFresh
    OwnConfiguration
    RefusedForAReason
    EditsAreKept
\* The commands have their answers.
CHECK_DEADLOCK FALSE
