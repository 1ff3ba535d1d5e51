SPECIFICATION Spec
CONSTANTS
    Main = Main
    Idle = Idle
    Pages = {p1, p2, p3}
    None = None
    TIME_SLICE = 4
INVARIANTS
    ReadyExact
    PagesSafe
    IdleSound
PROPERTY ReadyRuns
