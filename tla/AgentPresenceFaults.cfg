\* Two agents; the code's 5, 5 and 10 minutes in units of 2.5 minutes.
SPECIFICATION Spec
CONSTANTS
    Agents = {a1, a2}
    TTL = 2
    FlushInterval = 2
    Window = 4
SYMMETRY Symmetry
INVARIANTS
    PositionIsRecent
    ReporterIsMatchable
