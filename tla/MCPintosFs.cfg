SPECIFICATION Spec
CONSTANTS
    Names = {a, b, bad}
    InvalidNames = {bad}
    Handles = {h1, h2}
    Lengths = {1, 2}
    Values = {0, 1}
    Zero = 0
    FirstSector = 4
    LastSector = 8
    DIR_SLOTS = 2
SYMMETRY Symmetric
INVARIANTS
    DiskSound
    OpenSound
PROPERTIES
    RefinesFs
    LostOnlyByFailure
