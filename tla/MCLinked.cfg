SPECIFICATION Spec
CONSTANTS
    NPROC = 3
    NSEM = 0
    Keys = {0, 2}
INVARIANTS
    LinksAgree
    EndsReadable
    ShowStaysInside
PROPERTIES
    ListsAreSequences
