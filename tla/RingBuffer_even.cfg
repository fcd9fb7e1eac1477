CONSTANTS
    Bytes = {0, 1}
    DesiredSize = 6
    InsertLens = {2, 4}
    RemoveLens = {2, 4, 6}
SPECIFICATION Spec
INVARIANTS
    TypeOK
PROPERTIES
    ImplementsContents
    ImplementsQueue
