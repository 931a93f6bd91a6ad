SPECIFICATION Spec
CONSTANTS
    MaxSize = 7
    TargetBytes = 2
    HeadBytes = 3
    StepBytes = 2
    WindowBytes = 2
    MaxRow = 2
INVARIANTS
    TypeOK
    ChunksAreWholeRows
    EachRowReadOnce
    TextIsTheRowsOwn
PROPERTIES
    EveryRowIsRead
