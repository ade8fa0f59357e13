SPECIFICATION FairSpec
CONSTANTS
    Length = 4
    Warnings = 3
    PipeSize = 2
    MinSize = 3
    ChunkSize = 2
    Retries = 2
    Products <- SomeProducts
    Parts <- SomeParts
    Errno = "EAGAIN"
INVARIANTS WrittenIsTheWholeSource NoPartIsCompiled
PROPERTY CompilationEnds
CHECK_DEADLOCK FALSE
