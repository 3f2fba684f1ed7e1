\* Three instances and as many starts: each starts, or one starts again.
SPECIFICATION Spec
CONSTANTS
    Instances = {s1, s2, s3}
    Objects = 2
    Rows = 1
    MaxAttempts = 2
    MaxStarts = 3
INVARIANTS
    TypeOK
    NotAllFail
    LoneStartGetsThrough
    ServesOnFullSchema
    MessageForEveryone
PROPERTIES
    StartSettles
CHECK_DEADLOCK FALSE
