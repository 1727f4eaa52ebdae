SPECIFICATION Spec
CONSTANTS
    OneByte = 3
    HeaderSize = 2
    Limit = 3
    MaxChunk = 5
    Messages <- SomeMessages
    MaxMessages = 4
CHECK_DEADLOCK FALSE
INVARIANTS InSync WholeOrSkipped AllArrive
