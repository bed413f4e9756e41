SPECIFICATION Spec
CONSTANTS
    Formats <- AllFormats
    Words = {0, 7, 20, 31, 130, 255}
    Lengths <- StringLengths
    Stars <- StarArgs
    IntBits = 5
    LongBits = 8
INVARIANTS ParsesAsWritten FieldRight
PROPERTIES ScanEnds
