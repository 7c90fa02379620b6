CONSTANTS
    MaxU29 = 63
    MaxU16 = 7
    TagBits = 2
    Schemas <- MCSchemas
    Sources <- MCSources
    Words <- MCWords
    Sizes <- MCSizes
    Counts <- MCCounts
SPECIFICATION Spec
VIEW FieldsView
PROPERTY RecordSpec
PROPERTY UnknownKept
CHECK_DEADLOCK FALSE
