SPECIFICATION Spec
CONSTANTS
    MaxRunes = 6
    MaxLength = 5
    MaxArgs = 2
INVARIANTS
    TypeOK
    ParsedAsMeant
    AcceptedIffUsable
CHECK_DEADLOCK FALSE
