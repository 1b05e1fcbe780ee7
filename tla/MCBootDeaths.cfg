\* Two starts of every database, the first of which may be cut short.
SPECIFICATION BootSpec
CONSTANTS
    Origins <- Databases
    MaxStarts = 2
INVARIANTS
    BackfillsAreMade
CHECK_DEADLOCK FALSE
