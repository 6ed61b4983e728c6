\* Up to two children, on every short command line.
SPECIFICATION PreforkSpec
CONSTANTS
    Argvs <- MCArgvs
    Opened <- MCOpened
    MaxOthers = 1
INVARIANTS
    ArgsAreBlocks
    DescriptorsHold
PROPERTIES
    AllShutDown
\* Once all processes have ended, nothing happens.
CHECK_DEADLOCK FALSE
