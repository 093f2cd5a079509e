SPECIFICATION FairSpec
CONSTANTS
    iMaxDataCount = 2
    Keystrokes <- MCKeystrokes
    MaxKeys = 3
    BufferSize = 6
    MaxTries = 7
INVARIANTS
    TypeOK
    KeysMeanWhatWasTyped
    LEDsShowLocks
PROPERTIES
    ImplementsFifo
    OnlyLockKeysLate
    ComesToRest
CHECK_DEADLOCK FALSE
