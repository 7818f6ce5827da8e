SPECIFICATION Spec
CONSTANTS
    Timers <- TwoTimers
    MaxLoad = 2
    Micros <- BothClamps
INVARIANT TypeOK Punctual FlagsKept Interrupting
