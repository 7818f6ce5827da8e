SPECIFICATION Spec
CONSTANTS
    Endpoints <- TwoOutOneIn
    MaxPacketLen <- FullSpeed
    Lengths <- ShortFullLong
    StallEps <- NoEndpoint
    MaxSetups = 0
    MaxPackets = 2
    MaxFaults = 0
    MaxResets = 0
INVARIANT TypeOK NeverDeaf
PROPERTY ImplementsPipe
