SPECIFICATION Spec
CONSTANTS
    Endpoints <- ControlAndBulk
    MaxPacketLen <- FullSpeed
    Lengths <- Full
    StallEps <- NoEndpoint
    MaxSetups = 0
    MaxPackets = 1
    MaxFaults = 0
    MaxResets = 1
PROPERTY PacketsReset
