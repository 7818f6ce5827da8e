SPECIFICATION Spec
CONSTANTS
    Endpoints <- ControlAndBulk
    MaxPacketLen <- FullSpeed
    Lengths <- Full
    StallEps <- NoEndpoint
    MaxSetups = 0
    MaxPackets = 2
    MaxFaults = 1
    MaxResets = 1
PROPERTY EndpointsReset
