SPECIFICATION Spec
CONSTANTS
    Endpoints <- ControlAndBulk
    MaxPacketLen <- FullSpeed
    Lengths <- Full
    StallEps <- BulkPair
    MaxSetups = 0
    MaxPackets = 2
    MaxFaults = 1
    MaxResets = 1
INVARIANT EventsReported NeverDeaf ResetQuiesces
PROPERTY TransferOwned ImplementsPipe FreshAfterReset FailedStaysOut
