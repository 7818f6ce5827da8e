SPECIFICATION FairSpec
CONSTANTS
    Endpoints <- Control
    MaxPacketLen <- FullSpeed
    Lengths <- ShortAndFull
    StallEps <- NoEndpoint
    MaxSetups = 2
    MaxPackets = 1
    MaxFaults = 1
    MaxResets = 1
INVARIANT EventsReported SetupIntact
PROPERTY CompletionsReported SetupsRead CallsReturn ImplementsMailbox FreshAfterReset
