SPECIFICATION Spec
CONSTANTS
    Buffers <- Placed
    Lengths <- AboutALine
    TdAddr = 4096
    QhAddr = 0
    SlotAddr = 16300
INVARIANT DescriptorsCleaned
