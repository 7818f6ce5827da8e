SPECIFICATION Spec
CONSTANTS
    COUNT = 6
    Allocated <- MCAllocated
    Addresses <- MCAddresses
    Attributes <- MCAttributes
INVARIANT TypeOK Settled
PROPERTY ImplementsSettings
