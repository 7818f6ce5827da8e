SPECIFICATION Spec
CONSTANTS
    usb1 = usb1
    usb2 = usb2
    s1 = s1
    s2 = s2
    m1 = m1
    m2 = m2
    Drivers <- TwoBuses
    States <- TwoStates
    Memories <- TwoMemories
    Count <- ThreeAndFive
    Start <- Adjacent
    Size <- ThreePackets
    Addresses <- ControlAndIn
    PacketSizes <- AboutTheClamp
INVARIANT TypeOK Exclusive Unaliased BuffersApart
PROPERTY LentAsNew
CHECK_DEADLOCK FALSE
