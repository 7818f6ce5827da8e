SPECIFICATION Spec
CONSTANTS
    main = main
    usb_isr = usb_isr
    timer_isr = timer_isr
    Thread <- main
    Handlers <- TwoHandlers
    Priority <- ByHandler
INVARIANT TypeOK PanicsOnlyNested FlagExact
PROPERTY ImplementsOneAtATime
CHECK_DEADLOCK FALSE
