SPECIFICATION AccSpec
CONSTANTS
    None = None
    VaDevices = {1, 2, 3}
    VaEnrolled = 2
    VaSlots = 3
    VaPasskeys = {1}
    VaMaxOps = 2
    VaMaxThrows = 1
INVARIANT HeaderParses
CHECK_DEADLOCK FALSE
