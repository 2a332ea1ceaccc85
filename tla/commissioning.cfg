SPECIFICATION Spec
CONSTANTS
    Devices = 2
    Bits = 2
    MaxShort = 1
    Modes = {"extend", "list", "randomise"}
    Lossy = {"compare", "verify"}
    MaxLoss = 1
    MaxStored = 2
    MaxDefiant = 1
INVARIANTS EveryoneAddressed
PROPERTIES SettledKeepAddress ConfiguredKeepAddress NewAddressIsFree Terminates
CHECK_DEADLOCK FALSE
