CONSTANTS
    trimA = trimA
    trimB = trimB
    trimC = trimC
    absent = absent
    Units = {trimA, trimB, trimC, absent}
    Bus <- MCBus
    MAX_DEVICES = 2
    LEDS = 4
    SLOTS = 3
    LineWrap = 9
    Identifiers <- MCIdentifiers
    Commands <- MCCommands
    Garbage = {0, 7}
    Mishaps = {"open_fail", "uninit", "same_string", "hex_times"}
    None = None
SPECIFICATION FairSpec
INVARIANTS TypeOK RightUnits ColorAsTyped RoundTrip
PROPERTIES Ends
CHECK_DEADLOCK FALSE
