CONSTANTS
    Proc = {"sh"}
    Path <- OnePath
    Inode = {1, 2, 3}
    None = None
    Slot <- MCSlot
    Kid <- MCKid
    Keyring = {"old", "new"}
    Job <- OneJob
    Mode <- MCMode
    Start <- OneStart
    Faults = {"power"}
    MaxFaults = 1
SPECIFICATION Spec
INVARIANT
    NoTruncatedFileLeft
