CONSTANTS
    Proc = {"sh1", "sh2"}
    Path <- OnePath
    Inode = {1, 2, 3, 4}
    None = None
    Slot <- MCSlot
    Kid <- MCKid
    Keyring = {"old", "new"}
    Job <- OneJob
    Mode <- MCMode
    Start <- OneStart
    Faults = {"io"}
    MaxFaults = 1
SPECIFICATION Spec
INVARIANT
    NoTruncatedFileLeft
