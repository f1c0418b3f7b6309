CONSTANTS
    Proc = {"sh"}
    Path <- MCPath
    Inode = {1, 2, 3, 4, 5}
    None = None
    Slot <- MCSlot
    Kid <- MCKid
    Keyring = {"old", "new"}
    Job <- MCJob
    Mode <- MCMode
    Start <- MCStart
    Faults = {"io", "kill", "power"}
    MaxFaults = 2
SPECIFICATION Spec
INVARIANTS
    RewriteInv
    ExitZeroMeansDone
    UnfinishedIsPrivate
PROPERTIES
    RewritesAreAtomic
    NothingReplacedEarly
    NeverWrittenInPlace
