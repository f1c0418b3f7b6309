CONSTANTS
    root1 = root1
    root2 = root2
    cert1 = cert1
    cert2 = cert2
    key1 = key1
    key2 = key2
    Anchor = {root1, root2}
    Defect = defect
    Cert = {cert1, cert2}
    Key = {key1, key2}
    CaText <- MCCaText
    Issued <- MCIssued
    KeyOf <- MCKeyOf
    Renewals = 2
    Issue = {"1", "2", "3", "4", "5"}
    Setting <- MCSetting
    KeySetting <- MCKeySetting
    Written <- MCWritten
    Reply <- MCReply
    Unreserved <- MCUnreserved
    Hex <- MCHex
    Body <- MCBody
    Base <- MCBase
    Tenant <- MCTenant
    Unset = "unset"
SPECIFICATION RemoteSpec
INVARIANTS
    TrustIsOneFile
    NeverAborts
    RefusalHasReason
    FirstCredentialWins
    ReachesWhatItNames
CHECK_DEADLOCK FALSE
