CONSTANTS
    Source <- MCSource
    Kid <- MCKid
    Random <- MCRandom
    Fresh <- MCFresh
    Shell = {"ann", "bob"}
    KeyId = {"k1", "k2"}
    Slot = {"PASSWORD", "TOKEN"}
    Plaintext <- MCText
    Binary = {"bin"}
    Scenes <- MCScenes
SPECIFICATION KeyringSpec
INVARIANTS
    WholeRing
    RotationKeepsKeys
    RotationKeepsSecrets
    OldReferencesOpen
    InfoAgrees
CHECK_DEADLOCK FALSE
