CONSTANTS
    Profiles <- MCProfiles
    Lengths <- MCLengths
    Slots <- MCSlots
    Types <- MCTypes
    Expiry = 2
SPECIFICATION Spec
INVARIANTS
    SnapshotIsLastFrames
