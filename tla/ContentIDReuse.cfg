\* The reuse of a pool slot that outboundContentIDMessages still points at:
\* three messages with content key k1 or none from a pool of two slots.
CONSTANTS
    s1 = s1
    s2 = s2
    s3 = s3
    k1 = k1
    k2 = k2
    NoSlot = NoSlot
    NoKey = NoKey
    Slots <- MCSlots
    Keys <- MCKeys
    MaxSends = 3
    FragmentCounts = {}
SPECIFICATION Spec
INVARIANT ObsoleteOnlyIfSuperseded
