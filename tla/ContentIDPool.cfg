\* Four messages, each with content key k1, k2 or none, reliable or not, from
\* a pool of three slots: freed slots are handed out again.
CONSTANTS
    s1 = s1
    s2 = s2
    s3 = s3
    k2 = k2
    k1 = k1
    NoSlot = NoSlot
    NoKey = NoKey
    Slots <- MCSlots3
    Keys <- MCKeys2
    MaxSends = 4
    FragmentCounts = {2}
SPECIFICATION Spec
INVARIANT SlotOwnership
PROPERTY CoalescingSupersedes
