\* The application sends one message too big for a datagram with content
\* key k1: SplitAndQueueMessage queues it as two fragments from a pool of
\* two slots, and the worker accepts and sends them.
CONSTANTS
    s1 = s1
    s2 = s2
    s3 = s3
    k1 = k1
    k2 = k2
    NoSlot = NoSlot
    NoKey = NoKey
    Slots <- MCSlots
    Keys <- MCKeys
    MaxSends = 2
    FragmentCounts = {2}
SPECIFICATION Spec
INVARIANT ObsoleteOnlyIfSuperseded
