\* One connection from its constructor state: the clock moves in 950 ms
\* steps up to 2850 ms (so the connection can fall 19 or more
\* send slots behind at 10 datagrams/s), one reliable datagram may be
\* outstanding, and the uninitialized fields start from now (0) or from a
\* time 5 s ahead and from loss counts on either side of the threshold.
CONSTANTS
    TickMod = 65536
    MaxTime = 2850
    TickSteps = {950}
    MaxTracks = 1
    GarbageTimes = {0, 5000}
    GarbageLosses = {0, 6}
    GarbageRates = {0, 20000}
SPECIFICATION Spec
INVARIANT SendSlotWithinASecond
INVARIANT BurstBound
