\* Two tracks, packets of half, one and one and a half frames.
CONSTANTS
    Tracks = {a, b}
    Frame = 4
    PacketSizes = {2, 4, 6}
    SilentTimeout = 2
    MaxElapsed = 4
SPECIFICATION MixerSpec
INVARIANT DurationIsTime
CHECK_DEADLOCK FALSE
