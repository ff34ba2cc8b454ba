SPECIFICATION ClockFairSpec
CONSTANT NumFrames = 4
INVARIANT ClockSound
PROPERTY EveryFrameGetsItsTurn
