SPECIFICATION CacheSpec
CONSTANTS
  a = a  b = b  r5 = r5  x = x
  Registers <- MCRegisters
  R5 = r5
  Latency = 12
  LookForward = 4
  MaxThrowaway = 1
  Draws = {x}
  Lanes = 2
  SegmentLength = 4
  Passes = 3
  RandBits = 6
SYMMETRY Symmetry
INVARIANTS
    ScheduleSound
    BlocksSound
    MixedAlike
CHECK_DEADLOCK FALSE
