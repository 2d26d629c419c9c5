SPECIFICATION Spec
CONSTANTS
  Samples <- UsualSamples
  InitRTTs <- UsualInitRTTs
  MaxUsec = 5000
INVARIANTS
  TimeoutPositive
  NoOvershoot
  NoCollapse
