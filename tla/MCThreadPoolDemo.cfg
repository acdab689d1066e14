SPECIFICATION FairDemoSpec
CONSTANTS
  kTaskCount = 4
  Worker = {w1, w2}
INVARIANTS
  DemoTypeOK
  StopIsComplete
PROPERTIES
  Returns
