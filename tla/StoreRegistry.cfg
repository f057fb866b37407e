SPECIFICATION Spec
CONSTANTS
  Pipelines = {traces, metrics, logs}
  None = None
  MaxStores = 2
  MaxFailures = 1
INVARIANTS TypeOK OneStore NoUseAfterClose ClosedWithTheLast
PROPERTY ShutdownEnds
