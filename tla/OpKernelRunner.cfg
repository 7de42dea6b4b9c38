\* Two runners, two runs of two kernels, and a failure anywhere.  The
\* client may stop: no deadlock check.
SPECIFICATION Spec
CONSTANTS
  Params = {1, 2, 3, 4}
  Buffers = {1, 2, 3, 4, 5}
  Kernels = {"two", "temp"}
  Info <- MCInfo
  Profiled = {2}
  profiling_times = 2
  Inputs <- MCInputs
  RAW = 0
  Refs <- MCRefs
  MaxRunners = 2
  MaxRuns = 2
  MaxFailures = 1
INVARIANTS
  PointersLive
  NoLeak
  HoldsLatest
CHECK_DEADLOCK FALSE
