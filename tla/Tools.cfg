\* Every program, each with its own inputs.  A process ends: no deadlock check.
SPECIFICATION Spec
CONSTANTS
  Programs = {"args", "generate", "design", "mindspore", "data", "compare", "rts", "report", "changes", "convert"}
  NONE = NONE
  ABSENT = ABSENT
  EMPTY = EMPTY
  UNDEFINED = UNDEFINED
  FAILS = FAILS
  BAD = BAD
  FUZZ = FUZZ
  INVALID = INVALID
  SCALAR = SCALAR
  UNIFORM = UNIFORM
  RANGE = RANGE
  RESERVED = RESERVED
  ALL = ALL
  NULL = NULL
  NAN = NAN
  INF = INF
  OK = OK
  OFF = OFF
  c1 = c1
  c2 = c2
  MaxCommands = 2
  Argvs <- MCArgvs
  Inis <- MCInis
  CaseThresholds <- MCCaseThresholds
  Disk <- MCDisk
  Sources <- MCSources
  GenAttrTypes = {"int", "listInt"}
  ListTypes = {"listInt"}
  IrTypes = {"DT"}
  DynamicOne = {"m1"}
  DynamicTwo = {"m2"}
  DesignInputs <- MCInputs
  CaseNameLists <- MCCaseNameLists
  FuzzReturns <- MCFuzzReturns
  MAX_FUZZ_CASE_NUM = 2
  Required <- MCRequired
  MaxAlternatives = 3
  ParamTypes <- MCParamTypes
  MsCaseLists <- MCMsCaseLists
  CaseLists <- MCCaseLists
  Widths <- MCWidths
  OptionalTypes = {"UNDEFINED", "RESERVED"}
  Distributions = {"uniform", "sigmoid", "tanh"}
  OutputLists <- MCOutputLists
  LaterLists <- MCLater
  WithoutPandas = TRUE
  Commands = {"compare", "compare_by_path"}
  Unit = 1000
  DiffThd = 10
  PctThd = 50
  MaxDiff = 10
  CsvMaxLine = 2
  Modes <- MCModes
  ErrorCodes <- MCErrorCodes
  Contexts = {c1, c2}
  Streams = {"s"}
  Binaries = {"b"}
  Names = {"n"}
  Buffers = {"m"}
  MaxRetries = 3
  UserPaths = 1
  MaxFailures = 4
  MaxLoads = 1
  MaxResets = 1
  Cases <- MCCases
  Lists <- MCLists
  MaxRuns = 2
  C0 = 3
  UB_SIZE = 108
  Ops = {"four2five", "five2four"}
  JUNK = JUNK
  ZERO = ZERO
  Shapes <- MCShapes
SYMMETRY MCSymmetry
CHECK_DEADLOCK FALSE
INVARIANTS
  Paired EveryCombination FuzzOwnCall LayersApart
  CurrentAgrees AddressesKept CopyAttempts
  SameData ComparesOwnRun VerdictSound ReportComplete
  OwnTests  VerdictFromLatest 
  RebuiltIsTested  ConvertedWhereRegular
