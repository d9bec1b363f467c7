SPECIFICATION MpeqsSpec
CONSTANTS
  Callers = {c1}
  Auditors = {a1}
  Tables <- MCTables
  Requests <- MCRequests
  MaxCalls = 2
  Users = {u1, u2}
  Jobs <- MCJobs
  Inverses <- MCInverses
  MaxJobs = 2
  MaxStores = 2
  MaxFactorN = 2000
  MaxDivisors = 8
  AreaDigits = 100
  SpellBudget = 60
  TupleBudget = 40
  MaxIterations = 10
  FloatGrain = 1024
  MaxRepairs = 1
  WrongName = "search"
  Tasks <- MCTasks
  Misnamed <- MCMisnamed
  Calculations <- MCCalculations
  Givens <- MCGivens
  Ops = {"+", "/"}
  Commuting = {"+"}
  Apply <- MCApply
  Defined <- MCDefined
  MaxPadCalls = 5
  MaxRefused = 1
  Equations <- MCEquations
  MaxSolves = 6
  Rate <- MCRate
  TwoSided <- MCTwoSided
  Computations = {1, 2}
  Paths <- MCPaths
  Input <- MCInput
  BrickUnits <- MCUnits
  Bricks <- MCBricks
  BrickTypes <- MCTypes
  Dim <- MCDim
  Base <- MCBase
  MaxSteps = 10
  IslandNames <- MCNames
  Bodies <- MCBodies
  NameLength <- MCNameLength
  Makes <- MCMakes
  AnswerWords = {"word"}
  Asked = "a"
  Haves <- MCHaves
  MaxRounds = 6
CHECK_DEADLOCK FALSE
INVARIANTS
    MpeqsTypeOK
    ConversionsDerived
    AuditExact
    NamesForGood
    AsMeant
    SolversExact
    CalculusAgrees
    RecordSound
    MemorySound
    LedgerSound
    ResolvedRight
    WaysFound
PROPERTIES
    EveryCallReturns
