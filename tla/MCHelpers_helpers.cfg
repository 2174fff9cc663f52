SPECIFICATION HelpersSpec
SYMMETRY LogSymmetry
CONSTANTS
  Params <- MCParams
  MaxParams = 3
  MaxCalls = 16
  IdLengths = {0, 1, 15, 16, 18, 19}
  IpLengths = {0, 7, 15}
  TriedBits <- MCBits
  Speeds <- MCSpeeds
  Loops = {f, g}
  MaxEvents = 3
  MaxTurns = 4
  Users = {t, u, v}
  MaxPuts = 3
  MaxFulls = 1
  MaxEmpties = 1
  Nodes = {m, n}
  Second = 2
  WaitTime = 4
  MaxHeard = 4
  Objects = {1, 2, 3, 4}
  ClassOf <- MCClassOf
  Lower <- MCLower
  MaxTrace = 5
  CanIds = {"a", "b"}
  Filters <- MCFilters
  Timeouts = {0, 2}
  MaxMessages = 3
  Threads = {user, tp}
  User = user
  Logs = {l1, l2}
  MaxListed = 2
  MaxFrames = 2
INVARIANTS
  EveryCombinationOnce
  SettingsArrive
  LoopSeesEveryEvent
  ClearDoesNotWaitInVain
  FindsAllInTime
  LinesRepeatTheCalls
  OneTimeoutPerMessage
  OncePerLog
  SteadyLogsGetTheFrame
  FramesAreLostToChangesOnly
  QuietAfterDisableAll
CHECK_DEADLOCK FALSE
