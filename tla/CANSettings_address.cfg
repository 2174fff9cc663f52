SPECIFICATION SettingsSpec
CONSTANTS
  IdLengths = {0, 1, 15, 16, 18}
  IpLengths = {7, 15}
  TriedBits = {0, 29}
  Speeds = {{0, 31}}
INVARIANTS
  AddressArrives
CHECK_DEADLOCK FALSE
