CONSTANTS
  Clients <- AllClients
  Joined <- Order
  Null = "null"
  QueueSize <- Sizes
  Pollers <- OnlyPad
  RumbleTime = 1
  PauseTime = 2
  Settings <- AllSettings
SPECIFICATION LiveSpec
INVARIANTS HearsOfReset SerialForHolder MotorStops
PROPERTIES PressesAreSeen PadReturns
