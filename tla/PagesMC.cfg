SPECIFICATION MCSpec
CONSTANTS
  Commands = {c1, c2}
  Gates = {g1}
  Incidents = {i1}
  GateOf <- OneGate
  Stuck = {i1}
  RawStates = {"closed", "fault"}
  Statuses = {"ONLINE", "OFFLINE"}
  MaxTries = 2
  MaxTicks = 2
  MaxToasts = 3
  None = None
  RuleIds = {"r1", "r2"}
  MaxRuleOps = 1
  NewUsers = {"n1"}
  MaxUserOps = 1
  VehicleIds = {"v1", "v2"}
  Plates = {"p1", "p2", "p3"}
  Members = {"m1"}
  MaxVehicleOps = 1
  MaxPollTries = 2
  Cars = {"c1"}
  Zones = {"z1", "z2"}
  LevelIds = {"l1", "l2"}
  MaxFrames = 1
  MaxMapLoads = 1
  MaxLevelOps = 2
  Scopes = {"alerts", "commands", "polls", "wizard", "rules", "simulator", "users", "import", "vehicles", "fleet", "history", "lot", "map", "zones", "levels"}
INVARIANTS StuckShown AckShownActed SubmissionUnique ImportAccounted HistoryOfVehicle
PROPERTIES ToastedOnce CommandEnds DriftShrinks ImportEnds
CHECK_DEADLOCK FALSE
