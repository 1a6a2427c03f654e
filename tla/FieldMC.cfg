\* Two memberships of a plate and one decision at a time; two payments of a driver; two
\* devices, two activation codes and two edge clients.
SPECIFICATION MCSpec
CONSTANTS
  Mems = {"k1", "k2"}
  MaxDecisions = 1
  MaxEdits = 1
  MaxPays = 2
  MaxPresses = 2
  MaxPayPolls = 2
  DeviceIds = {"d1", "d2"}
  Codes = {"a1", "a2"}
  Kiosks = {"e1", "e2"}
  MaxDeviceOps = 1
  MaxIssues = 2
  Scopes = {"decisions", "refunds", "plans", "overlap", "wallet", "leave", "card", "slow", "devices", "activation", "kiosk"}
INVARIANTS WhitelistFollows CodeSpentOnce
PROPERTIES PayingEnds BlacklistHolds
CHECK_DEADLOCK FALSE
