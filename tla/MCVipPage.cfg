CONSTANTS
  Slots = {1, 2}
  Leases <- TwoLeases
  VipInputs = {"", "bad", "mgmt", "ip1", "lease1", "lease2"}
  Malformed = {"", "bad"}
  MgmtIP = "mgmt"
SPECIFICATION Spec
INVARIANTS
  ConfirmedVipKept
