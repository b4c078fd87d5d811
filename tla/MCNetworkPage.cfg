CONSTANTS
  Jobs = {1, 2}
  MaxHasty = 2
  NICChoices <- NICs
  VlanInputs = {0, 4094, 4095}
  AddressInputs = {"", "cidr", "ipv6"}
  MaskInputs = {"ipv4", "malformed"}
  GatewayInputs = {"ipv4", "malformed"}
  MTUInputs = {0, 576, 9001}
SPECIFICATION FairSpec
INVARIANTS
  LeavesAsApplied
  StaticIsComplete
  DHCPForgetsStatic
  FirstAttemptLocks
PROPERTY KeyboardComesBack
