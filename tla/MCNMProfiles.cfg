CONSTANTS
  c1 = c1
  c2 = c2
  Calls = {c1, c2}
  Networks <- SmallNetworks
  BootNames = {"wired"}
  BootHostname = "rancher"
  GivenNames = {"", "node1"}
SPECIFICATION Spec
SYMMETRY SymmetricCalls
INVARIANTS
  AppliedExactly
  DNSReachesAddress
  OriginalsPristine
  HostnameKept
