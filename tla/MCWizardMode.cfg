\* Modes, roles, passwords, the address of the cluster to join, and the order of the pages.
CONSTANTS
  Roles = {"default", "witness"}
  PasswordInputs = {"", "p1"}
  ServerURLInputs = {"u1", "u2", "bad"}
  HostnameInputs = {"h1"}
  OSHostnames = {""}
  DNSInputs = {"d1"}
  NTPInputs = {"n1"}
  PaddedNTP = {}
  DefaultNTP = "n1"
  TokenInputs = {"t1"}
  ProxyInputs = {"x1"}
  SSHKeyInputs = {"k1"}
  ConfigURLInputs = {"c1"}
  PodCIDRInputs = {""}
  ServiceNets = {}
  ServiceAddrs <- NoNets
  Malformed = {"bad"}
SPECIFICATION FairSpec
INVARIANTS
  CreateIsFresh
  JoinServerAnswered
  PasswordAgreed
PROPERTIES
  EscReturns
  FollowsPath
  CheckEnds
