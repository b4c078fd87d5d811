\* The pages behind the network page: network method, host name, cluster network,
\* DNS, NTP, SSH keys.
CONSTANTS
  Roles = {"default"}
  PasswordInputs = {"p1"}
  ServerURLInputs = {"u1"}
  HostnameInputs = {"", "h1", "bad"}
  OSHostnames = {"", "bad"}
  DNSInputs = {"", "d1", "d2", "bad"}
  NTPInputs = {"", "n1", " n1"}
  PaddedNTP = {" n1"}
  DefaultNTP = "n1"
  TokenInputs = {"", "t1", "bad"}
  ProxyInputs = {""}
  SSHKeyInputs = {"", "k1"}
  ConfigURLInputs = {""}
  PodCIDRInputs = {""}
  ServiceNets = {"net1", "net2"}
  ServiceAddrs <- TwoNets
  Malformed = {"bad"}
SPECIFICATION Spec
INVARIANTS
  StaticHasDNS
  HostnameChecked
  ClusterDNSInServiceNet
  ConfirmTruthful
  AnswerFindsItsPage
PROPERTY NTPKeptOnlyAfterWarning
