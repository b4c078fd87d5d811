CONSTANTS
  Facts = {"vip", "k8s", "chart", "node", "api"}
SPECIFICATION FairSpec
INVARIANTS
  SetupComesFirst
  ReadyHasURL
PROPERTIES
  SetupNeverReturns
  SetupEndsEverywhere
  TellsReadiness
