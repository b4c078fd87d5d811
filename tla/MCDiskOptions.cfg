CONSTANTS
  Names <- FiveNames
  SerialOf <- Serials
  WWNOf <- WWNs
  Labelled = {"sda", "sdb", "sdd"}
SPECIFICATION CacheSpec
INVARIANTS
  OfferedOnce
  WipeSparesInstallPaths
