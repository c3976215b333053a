SPECIFICATION Spec
CONSTANTS
  Processes = {web, mcp}
  Files <- MCFiles
  MaxKills = 1
  Projects = {"default", "acme"}
  Recipe <- MCRecipe
  Order <- MCOrder
  Announced <- MCAnnounced
  FirstDay = 100
  LastDay = 101
  Samples <- MCSamples
  RowRules <- MCRowRules
  Registry <- MCRegistry
  Scopes <- MCScopes
  Waivers <- MCWaivers
  MaxCollects = 1
  MaxBinds = 2
INVARIANTS ServesComplete RowsCarryOwnVerdict PreviewMatchesStored WaiversSilenceTheirRule TileAgreesWithPills ShellForetellsPage
CHECK_DEADLOCK FALSE
