SPECIFICATION DivisionSpec
CONSTANTS
  NumIfaces = 3
  Devices = {"lan"}
  PrefixIds <- MCPrefixIds
  Ula = "ula"
  PrefixLengths <- MCLengths
  Exclusions <- MCExclusions
  Configs <- MCConfigs
  Tables = {0}
  Refusals = {}
INVARIANTS
  SubprefixesDisjoint NothingWasted HintsHonoured
