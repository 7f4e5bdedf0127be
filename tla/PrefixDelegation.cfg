SPECIFICATION Spec
CONSTANTS
  NumIfaces = 1
  Devices = {"lan", "guest"}
  PrefixIds <- MCPrefixIds
  Ula = "ula"
  PrefixLengths = {61, 62}
  Exclusions <- MCNoExclusion
  Configs <- MCFewConfigs
  Tables = {0, 7}
  Refusals = {1}
INVARIANTS
  AddressesAgree AddressesFollowState
