SPECIFICATION Spec
CONSTANTS
  Hardware = {"eth0"}
  Virtual = {"veth0"}
  Static = {"wan", "lan"}
  Dynamic = {"dyn"}
  Slow = {"wan"}
  DynamicOn <- MCDynamicOn
  Configs <- MCConfigs
  First <- MCFirst
INVARIANTS ConfigFollowed DevicesFollow
PROPERTY UntouchedStaysUp
CHECK_DEADLOCK FALSE
