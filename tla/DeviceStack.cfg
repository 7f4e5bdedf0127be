SPECIFICATION Spec
CONSTANTS
  Hardware = {"eth"}
  Vlans = {"vlan"}
  Stacked = {"mac"}
  Veths = {"veth"}
  Aliases = {"alias"}
  Ifaces = {"wan", "vpn", "tun"}
  Slow = {"wan", "tun"}
  On <- MCOn
  Serves <- MCServes
  Lower <- MCLower
  Parents = {"eth", "veth"}
  Configured = {"veth"}
  Values = {1}
INVARIANTS NothingHeld UpStands PresenceFollows AliasFollows
CHECK_DEADLOCK FALSE
