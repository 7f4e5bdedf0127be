SPECIFICATION Spec
CONSTANTS
  Devices = {"eth", "ppp"}
  Addrs = {"a", "x"}
  External = {"x"}
  Near = {"a"}
  ProtoRoutes = {"default"}
  ConfigRoutes = {"net"}
  Mask <- MCMask
  Gateways = {"g1", "g2"}
  ConfigGateways = {"g1"}
  Times = {0, 1}
  Infos <- MCInfos
  Reports <- MCReports
  Refusals = {"a", "default"}
  MaxHosts = 1
INVARIANTS NothingLeftBehind NothingMissing RoutesFollowSettings
CHECK_DEADLOCK FALSE
