---------------------------- MODULE MCIpSettings ----------------------------
EXTENDS IpSettings

MCMask == [x \in Targets |-> IF x = "default" THEN 0 ELSE 24]
Info(m, t, n) == [metric |-> m, table |-> t, nodefault |-> n]
MCInfos == {Info(0, 0, FALSE), Info(1, 0, TRUE), Info(0, 1, FALSE)}
MCReports == {[addrs |-> Addrs, routes |-> ProtoRoutes],
              [addrs |-> Addrs, routes |-> {}], [addrs |-> {}, routes |-> {}]}
=============================================================================
