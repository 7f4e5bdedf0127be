---------------------------- MODULE MCConfigReload ----------------------------
EXTENDS ConfigReload, TLC

Sect(d, auto, opt, settings) == [dev |-> d, auto |-> auto, opt |-> opt, settings |-> settings]
Wan == {NoSection, Sect("eth0", TRUE, 1, NoOption), Sect("eth0", FALSE, 1, NoOption),
        Sect("veth0", TRUE, 2, NoOption), Sect("eth0", TRUE, 1, 1)}
Lan == {NoSection, Sect("eth0", TRUE, 1, NoOption)}
(* The sections of eth0 and veth0: neither, that of veth0 with two kinds of *)
(* settings, both.                                                          *)
Devs == {<<NoOption, NoOption>>, <<NoOption, 1>>, <<NoOption, 2>>, <<2, 1>>}

MCConfigs ==
  {[dev |-> ("eth0" :> d[1] @@ "veth0" :> d[2]), ifs |-> ("wan" :> w @@ "lan" :> l)] :
     d \in Devs, w \in Wan, l \in Lan}
MCFirst == [dev |-> ("eth0" :> NoOption @@ "veth0" :> 1),
            ifs |-> ("wan" :> Sect("eth0", TRUE, 1, NoOption) @@ "lan" :> Sect("eth0", TRUE, 1, NoOption))]
MCDynamicOn == [i \in Dynamic |-> "eth0"]
=============================================================================
