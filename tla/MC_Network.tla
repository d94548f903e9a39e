----------------------------- MODULE MC_Network -----------------------------
EXTENDS Network
MC_Eth == <<"eth0", "eth1", "eth2">>
MC_Ip == {"1.1", "2.1", "0.1"}
MC_SubnetOf == ("1.1" :> "n1") @@ ("2.1" :> "n2") @@ ("0.1" :> "n0")
MC_Offered == <<"1.1", "2.1">>
MC_Initial == ("eth0" :> {"1.1"}) @@ ("eth1" :> {}) @@ ("br0" :> {"0.1"})
=============================================================================
