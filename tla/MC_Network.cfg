SPECIFICATION NetSpec
CONSTANTS
  Dev = {"eth0", "eth1", "eth2", "br0"}
  Eth <- MC_Eth
  Ip <- MC_Ip
  Subnet = {"n0", "n1", "n2"}
  SubnetOf <- MC_SubnetOf
  Offered <- MC_Offered
  Br0 = "br0"
  Br0Ip = "0.1"
  Initial <- MC_Initial
  NoNet = "none"
  NoIp = "no"
  MaxMeddled = 1
  MaxFaults = 1
  MaxFixes = 1
INVARIANTS Restored AddressOnce
PROPERTIES LeftAlone
