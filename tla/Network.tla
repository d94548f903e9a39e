------------------------------ MODULE Network ------------------------------
(***************************************************************************)
(* The network of the rehosting container: what DockerManager sets up,     *)
(* what reconfig_network makes of it before every run and every probe, the *)
(* devices that the fix create_network_device adds, and the firmware that  *)
(* runs meanwhile and changes devices and addresses as it likes.           *)
(*                                                                         *)
(* A device is attached to the Docker network of one /24 subnet or to none;*)
(* an address answers a ping of the analysis pod if a device that is up    *)
(* and attached to the network of its subnet carries it.  The loopback     *)
(* device is left alone by the code and left out here; user mode.          *)
(***************************************************************************)
EXTENDS Integers, FiniteSets, Sequences, TLC, SequencesExt

CONSTANTS Dev,          \* device names; the first ones are Docker's eth0, eth1, ...
          Eth,          \* the sequence of names Docker gives to new interfaces at the start
          Ip, Subnet,
          SubnetOf,     \* [Ip -> Subnet], _get_subnet_from_ip
          Offered,         \* the sequence of addresses 192.168.1.1, 192.168.2.1, ...
          Br0, Br0Ip,   \* br0 is given 192.168.0.1
          Initial,      \* initial_network_config: [SUBSET Dev -> SUBSET Ip]
          NoNet, NoIp,
          MaxMeddled,  \* bound on the steps of the firmware
          MaxFaults,    \* bound on the calls that fail
          MaxFixes      \* bound on the devices a fix asks for

ASSUME AddressAssumption ==
  /\ SubnetOf \in [Ip -> Subnet] /\ NoNet \notin Subnet /\ NoIp \notin Ip
  /\ IsFiniteSet(Ip) /\ Br0Ip \in Ip /\ Offered \in Seq(Ip) /\ Offered # <<>>
ASSUME DeviceAssumption ==
  /\ IsFiniteSet(Dev) /\ Br0 \in Dev /\ Eth \in Seq(Dev) /\ IsInjective(Eth)
  /\ DOMAIN Initial \subseteq Dev /\ \A d \in DOMAIN Initial : Initial[d] \subseteq Ip
  /\ Cardinality(DOMAIN Initial) <= Len(Eth)
\* run starts with addresses that are all different
ASSUME InitialAssumption == \A d, e \in DOMAIN Initial : Initial[d] \cap Initial[e] # {} => d = e
ASSUME BoundAssumption == {MaxMeddled, MaxFaults, MaxFixes} \subseteq Nat

VARIABLES links,     \* the devices in the container
          info,      \* self.network_info
          current,   \* current_network_info, the snapshot of reconfig_network
          netPc, todo, pings,
          quiet,     \* reconfigurations in a row that nothing disturbed, at most 3
          meddled, faults, fixes

netVars == <<links, info, current, netPc, todo, pings, quiet, meddled, faults, fixes>>

Iface(ips, net, up) == [ips |-> ips, net |-> net, up |-> up]
IsLinks(l) ==
  /\ DOMAIN l \subseteq Dev
  /\ l \in [DOMAIN l -> [ips : SUBSET Ip, net : Subnet \cup {NoNet}, up : BOOLEAN]]
IsInfo(t) == DOMAIN t \subseteq Dev /\ \A d \in DOMAIN t : t[d] \subseteq Ip

(* get_interfaces_ips: the addresses of each device, up or down. *)
IpsOf(l) == [d \in DOMAIN l |-> l[d].ips]

Without(f, d) == [e \in DOMAIN f \ {d} |-> f[e]]  \* ip link del
With(f, d, x) == [e \in DOMAIN f \cup {d} |-> IF e = d THEN x ELSE f[e]]
Drop(l, ip) == [d \in DOMAIN l |-> [l[d] EXCEPT !.ips = @ \ {ip}]]

Pings(l, ip) == \E d \in DOMAIN l : l[d].up /\ ip \in l[d].ips /\ l[d].net = SubnetOf[ip]

(* Deleting the Docker network of a subnet: an attached device goes with   *)
(* it, or stays, unattached, when Docker no longer knows it by its name.   *)
Cut(l, s) ==
  LET on == {d \in DOMAIN l : l[d].net = s}
  IN  {[d \in DOMAIN l \ gone |->
          IF d \in on THEN [l[d] EXCEPT !.net = NoNet] ELSE l[d]] : gone \in SUBSET on}

-----------------------------------------------------------------------------
(* create_network_device(device_name, ip_address) on the devices l.        *)

AlreadyThere(l, d, ip) == d \in DOMAIN l /\ ip \in l[d].ips
ClearedOnly(l, d, ip) == Without(l, d)
Cleared(l, d, ip) == Without(Drop(l, ip), d)
Created(l, d, ip) ==
  IF AlreadyThere(l, d, ip) THEN {l}
  ELSE {With(c, d, Iface({ip}, SubnetOf[ip], TRUE)) : c \in Cut(Cleared(l, d, ip), SubnetOf[ip])}

(* A call into Docker or into the container fails: no new device, and what *)
(* was there is gone as far as the function had come.                      *)
NotCreated(l, d, ip) ==
  {l, Drop(l, ip), Cleared(l, d, ip)} \cup Cut(Cleared(l, d, ip), SubnetOf[ip])

(* Every command of reconfig_network may be lost, the lock of exec_run_lock*)
(* having timed out, or fail in Docker.                                    *)
Disturbed == quiet' = 0
Fault == faults < MaxFaults /\ faults' = faults + 1
Create(l, d, ip) ==
  \/ links' \in Created(l, d, ip) /\ UNCHANGED faults
  \/ Fault /\ links' \in NotCreated(l, d, ip)

-----------------------------------------------------------------------------
(* setup_bridges and start_rehosting_env: one network per address that was *)
(* not in use and one without an address of ours per device with no        *)
(* address; a network that cannot be created or joined is skipped, and     *)
(* Docker names the interfaces of the others in its own order.             *)
Wanted == {w \in (DOMAIN Initial) \X (Ip \cup {NoIp}) :
             IF Initial[w[1]] = {} THEN w[2] = NoIp ELSE w[2] \in Initial[w[1]]}
AddressOf(w) == IF w[2] = NoIp THEN {} ELSE {w[2]}
NetOf(w) == IF w[2] = NoIp THEN NoNet ELSE SubnetOf[w[2]]
Bridges(joined) ==
  [d \in {Eth[i] : i \in DOMAIN joined} |->
     LET w == joined[CHOOSE i \in DOMAIN joined : Eth[i] = d]
     IN  Iface(AddressOf(w), NetOf(w), TRUE)]

NetInit ==
  /\ \E joined \in UNION {SetToSeqs(W) : W \in SUBSET Wanted} :
       /\ Len(joined) <= Len(Eth)
       /\ \A i, j \in DOMAIN joined : NetOf(joined[i]) = NetOf(joined[j]) => i = j \/ NetOf(joined[i]) = NoNet
       /\ links = Bridges(joined)
  /\ info = Initial /\ current = << >> /\ netPc = "idle"
  /\ todo = {} /\ pings = {} /\ quiet = 0
  /\ meddled = 0 /\ faults = 0 /\ fixes = 0

-----------------------------------------------------------------------------
(* reconfig_network(info), before a run (run_binary, rehosting_binary) and *)
(* before a probe.                                                         *)

Reads == \/ current' = IpsOf(links) /\ UNCHANGED faults
         \/ Fault /\ current' = << >>   \* exec_run_lock answered ""

Reconfigure ==
  /\ netPc = "idle" /\ Reads
  /\ netPc' = "missing" /\ todo' = DOMAIN info
  /\ quiet' = IF faults' # faults THEN 0 ELSE quiet
  /\ UNCHANGED <<links, info, pings, meddled, fixes>>

Undisturbed == quiet' = IF faults' # faults THEN 0 ELSE quiet

(* First loop: a device of the target that the snapshot lacks.             *)
Recreate(d) ==
  IF d \notin DOMAIN current /\ info[d] # {}
  THEN \E ip \in info[d] : Create(links, d, ip)
  ELSE UNCHANGED <<links, faults>>
Missing(d) ==
  /\ netPc = "missing" /\ d \in todo /\ Recreate(d)
  /\ todo' = todo \ {d} /\ Undisturbed
  /\ UNCHANGED <<info, current, netPc, pings, meddled, fixes>>
EndMissing ==
  /\ netPc = "missing" /\ todo = {}
  /\ netPc' = "excess" /\ todo' = DOMAIN current
  /\ UNCHANGED <<links, info, current, pings, quiet, meddled, faults, fixes>>

(* Second loop, over the snapshot: a foreign address empties the device, a *)
(* foreign device is deleted; then each address wanted is pinged, and a    *)
(* device that does not answer is made anew.                               *)
Wished(d) == IF d \in DOMAIN info THEN info[d] ELSE {}
NeverFlushed(l, d) == l
AlwaysFlushed(l, d) == IF d \in DOMAIN l THEN [l EXCEPT ![d].ips = {}] ELSE l
Flushed(l, d) ==
  IF d \in DOMAIN l /\ current[d] \ Wished(d) # {} THEN [l EXCEPT ![d].ips = {}] ELSE l
Excess(d) ==
  /\ netPc = "excess" /\ d \in todo /\ pings = {}
  /\ \/ links' = (IF d \in DOMAIN info THEN Flushed(links, d) ELSE Without(Flushed(links, d), d)) /\ UNCHANGED faults
     \/ Fault /\ UNCHANGED links
  /\ todo' = todo \ {d} /\ pings' = {d} \X Wished(d) /\ Undisturbed
  /\ UNCHANGED <<info, current, netPc, meddled, fixes>>
Ping(d, ip) ==
  /\ netPc = "excess" /\ <<d, ip>> \in pings
  /\ IF Pings(links, ip) THEN UNCHANGED <<links, faults>> ELSE Create(Without(links, d), d, ip)
  /\ pings' = pings \ {<<d, ip>>} /\ Undisturbed
  /\ UNCHANGED <<info, current, netPc, todo, meddled, fixes>>
EndExcess ==
  /\ netPc = "excess" /\ todo = {} /\ pings = {}
  /\ netPc' = "final" /\ todo' = DOMAIN info
  /\ UNCHANGED <<links, info, current, pings, quiet, meddled, faults, fixes>>

(* Third loop: the addresses the snapshot lacked are added.                *)
Raised(l, d) ==
  IF d \in DOMAIN l THEN [l EXCEPT ![d].up = TRUE, ![d].ips = @ \cup (info[d] \ current[d])] ELSE l
Final(d) ==
  /\ netPc = "final" /\ d \in todo
  /\ \/ d \notin DOMAIN current /\ Recreate(d)
     \/ d \in DOMAIN current /\ links' = Raised(links, d) /\ UNCHANGED faults
     \/ d \in DOMAIN current /\ Fault /\ UNCHANGED links
  /\ todo' = todo \ {d} /\ Undisturbed
  /\ UNCHANGED <<info, current, netPc, pings, meddled, fixes>>
Reconfigured ==
  /\ netPc = "final" /\ todo = {}
  /\ netPc' = "idle" /\ quiet' = (IF quiet < 3 THEN quiet + 1 ELSE 3)
  /\ UNCHANGED <<links, info, current, todo, pings, meddled, faults, fixes>>

-----------------------------------------------------------------------------
(* FixStrategy.create_network_device: the address the firmware asked for,  *)
(* 192.168.0.1 for br0, or the first 192.168.i.1 in a subnet without an    *)
(* address; network_info is read again once a device was created.          *)
UsedSubnets == {SubnetOf[ip] : ip \in UNION {links[d].ips : d \in DOMAIN links}}
Free == {i \in DOMAIN Offered : SubnetOf[Offered[i]] \notin UsedSubnets}
Generated(d) ==
  IF d = Br0 THEN Br0Ip
  ELSE IF Free # {} THEN Offered[CHOOSE i \in Free : \A j \in Free : i <= j] ELSE Offered[Len(Offered)]

Fix(d, ip) ==
  /\ netPc = "idle" /\ fixes < MaxFixes /\ fixes' = fixes + 1
  /\ \/ links' \in Created(links, d, ip) /\ info' = IpsOf(links') /\ UNCHANGED faults
     \/ Fault /\ links' \in NotCreated(links, d, ip) /\ UNCHANGED info
  /\ quiet' = 0
  /\ UNCHANGED <<current, netPc, todo, pings, meddled>>
FixNamed(d) == Fix(d, Generated(d))
FixAddressed(d, ip) == Fix(d, ip)

(* The end of an iteration of rehosting_binary: network_info is what the   *)
(* container has, or nothing if the command was lost.                      *)
SaveNetwork ==
  /\ netPc = "idle"
  /\ \/ info' = IpsOf(links) /\ UNCHANGED faults
     \/ Fault /\ info' = << >>
  /\ quiet' = 0
  /\ UNCHANGED <<links, current, netPc, todo, pings, meddled, fixes>>

-----------------------------------------------------------------------------
(* The processes of the firmware, at any time.                             *)
Meddle ==
  /\ meddled < MaxMeddled /\ meddled' = meddled + 1
  /\ \/ \E d \in DOMAIN links, ip \in Ip : links' = [links EXCEPT ![d].ips = @ \cup {ip}]
     \/ \E d \in DOMAIN links : \/ links' = [links EXCEPT ![d].ips = {}]
                                \/ links' = [links EXCEPT ![d].up = FALSE]
                                \/ links' = Without(links, d)
     \/ \E d \in Dev \ DOMAIN links : links' = With(links, d, Iface({}, NoNet, FALSE))
     \/ \E d \in DOMAIN links, e \in Dev \ DOMAIN links : links' = With(Without(links, d), e, links[d])
  /\ Disturbed
  /\ UNCHANGED <<info, current, netPc, todo, pings, faults, fixes>>

NetNext ==
  \/ Reconfigure \/ EndMissing \/ EndExcess \/ Reconfigured \/ SaveNetwork \/ Meddle
  \/ \E d \in Dev : Missing(d) \/ Excess(d) \/ Final(d) \/ FixNamed(d)
  \/ \E d \in Dev, ip \in Ip : Ping(d, ip) \/ FixAddressed(d, ip)

NetSpec == NetInit /\ [][NetNext]_netVars
-----------------------------------------------------------------------------
(* The devices, the two tables of addresses read from the container and the *)
(* bookkeeping of reconfig_network keep their types.                       *)
NetTypeOK ==
  /\ IsLinks(links) /\ IsInfo(info) /\ IsInfo(current)
  /\ netPc \in {"idle", "missing", "excess", "final"}
  /\ todo \subseteq Dev /\ pings \subseteq Dev \X Ip /\ quiet \in 0..3
  /\ meddled \in 0..MaxMeddled /\ faults \in 0..MaxFaults /\ fixes \in 0..MaxFixes

Simple(t) ==  \* one address per device and one device per subnet
  /\ \A d \in DOMAIN t : Cardinality(t[d]) <= 1
  /\ \A d, e \in DOMAIN t : \A a \in t[d], b \in t[e] : SubnetOf[a] = SubnetOf[b] => d = e
Match ==
  /\ DOMAIN links \subseteq DOMAIN info
  /\ \A d \in DOMAIN info : info[d] # {} => d \in DOMAIN links
  /\ \A d \in DOMAIN links : links[d].ips = info[d]
  /\ \A ip \in UNION {info[d] : d \in DOMAIN info} : Pings(links, ip)

(* reconfig_network, once nothing disturbs it, brings the container to     *)
(* network_info, every address pinged: after three calls, whatever the     *)
(* firmware, a lost command or a fix has left, although each works on a    *)
(* snapshot and deletes devices and Docker networks while it walks it.     *)
Restored == netPc = "idle" /\ quiet = 3 /\ Simple(info) => Match

(* From then on reconfig_network is idempotent: no command of it changes a *)
(* device, so a probe does not disturb the service it looks at.            *)
LeftAlone == [][quiet = 3 /\ quiet' = 3 /\ Simple(info) => UNCHANGED links]_netVars

(* Unless the firmware does it or a command is lost, no address is ever on *)
(* two devices, in the middle of a reconfiguration or after a fix.         *)
AddressOnce ==
  meddled = 0 /\ faults = 0 => \A d, e \in DOMAIN links : links[d].ips \cap links[e].ips # {} => d = e
=============================================================================
