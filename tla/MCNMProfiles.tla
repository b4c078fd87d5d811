--------------------------- MODULE MCNMProfiles ----------------------------
(* Networks at the limits for a VLAN interface, and one without an interface, *)
(* which is refused.                                                          *)
EXTENDS NMProfiles, TLC

CONSTANTS c1, c2

Net(nics, vlan, method) == [nics |-> nics, vlan |-> vlan, method |-> method]

SmallNetworks == {Net({"eth0", "eth1"}, 1, "static"), Net({"eth0"}, 2, "dhcp"),
                  Net({"eth1"}, 4094, "static"), Net({}, 0, "dhcp")}
SymmetricCalls == Permutations({c1, c2})
=============================================================================
