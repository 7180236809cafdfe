---------------------------- MODULE MCVpnManager ----------------------------
(* Instances of VpnManager for TLC.                                        *)
EXTENDS VpnManager, TLC

AllTypes == {"mock", "wireguard", "expressvpn", "expressvpn_mock", "openvpn"}
MockOnly == {"expressvpn_mock"}

Alike == Permutations(Req) \cup Permutations(Node)
=============================================================================
