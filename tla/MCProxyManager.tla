--------------------------- MODULE MCProxyManager ---------------------------
(* Instances of ProxyManager for TLC.                                      *)
EXTENDS ProxyManager, TLC

CONSTANTS p1, p2, n1, v1

\* All proxies are configured for one port.
OnePort == [p \in Proxy |-> n1]
OneNode == [p \in Proxy |-> v1]

Requests == Permutations(Req)
=============================================================================
