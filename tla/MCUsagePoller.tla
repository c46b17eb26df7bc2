--------------------------- MODULE MCUsagePoller ---------------------------
(***************************************************************************)
(* Instances of UsagePoller for TLC: a TCP proxy with two ports, a TCP and *)
(* an HTTP proxy with one tunnel each, or an XTCP proxy with its fallback. *)
(***************************************************************************)
EXTENDS UsagePoller, TLC

TwoProxies   == {"tcp", "http"}
TwoTunnels   == {"port", "site"}
TwoOwners    == ("port" :> "tcp") @@ ("site" :> "http")
TwoLists     == ("port" :> "tcp") @@ ("site" :> "http")

OneProxy     == {"tcp"}
TwoPorts     == {"port1", "port2"}
PortOwner    == [t \in TwoPorts |-> "tcp"]
PortLists    == [t \in TwoPorts |-> "tcp"]

P2P          == {"p2p"}
Fallback     == {"fallback"}
FallbackOf   == "fallback" :> "p2p"
FallbackList == "fallback" :> "stcp"

OneMB        == [p \in Proxies |-> 1]
=============================================================================
