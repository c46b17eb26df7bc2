--------------------------- MODULE MCProvisioning ---------------------------
(***************************************************************************)
(* Instances of Provisioning for TLC.                                      *)
(***************************************************************************)
EXTENDS Provisioning, TLC

\* Three ports by default; the administrator may move to four, or to a range
\* that leaves out the first port.
TwoPorts   == <<1, 2>>
ThreePorts == <<1, 3>>
FourPorts  == <<1, 4>>
LastTwo    == <<2, 3>>

PairRange  == {TwoPorts}
OneRange   == {ThreePorts}
TwoRanges  == {ThreePorts, LastTwo}
SomeRanges == {ThreePorts, FourPorts, LastTwo}

LiveOnly   == {"active", "stopped_by_admin"}
AnyRecord  == LiveOnly \cup {"deleted"}

TcpOnly    == {"tcp"}
HttpOnly   == {"http"}
HttpXtcp   == {"http", "xtcp"}

\* What the store properties depend on: not on `told', which no action reads
\* except to update it, and on the range file only through the loaded range.
StoreView == <<proxies, counter, balance, recharged, pool, polling, disk,
               LoadedRange(rangeFile), restarts>>

UserSymmetry == Permutations(Users)
Symmetry     == UserSymmetry \cup Permutations(Names) \cup Permutations(Subdomains)
=============================================================================
