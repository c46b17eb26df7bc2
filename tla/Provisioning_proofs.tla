------------------------ MODULE Provisioning_proofs ------------------------
(***************************************************************************)
(* Theorems about the pool's loop and about Provisioning, for every value  *)
(* of their constants:                                                     *)
(*                                                                         *)
(*   LoopIsClosedForm  the loop of the pool computes the closed forms that *)
(*                   Provisioning uses;                                    *)
(*   TypeCorrect     the state always has its type;                        *)
(*   AcksSafe        what owners were told survives failures and crashes;  *)
(*   NamesSafe       live proxies differ in name and in subdomain;         *)
(*   QuotaSafe       no traffic is made out of nothing;                    *)
(*   PortsSafe, MappedNeverFree, RangeCovers                               *)
(*                   public ports are exclusive, reserved and in range;    *)
(*   Durable, NothingReturns                                               *)
(*                   a deletion that was saved is never undone;            *)
(*   NothingLeaks    a port of the range is free or mapped.                *)
(*                                                                         *)
(* Only the theorems about ports assume anything but the types and the     *)
(* order of the constants; they name what they assume of the environment   *)
(* (FixedRange, NothingUnsaved, BusyPorts).                                *)
(***************************************************************************)
EXTENDS Provisioning, PortScan, Sums_proofs, WellFoundedInduction, TLAPS

(***************************************************************************)
(* The inductive invariants.                                               *)
(***************************************************************************)

\* With a fixed range: the records, those on disk included, map different
\* ports of that range, and none of the mapped ports is free.
FixedRange ==
    /\ Ranges = {DefaultRange}
    /\ BootBusyPorts = {}
    /\ AdminDeletable \subseteq LiveStatuses

PortInvariant ==
    /\ TypeOK
    /\ PortsExclusive
    /\ OwnedPortsReserved
    /\ OwnedPortsInRange
    /\ ExclusiveIn(disk.proxies)
    /\ OwnedIn(disk.proxies) \subseteq PortRange(DefaultRange[1], DefaultRange[2])
    /\ pool.start = DefaultRange[1] /\ pool.end = DefaultRange[2]

\* What an owner was told of a live proxy holds in memory and on disk.
AckedAt(ps, i) ==
    /\ told[i] \in LiveStatuses => LiveIn(ps, i)
    /\ told[i] = "stopped_by_admin" => ps[i].status = "stopped_by_admin"

AckInvariant ==
    /\ TypeOK
    /\ \A i \in Ids : AckedAt(proxies, i) /\ AckedAt(disk.proxies, i)

\* Every live record of qs is live in ps, with the same ports.
Within(qs, ps) ==
    \A i \in Ids : LiveIn(qs, i) => LiveIn(ps, i) /\ qs[i].ports = ps[i].ports

SameOwners(qs, ps) == Within(qs, ps) /\ Within(ps, qs)

\* When nothing is left unsaved, disk and memory agree on who owns what.
NothingUnsaved ==
    /\ SavesMayFail = FALSE
    /\ TornWrites = FALSE
    /\ BootBusyPorts = {}
    /\ AdminDeletable = {}

MirrorInvariant ==
    /\ TypeOK
    /\ PortsExclusive
    /\ OwnedPortsReserved
    /\ OwnedPortsInRange
    /\ LoadedRange(rangeFile) = <<pool.start, pool.end>>
    /\ SameOwners(disk.proxies, proxies)

\* Ids are given out in order, in memory and on disk, and what the mirror has
\* as deleted is not live in memory.
UsedUpTo(ps, n) == \A i \in Ids : ps[i].status # "absent" => i <= n

TombstoneInvariant ==
    /\ TypeOK
    /\ UsedUpTo(proxies, counter)
    /\ UsedUpTo(disk.proxies, counter)
    /\ \A i \in Ids : disk.proxies[i].status = "deleted" => ~Live(i)

PoolType  == [start : Nat, end : Nat, available : SUBSET Nat]
Records   == [Ids -> Proxy \cup {Absent}]
Amounts   == [Users -> Nat]
DiskType  == [proxies : Records, balance : Amounts, recharged : Amounts]
ToldType  == [Ids -> LiveStatuses \cup {"deleted", "unknown"}]

----------------------------------------------------------------------------
(* The pool's operators.                                                   *)

\* A non-empty set of natural numbers has a least element.
LEMMA LeastNatural ==
    ASSUME NEW T, T \subseteq Nat, T # {}
    PROVE  \E s \in T : \A t \in T : s <= t
<1>1. \E s \in T : \A t \in T : ~(<<t, s>> \in OpToRel(<, Nat))
  BY NatLessThanWellFounded, WFMin
<1>2. ASSUME NEW s \in T, NEW t \in T, <<t, s>> \notin OpToRel(<, Nat)
      PROVE  s <= t
  <2>1. s \in Nat /\ t \in Nat
    OBVIOUS
  <2>2. ~(t < s)
    BY <1>2, <2>1 DEF OpToRel
  <2>3. QED
    BY <2>1, <2>2
<1>3. QED
  BY <1>1, <1>2

\* allocate_contiguous hands out ports that are free, bindable and in range.
LEMMA AllocatedIsFree ==
    ASSUME NEW p \in PoolType, NEW count \in Nat, NEW busy
    PROVE  Allocated(p, count, busy) \subseteq p.available \ busy
<1>1. CASE Fits(p, count, busy) = {}
  BY <1>1 DEF Allocated
<1>2. CASE Fits(p, count, busy) # {}
  <2>1. Fits(p, count, busy) \subseteq Nat
    BY DEF Fits, PoolType
  <2>2. \E s \in Fits(p, count, busy) : \A t \in Fits(p, count, busy) : s <= t
    BY <1>2, <2>1, LeastNatural
  <2>3. FirstFit(p, count, busy) \in Fits(p, count, busy)
    BY <2>2 DEF FirstFit
  <2>4. QED
    BY <1>2, <2>3 DEF Allocated, Fits
<1>3. QED
  BY <1>1, <1>2

\* Every operation on the free set keeps the range and stays inside it.
PoolInRange(p) == p \in PoolType /\ p.available \subseteq PortRange(p.start, p.end)

LEMMA AllocateKeepsPool ==
    ASSUME NEW p, PoolInRange(p), NEW count, NEW busy
    PROVE  /\ PoolInRange(AfterAllocate(p, count, busy))
           /\ AfterAllocate(p, count, busy).start = p.start
           /\ AfterAllocate(p, count, busy).end = p.end
           /\ AfterAllocate(p, count, busy).available
                  \subseteq p.available \ Allocated(p, count, busy)
  BY DEF PoolInRange, PoolType, AfterAllocate

LEMMA ReserveKeepsPool ==
    ASSUME NEW p, PoolInRange(p), NEW ports, NEW busy
    PROVE  /\ PoolInRange(AfterReserve(p, ports, busy))
           /\ AfterReserve(p, ports, busy).start = p.start
           /\ AfterReserve(p, ports, busy).end = p.end
           /\ AfterReserve(p, ports, busy).available \subseteq p.available
           /\ UnavailablePorts(p, ports, busy) = {} =>
                 AfterReserve(p, ports, busy).available = p.available \ ports
  BY DEF PoolInRange, PoolType, AfterReserve

LEMMA ReleaseKeepsPool ==
    ASSUME NEW p, PoolInRange(p), NEW ports \in SUBSET Nat
    PROVE  /\ PoolInRange(AfterRelease(p, ports))
           /\ AfterRelease(p, ports).start = p.start
           /\ AfterRelease(p, ports).end = p.end
           /\ AfterRelease(p, ports).available \subseteq p.available \cup ports
  BY DEF PoolInRange, PoolType, AfterRelease, InRange, PortRange

LEMMA FreshPool ==
    ASSUME NEW s \in Nat, NEW e \in Nat
    PROVE  /\ PoolInRange(NewPool(s, e))
           /\ NewPool(s, e).start = s /\ NewPool(s, e).end = e
           /\ NewPool(s, e).available = PortRange(s, e)
  BY DEF PoolInRange, PoolType, NewPool, PortRange

LEMMA UpdatedPool ==
    ASSUME NEW s \in Nat, NEW e \in Nat, NEW allocated
    PROVE  /\ PoolInRange(AfterUpdateRange(s, e, allocated))
           /\ AfterUpdateRange(s, e, allocated).start = s
           /\ AfterUpdateRange(s, e, allocated).end = e
           /\ AfterUpdateRange(s, e, allocated).available
                  = PortRange(s, e) \ allocated
  BY DEF PoolInRange, PoolType, AfterUpdateRange, PortRange

----------------------------------------------------------------------------
(* Type correctness.                                                       *)

LEMMA TypeOKParts ==
    TypeOK <=> /\ proxies \in Records
               /\ counter \in 0 .. MaxId
               /\ balance \in Amounts
               /\ recharged \in Amounts
               /\ PoolInRange(pool)
               /\ polling \in BOOLEAN
               /\ disk \in DiskType
               /\ rangeFile \in Ranges \cup {NoFile}
               /\ restarts \in 0 .. MaxRestarts
               /\ told \in ToldType
  BY DEF TypeOK, Records, Amounts, PoolInRange, PoolType, DiskType, ToldType

\* The same of the next state.
LEMMA TypeOKPartsPrimed ==
    TypeOK' <=> /\ proxies' \in Records
                /\ counter' \in 0 .. MaxId
                /\ balance' \in Amounts
                /\ recharged' \in Amounts
                /\ PoolInRange(pool')
                /\ polling' \in BOOLEAN
                /\ disk' \in DiskType
                /\ rangeFile' \in Ranges \cup {NoFile}
                /\ restarts' \in 0 .. MaxRestarts
                /\ told' \in ToldType
  BY DEF TypeOK, Records, Amounts, PoolInRange, PoolType, DiskType, ToldType

\* A record that is live is a Proxy record.
LEMMA LiveIsProxy ==
    ASSUME NEW ps \in Records, NEW i \in Ids, LiveIn(ps, i)
    PROVE  /\ ps[i] \in Proxy
           /\ ps[i].uid \in Users /\ ps[i].name \in Names
           /\ ps[i].ports \in SUBSET Nat
           /\ ps[i].limit \in Nat /\ ps[i].used \in Nat
  BY DEF Records, LiveIn, LiveStatuses, Absent, Proxy

\* A save leaves the mirror well typed, whether it succeeds or not.
LEMMA SaveKeepsType ==
    ASSUME disk \in DiskType,
           proxies' \in Records, balance' \in Amounts, recharged' \in Amounts,
           Saved \/ SaveFailed
    PROVE  disk' \in DiskType
<1>1. Snapshot' \in DiskType
  BY DEF Snapshot, DiskType
<1>2. QED
  BY <1>1 DEF Saved, SaveFailed

LEMMA TellKeepsType ==
    ASSUME told \in ToldType, NEW i \in Ids,
           NEW status \in LiveStatuses \cup {"deleted", "unknown"}, Tell(i, status)
    PROVE  told' \in ToldType
  BY DEF Tell, ToldType

LEMMA SaveAndTellKeepsType ==
    ASSUME told \in ToldType, disk \in DiskType,
           proxies' \in Records, balance' \in Amounts, recharged' \in Amounts,
           NEW i \in Ids, NEW status \in LiveStatuses \cup {"deleted"},
           SaveAndTell(i, status)
    PROVE  disk' \in DiskType /\ told' \in ToldType
  BY SaveKeepsType, TellKeepsType DEF SaveAndTell

\* Changing the status of a record keeps the store's type.
LEMMA SetStatusKeepsType ==
    ASSUME proxies \in Records, NEW i \in Ids, Live(i),
           NEW status \in LiveStatuses \cup {"deleted"},
           proxies' = [proxies EXCEPT ![i].status = status]
    PROVE  proxies' \in Records
<1>1. [proxies[i] EXCEPT !.status = status] \in Proxy
  BY LiveIsProxy DEF Live, Proxy
<1>2. QED
  BY <1>1 DEF Records

\* The rest of create_proxy, for a well-typed record the user can pay for.
LEMMA AddProxyKeepsType ==
    ASSUME proxies \in Records, counter \in 0 .. MaxId,
           balance \in Amounts, recharged \in Amounts, disk \in DiskType,
           told \in ToldType,
           counter < MaxId, NEW proxy \in Proxy, proxy.status = "active",
           proxy.limit <= balance[proxy.uid], AddProxy(proxy)
    PROVE  /\ proxies' \in Records /\ counter' \in 0 .. MaxId
           /\ balance' \in Amounts /\ recharged' \in Amounts
           /\ disk' \in DiskType /\ told' \in ToldType
<1> USE ConstantsAssumption
<1>1. counter + 1 \in Ids
  BY DEF Ids
<1>2. proxies' \in Records
  BY <1>1 DEF AddProxy, Records
<1>3. proxy.uid \in Users /\ proxy.limit \in Nat
  BY DEF Proxy
<1>4. balance' \in Amounts
  BY <1>3 DEF AddProxy, Amounts
<1>5. QED
  BY <1>1, <1>2, <1>4, SaveAndTellKeepsType DEF AddProxy, LiveStatuses

\* What create_proxy adds has its type, and the user can pay for it.
LEMMA NewProxyType ==
    ASSUME NEW u \in Users, NEW name \in Names, NEW type \in ProxyTypes,
           NEW ports \in SUBSET Nat, NEW subdomain \in Subdomains \cup {NoSubdomain},
           NEW limit \in Limits, MayCreate(u, name, limit)
    PROVE  LET proxy == NewProxy(u, name, type, ports, subdomain, limit)
           IN  /\ proxy \in Proxy /\ proxy.status = "active"
               /\ proxy.limit <= balance[proxy.uid] /\ counter < MaxId
  BY ConstantsAssumption DEF NewProxy, Proxy, LiveStatuses, MayCreate

LEMMA WindowType ==
    ASSUME NEW s \in Nat, NEW count \in Nat
    PROVE  Window(s, count) \in SUBSET Nat
  BY DEF Window

LEMMA CreateAutoKeepsType ==
    ASSUME TypeOK, NEW u \in Users, NEW name \in Names, NEW limit \in Limits,
           NEW count \in 1 .. MaxTcpPorts, CreateAuto(u, name, limit, count)
    PROVE  TypeOK'
<1> USE ConstantsAssumption
<1>1. PICK busy \in SUBSET BusyPorts :
         /\ pool' = AfterAllocate(pool, count, busy)
         /\ LET ports == Allocated(pool, count, busy)
            IN  \/ AddProxy(NewProxy(u, name, "tcp", ports, NoSubdomain, limit))
                \/ UNCHANGED <<store, polling, files, restarts, told>>
  BY DEF CreateAuto
<1>2. PoolInRange(pool')
  BY <1>1, TypeOKParts, AllocateKeepsPool
<1>3. Allocated(pool, count, busy) \in SUBSET Nat
  BY TypeOKParts, AllocatedIsFree DEF PoolInRange, PoolType
<1>4. CASE UNCHANGED <<store, polling, files, restarts, told>>
  BY <1>2, <1>4, TypeOKParts DEF store, files, TypeOK, PoolInRange, PoolType
<1>5. CASE AddProxy(NewProxy(u, name, "tcp", Allocated(pool, count, busy),
                             NoSubdomain, limit))
  <2>1. /\ proxies' \in Records /\ counter' \in 0 .. MaxId
        /\ balance' \in Amounts /\ recharged' \in Amounts
        /\ disk' \in DiskType /\ told' \in ToldType
    BY <1>3, <1>5, TypeOKParts, NewProxyType, AddProxyKeepsType
       DEF CreateAuto, ProxyTypes
  <2>2. UNCHANGED <<polling, rangeFile, restarts>>
    BY <1>5 DEF AddProxy
  <2>3. QED
    BY <1>2, <2>1, <2>2, TypeOKParts
       DEF TypeOK, PoolInRange, PoolType, Records, Amounts, DiskType, ToldType
<1>6. QED
  BY <1>1, <1>4, <1>5

\* The other three ways to create a proxy differ in what the pool gives up.
LEMMA CreateOthersKeepType ==
    ASSUME TypeOK, NEW u \in Users, NEW name \in Names, NEW limit \in Limits,
           \/ \E count \in 1 .. MaxTcpPorts, s \in pool.start .. pool.end :
                 CreateAt(u, name, limit, Window(s, count))
           \/ \E subdomain \in Subdomains : CreateHttp(u, name, limit, subdomain)
           \/ CreateXtcp(u, name, limit)
    PROVE  TypeOK'
<1>1. PICK proxy \in Proxy :
         /\ proxy.status = "active" /\ proxy.limit <= balance[proxy.uid]
         /\ counter < MaxId /\ AddProxy(proxy) /\ PoolInRange(pool')
  <2>1. CASE \E count \in 1 .. MaxTcpPorts, s \in pool.start .. pool.end :
                 CreateAt(u, name, limit, Window(s, count))
    <3>1. PICK count \in 1 .. MaxTcpPorts, s \in pool.start .. pool.end :
                 CreateAt(u, name, limit, Window(s, count))
      BY <2>1
    <3>2. Window(s, count) \in SUBSET Nat
      BY TypeOKParts, WindowType, ConstantsAssumption DEF PoolInRange, PoolType
    <3>3. PoolInRange(pool')
      BY <3>1, TypeOKParts, ReserveKeepsPool DEF CreateAt
    <3>4. QED
      BY <3>1, <3>2, <3>3, NewProxyType DEF CreateAt, ProxyTypes
  <2>2. CASE \E subdomain \in Subdomains : CreateHttp(u, name, limit, subdomain)
    <3>1. PoolInRange(pool')
      BY <2>2, TypeOKParts DEF CreateHttp
    <3>2. QED
      BY <2>2, <3>1, NewProxyType DEF CreateHttp, ProxyTypes
  <2>3. CASE CreateXtcp(u, name, limit)
    <3>1. PoolInRange(pool')
      BY <2>3, TypeOKParts DEF CreateXtcp
    <3>2. QED
      BY <2>3, <3>1, NewProxyType DEF CreateXtcp, ProxyTypes
  <2>4. QED
    BY <2>1, <2>2, <2>3
<1>2. /\ proxies' \in Records /\ counter' \in 0 .. MaxId
      /\ balance' \in Amounts /\ recharged' \in Amounts
      /\ disk' \in DiskType /\ told' \in ToldType
  BY <1>1, TypeOKParts, AddProxyKeepsType
<1>3. UNCHANGED <<polling, rangeFile, restarts>>
  BY <1>1 DEF AddProxy
<1>4. QED
  BY <1>1, <1>2, <1>3, TypeOKParts, TypeOKPartsPrimed

LEMMA RechargeKeepsType ==
    ASSUME TypeOK, NEW u \in Users, Recharge(u)
    PROVE  TypeOK'
<1>1. balance' \in Amounts /\ recharged' \in Amounts
  BY TypeOKParts, ConstantsAssumption DEF Recharge, Amounts
<1>2. disk' \in DiskType
  BY <1>1, TypeOKParts, SaveKeepsType DEF Recharge, SaveOnly
<1>3. QED
  BY <1>1, <1>2, TypeOKParts, TypeOKPartsPrimed DEF Recharge, SaveOnly

\* Deleting, stopping and starting, by the user and by the administrator.
LEMMA UserStatusKeepsType ==
    ASSUME TypeOK, NEW i \in Ids,
           \/ UserDelete(i) \/ UserDeleteAgain(i)
           \/ \E status \in LiveStatuses : UserSetStatus(i, status)
    PROVE  TypeOK'
<1>1. CASE UserDelete(i)
  <2>1. proxies' \in Records /\ proxies[i].ports \in SUBSET Nat
    BY <1>1, TypeOKParts, SetStatusKeepsType, LiveIsProxy DEF UserDelete, Live
  <2>2. PoolInRange(pool')
    BY <1>1, <2>1, TypeOKParts, ReleaseKeepsPool DEF UserDelete
  <2>3. disk' \in DiskType /\ told' \in ToldType
    BY <1>1, <2>1, TypeOKParts, SaveAndTellKeepsType DEF UserDelete
  <2>4. QED
    BY <1>1, <2>1, <2>2, <2>3, TypeOKParts, TypeOKPartsPrimed DEF UserDelete
<1>2. CASE UserDeleteAgain(i)
  BY <1>2, TypeOKParts, TypeOKPartsPrimed, TellKeepsType
     DEF UserDeleteAgain, store, files
<1>3. CASE \E status \in LiveStatuses : UserSetStatus(i, status)
  <2>1. PICK status \in LiveStatuses : UserSetStatus(i, status)
    BY <1>3
  <2>2. proxies' \in Records
    BY <2>1, TypeOKParts, SetStatusKeepsType DEF UserSetStatus
  <2>3. disk' \in DiskType /\ told' \in ToldType
    BY <2>1, <2>2, TypeOKParts, SaveAndTellKeepsType DEF UserSetStatus
  <2>4. QED
    BY <2>1, <2>2, <2>3, TypeOKParts, TypeOKPartsPrimed DEF UserSetStatus
<1>4. QED
  BY <1>1, <1>2, <1>3

LEMMA AdminKeepsType ==
    ASSUME TypeOK, NEW i \in Ids, AdminStop(i) \/ AdminStart(i) \/ AdminDelete(i)
    PROVE  TypeOK'
<1> USE ConstantsAssumption
<1>1. CASE AdminStop(i)
  <2>1. proxies' \in Records
    BY <1>1, TypeOKParts, SetStatusKeepsType DEF AdminStop, LiveStatuses
  <2>2. QED
    BY <1>1, <2>1, TypeOKParts, TypeOKPartsPrimed DEF AdminStop, files
<1>2. CASE AdminStart(i)
  <2>1. proxies' \in Records
    BY <1>2, TypeOKParts, SetStatusKeepsType DEF AdminStart, LiveStatuses
  <2>2. PoolInRange(pool')
    BY <1>2, TypeOKParts, ReserveKeepsPool DEF AdminStart
  <2>3. told' \in ToldType
    <3>1. (IF told[i] = "stopped_by_admin" THEN "active" ELSE told[i])
             \in LiveStatuses \cup {"deleted", "unknown"}
      BY TypeOKParts DEF ToldType, LiveStatuses
    <3>2. QED
      BY <1>2, <3>1, TypeOKParts, TellKeepsType DEF AdminStart
  <2>4. QED
    BY <1>2, <2>1, <2>2, <2>3, TypeOKParts, TypeOKPartsPrimed DEF AdminStart, files
<1>3. CASE AdminDelete(i)
  <2>1. proxies[i] \in Proxy /\ proxies[i].ports \in SUBSET Nat
    BY <1>3, TypeOKParts DEF AdminDelete, Records, Absent, Proxy, LiveStatuses
  <2>2. proxies' \in Records
    BY <1>3, TypeOKParts DEF AdminDelete, Records
  <2>3. PoolInRange(pool')
    BY <1>3, <2>1, TypeOKParts, ReleaseKeepsPool DEF AdminDelete
  <2>4. told' \in ToldType
    BY <1>3, TypeOKParts, TellKeepsType DEF AdminDelete
  <2>5. QED
    BY <1>3, <2>2, <2>3, <2>4, TypeOKParts, TypeOKPartsPrimed DEF AdminDelete, files
<1>4. QED
  BY <1>1, <1>2, <1>3

\* A raised limit is affordable, and a kept or lowered one costs nothing.
LEMMA LimitCostBounded ==
    ASSUME TypeOK, NEW i \in Ids, Live(i), NEW limit \in Nat,
           limit = proxies[i].limit \/ LimitAllowed(i, limit)
    PROVE  /\ LimitCost(i, limit) \in Nat
           /\ LimitCost(i, limit) <= balance[proxies[i].uid]
<1>1. /\ proxies[i].uid \in Users /\ proxies[i].limit \in Nat
      /\ balance[proxies[i].uid] \in Nat
  BY TypeOKParts, LiveIsProxy DEF Live, Amounts
<1>2. QED
  BY <1>1 DEF LimitAllowed, LimitCost

LEMMA RequestType ==
    ASSUME NEW i, NEW req \in UpdateRequests(i)
    PROVE  /\ req.name \in Names /\ req.limit \in Nat
           /\ req.subdomain \in Subdomains \cup {NoSubdomain}
<1>1. req.name \in Names /\ req.limit \in Limits \cup {Keep}
  BY DEF UpdateRequests
<1>2. req.subdomain \in IF proxies[i].type = "http" THEN Subdomains ELSE {NoSubdomain}
  BY DEF UpdateRequests
<1>3. Limits \cup {Keep} \subseteq Nat
  BY ConstantsAssumption DEF Keep
<1>4. QED
  BY <1>1, <1>2, <1>3

LEMMA UserUpdateKeepsType ==
    ASSUME TypeOK, NEW i \in Ids, NEW req \in UpdateRequests(i), UserUpdate(i, req)
    PROVE  TypeOK'
<1> USE ConstantsAssumption
<1> DEFINE u      == proxies[i].uid
           named  == ~HasName(u, req.name, i)
           rated  == /\ named /\ req.bad # "local"
                     /\ req.limit = Keep \/ LimitAllowed(i, req.limit)
           moved  == rated /\ ~SubdomainTaken(req.subdomain, i)
           limit  == IF req.limit = Keep THEN proxies[i].limit ELSE req.limit
<1>1. /\ Live(i)
      /\ proxies' = [proxies EXCEPT
              ![i].name      = req.name,
              ![i].limit     = IF rated THEN limit ELSE @,
              ![i].subdomain = IF moved THEN req.subdomain ELSE @]
      /\ balance' = [balance EXCEPT
              ![u] = IF rated THEN @ - LimitCost(i, limit) ELSE @]
      /\ UNCHANGED <<counter, recharged, pool, polling, rangeFile, restarts>>
      /\ SaveOnly \/ UNCHANGED <<disk, told>>
  BY DEF UserUpdate
<1>2. proxies[i] \in Proxy /\ u \in Users /\ proxies[i].limit \in Nat
  BY <1>1, TypeOKParts, LiveIsProxy DEF Live
<1>3. /\ req.name \in Names /\ req.limit \in Nat
      /\ req.subdomain \in Subdomains \cup {NoSubdomain}
  BY RequestType
<1>4. limit \in Nat
  BY <1>2, <1>3
<1>5. proxies' \in Records
  <2>1. [proxies[i] EXCEPT
            !.name      = req.name,
            !.limit     = IF rated THEN limit ELSE @,
            !.subdomain = IF moved THEN req.subdomain ELSE @] \in Proxy
    <3> HIDE DEF rated, moved, limit
    <3>1. QED
      BY <1>2, <1>3, <1>4 DEF Proxy
  <2>2. proxies' = [proxies EXCEPT ![i] =
          [proxies[i] EXCEPT
            !.name      = req.name,
            !.limit     = IF rated THEN limit ELSE @,
            !.subdomain = IF moved THEN req.subdomain ELSE @]]
    <3> HIDE DEF rated, moved, limit
    <3>1. QED
      BY <1>1, <1>2, TypeOKParts DEF Records, Proxy
  <2>3. QED
    BY <2>1, <2>2, TypeOKParts DEF Records
<1>6. balance' \in Amounts
  <2>1. rated => /\ LimitCost(i, limit) \in Nat
                 /\ LimitCost(i, limit) <= balance[u]
    BY <1>1, <1>2, <1>4, LimitCostBounded
  <2>2. QED
    <3> HIDE DEF rated, limit
    <3>1. QED
      BY <1>1, <1>2, <2>1, TypeOKParts DEF Amounts
<1>7. recharged' \in Amounts
  BY <1>1, TypeOKParts
<1>8. disk' \in DiskType /\ told' = told
  BY <1>1, <1>5, <1>6, <1>7, TypeOKParts, SaveKeepsType DEF SaveOnly
<1>9. QED
  BY <1>1, <1>5, <1>6, <1>7, <1>8, TypeOKParts, TypeOKPartsPrimed

LEMMA UpdateRangeKeepsType ==
    ASSUME TypeOK, NEW r \in Ranges, UpdateRange(r[1], r[2])
    PROVE  TypeOK'
<1>1. r = <<r[1], r[2]>> /\ r[1] \in Nat /\ r[2] \in Nat
  BY ConstantsAssumption
<1>2. PoolInRange(pool')
  BY <1>1, UpdatedPool DEF UpdateRange
<1>3. rangeFile' \in Ranges \cup {NoFile}
  BY <1>1, TypeOKParts DEF UpdateRange
<1>4. QED
  BY <1>2, <1>3, TypeOKParts, TypeOKPartsPrimed DEF UpdateRange, store

LEMMA PollRoundKeepsType ==
    ASSUME TypeOK, PollRound
    PROVE  TypeOK'
<1> USE ConstantsAssumption
<1>1. PICK delta \in Deltas :
         /\ proxies' = [i \in Ids |->
                IF Live(i) THEN Metered(i, delta[i]) ELSE proxies[i]]
         /\ balance' = [u \in Users |-> BalanceLeft(u, delta)]
  BY DEF PollRound
<1>2. proxies' \in Records
  <2>1. ASSUME NEW i \in Ids, Live(i)
        PROVE  Metered(i, delta[i]) \in Proxy
    <3>1. proxies[i] \in Proxy /\ proxies[i].used \in Nat
      BY <2>1, TypeOKParts, LiveIsProxy DEF Live
    <3>2. delta[i] \in Nat
      BY DEF Deltas
    <3> DEFINE used   == proxies[i].used + delta[i]
               status == IF used >= proxies[i].limit
                         THEN "stopped_by_admin" ELSE proxies[i].status
    <3>3. used \in Nat /\ status \in LiveStatuses
      BY <2>1, <3>1, <3>2 DEF Live, LiveIn, LiveStatuses
    <3>4. Metered(i, delta[i]) = [proxies[i] EXCEPT !.used = used, !.status = status]
      BY <3>1 DEF Metered
    <3> HIDE DEF used, status
    <3>5. QED
      BY <3>1, <3>3, <3>4 DEF Proxy
  <2>2. QED
    BY <1>1, <2>1, TypeOKParts DEF Records
<1>3. balance' \in Amounts
  <2>1. ASSUME NEW u \in Users
        PROVE  BalanceLeft(u, delta) \in Nat
    BY TypeOKParts DEF BalanceLeft, Amounts
  <2>2. QED
    BY <1>1, <2>1 DEF Amounts
<1>4. recharged' \in Amounts /\ disk' \in DiskType
  BY <1>2, <1>3, TypeOKParts, SaveKeepsType DEF PollRound
<1>5. polling' \in BOOLEAN
  BY TypeOKParts DEF PollRound
<1>6. QED
  BY <1>2, <1>3, <1>4, <1>5, TypeOKParts, TypeOKPartsPrimed DEF PollRound

LEMMA LoadedRangeType ==
    ASSUME NEW file \in Ranges \cup {NoFile}
    PROVE  /\ LoadedRange(file) \in Ranges
           /\ LoadedRange(file)[1] \in Nat /\ LoadedRange(file)[2] \in Nat
  BY ConstantsAssumption DEF LoadedRange

LEMMA BootKeepsType ==
    ASSUME TypeOK, NEW file \in Ranges \cup {NoFile}, Boot(file)
    PROVE  /\ proxies' \in Records /\ counter' \in 0 .. MaxId
           /\ balance' \in Amounts /\ recharged' \in Amounts
           /\ PoolInRange(pool') /\ polling' \in BOOLEAN
<1>1. /\ proxies' \in Records /\ balance' \in Amounts /\ recharged' \in Amounts
      /\ polling' \in BOOLEAN
  BY TypeOKParts DEF Boot, DiskType
<1>2. counter' \in 0 .. MaxId
  BY ConstantsAssumption DEF Boot, LastId, Ids
<1>3. PoolInRange(pool')
  <2> DEFINE loaded == NewPool(LoadedRange(file)[1], LoadedRange(file)[2])
  <2>1. PoolInRange(loaded)
    BY LoadedRangeType, FreshPool
  <2>2. PICK busy \in SUBSET BootBusyPorts :
           pool' = AfterReserve(loaded, OwnedIn(disk.proxies), busy)
    BY DEF Boot
  <2> HIDE DEF loaded
  <2>3. QED
    BY <2>1, <2>2, ReserveKeepsPool
<1>4. QED
  BY <1>1, <1>2, <1>3

LEMMA RestartKeepsType ==
    ASSUME TypeOK, Restart \/ RestartInRangeSave
    PROVE  TypeOK'
<1>1. restarts' \in 0 .. MaxRestarts
  BY TypeOKParts, ConstantsAssumption DEF Restart, RestartInRangeSave
<1>2. CASE Restart
  BY <1>1, <1>2, TypeOKParts, TypeOKPartsPrimed, BootKeepsType DEF Restart, files
<1>3. CASE RestartInRangeSave
  BY <1>1, <1>3, TypeOKParts, TypeOKPartsPrimed, BootKeepsType
     DEF RestartInRangeSave
<1>4. QED
  BY <1>2, <1>3

LEMMA InitTypeOK == Init => TypeOK
<1> SUFFICES ASSUME Init PROVE TypeOK
  OBVIOUS
<1> USE ConstantsAssumption
<1>1. proxies \in Records /\ balance \in Amounts /\ recharged \in Amounts
  BY DEF Init, Records, Amounts
<1>2. disk \in DiskType
  BY <1>1 DEF Init, Snapshot, DiskType
<1>3. PoolInRange(pool)
  BY FreshPool DEF Init
<1>4. told \in ToldType
  BY DEF Init, ToldType
<1>5. QED
  BY <1>1, <1>2, <1>3, <1>4, TypeOKParts DEF Init

LEMMA NextKeepsType == TypeOK /\ [Next]_vars => TypeOK'
<1> SUFFICES ASSUME TypeOK, [Next]_vars PROVE TypeOK'
  OBVIOUS
<1>1. CASE UserNext
  BY <1>1, RechargeKeepsType, CreateAutoKeepsType, CreateOthersKeepType,
     UserStatusKeepsType, UserUpdateKeepsType DEF UserNext
<1>2. CASE AdminNext
  BY <1>2, AdminKeepsType, UpdateRangeKeepsType DEF AdminNext
<1>3. CASE PollRound
  BY <1>3, PollRoundKeepsType
<1>4. CASE Restart \/ RestartInRangeSave
  BY <1>4, RestartKeepsType
<1>5. CASE UNCHANGED vars
  BY <1>5, TypeOKParts, TypeOKPartsPrimed DEF vars
<1>6. QED
  BY <1>1, <1>2, <1>3, <1>4, <1>5 DEF Next

\* Whatever the users, the administrator, the poller, failing saves and
\* crashes do, the state has its type: no balance turns negative, no port
\* outside the range is ever free, and what is on disk can be loaded.
THEOREM TypeCorrect == Spec => []TypeOK
<1>1. Init => TypeOK
  BY InitTypeOK
<1>2. TypeOK /\ [Next]_vars => TypeOK'
  BY NextKeepsType
<1>3. QED
  BY <1>1, <1>2, PTL DEF Spec

----------------------------------------------------------------------------
(* Who maps which port.                                                    *)

LEMMA OwnedInclusion ==
    ASSUME NEW qs, NEW ps, Within(qs, ps)
    PROVE  /\ OwnedIn(qs) \subseteq OwnedIn(ps)
           /\ ExclusiveIn(ps) => ExclusiveIn(qs)
  BY DEF Within, OwnedIn, ExclusiveIn

\* Ports that an exclusive record gives up belong to no other record.
LEMMA OwnedWithout ==
    ASSUME NEW qs, NEW ps, Within(qs, ps), ExclusiveIn(ps),
           NEW i \in Ids, LiveIn(ps, i), ~LiveIn(qs, i)
    PROVE  OwnedIn(qs) \cap ps[i].ports = {}
  BY DEF Within, OwnedIn, ExclusiveIn

\* A record with ports nobody maps may take any id.
LEMMA OwnedWith ==
    ASSUME NEW ps \in Records, NEW i \in Ids, NEW proxy \in Proxy,
           proxy.ports \cap OwnedIn(ps) = {}
    PROVE  LET qs == [ps EXCEPT ![i] = proxy]
           IN  /\ OwnedIn(qs) \subseteq OwnedIn(ps) \cup proxy.ports
               /\ ExclusiveIn(ps) => ExclusiveIn(qs)
<1> DEFINE qs == [ps EXCEPT ![i] = proxy]
<1>1. qs[i] = proxy /\ \A j \in Ids \ {i} : qs[j] = ps[j]
  BY DEF Records
<1>2. \A j \in Ids : LiveIn(ps, j) => ps[j].ports \subseteq OwnedIn(ps)
  BY DEF OwnedIn
<1> HIDE DEF qs
<1>3. OwnedIn(qs) \subseteq OwnedIn(ps) \cup proxy.ports
  BY <1>1 DEF OwnedIn, LiveIn
<1>4. ExclusiveIn(ps) => ExclusiveIn(qs)
  BY <1>1, <1>2 DEF ExclusiveIn, LiveIn
<1>5. QED
  BY <1>3, <1>4 DEF qs

LEMMA SavedOrNot ==
    ASSUME Saved \/ SaveFailed \/ UNCHANGED disk
    PROVE  disk'.proxies \in {proxies', disk.proxies}
  BY DEF Saved, SaveFailed, Snapshot

LEMMA ToldOrNot ==
    ASSUME NEW i, NEW status, SaveAndTell(i, status)
    PROVE  Saved \/ SaveFailed
  BY DEF SaveAndTell

\* Handlers that change a live record's status, or nothing but the fields
\* the ports do not depend on.
LEMMA StatusIsWithin ==
    ASSUME TypeOK, NEW i \in Ids, Live(i), NEW status,
           proxies' = [proxies EXCEPT ![i].status = status]
    PROVE  Within(proxies', proxies)
<1>1. proxies[i] \in Proxy
  BY TypeOKParts, LiveIsProxy DEF Live
<1>2. /\ proxies'[i].ports = proxies[i].ports
      /\ \A j \in Ids \ {i} : proxies'[j] = proxies[j]
  BY <1>1, TypeOKParts DEF Records, Proxy
<1>3. QED
  BY <1>2 DEF Within, Live, LiveIn


\* Writing the status of one record.
LEMMA SetStatus ==
    ASSUME TypeOK, NEW i \in Ids, Live(i), NEW status,
           proxies' = [proxies EXCEPT ![i].status = status]
    PROVE  /\ proxies'[i].status = status
           /\ \A j \in Ids \ {i} : proxies'[j] = proxies[j]
<1>1. proxies[i] \in Proxy
  BY TypeOKParts, LiveIsProxy DEF Live
<1>2. QED
  BY <1>1, TypeOKParts DEF Records, Proxy

LEMMA StatusKeepsOwners ==
    ASSUME TypeOK, NEW i \in Ids, Live(i), NEW status \in LiveStatuses,
           proxies' = [proxies EXCEPT ![i].status = status]
    PROVE  SameOwners(proxies', proxies)
<1>1. proxies'[i].ports = proxies[i].ports
  BY TypeOKParts, LiveIsProxy DEF Live, Records, Proxy
<1>2. QED
  BY <1>1, SetStatus DEF SameOwners, Within, Live, LiveIn

LEMMA UpdateKeepsOwners ==
    ASSUME TypeOK, NEW i \in Ids, NEW req, UserUpdate(i, req)
    PROVE  SameOwners(proxies', proxies)
<1>1. proxies[i] \in Proxy
  BY TypeOKParts, LiveIsProxy DEF UserUpdate, Live
<1>2. PICK limit, subdomain :
         proxies' = [proxies EXCEPT ![i].name      = req.name,
                                    ![i].limit     = limit,
                                    ![i].subdomain = subdomain]
  BY DEF UserUpdate
<1>3. /\ proxies'[i].ports = proxies[i].ports
      /\ proxies'[i].status = proxies[i].status
      /\ \A j \in Ids \ {i} : proxies'[j] = proxies[j]
  BY <1>1, <1>2, TypeOKParts DEF Records, Proxy
<1>4. QED
  BY <1>3 DEF SameOwners, Within, LiveIn

LEMMA PollKeepsOwners ==
    ASSUME TypeOK, PollRound
    PROVE  SameOwners(proxies', proxies)
<1>1. PICK delta \in Deltas :
         proxies' = [i \in Ids |->
                IF Live(i) THEN Metered(i, delta[i]) ELSE proxies[i]]
  BY DEF PollRound
<1>2. ASSUME NEW i \in Ids, Live(i)
      PROVE  /\ Metered(i, delta[i]).ports = proxies[i].ports
             /\ Metered(i, delta[i]).status \in LiveStatuses
  <2>1. proxies[i] \in Proxy
    BY <1>2, TypeOKParts, LiveIsProxy DEF Live
  <2>2. QED
    BY <1>2, <2>1 DEF Metered, Proxy, Live, LiveIn, LiveStatuses
<1>3. QED
  BY <1>1, <1>2 DEF SameOwners, Within, Live, LiveIn

\* create_proxy fails without a trace but for ports the pool has given up, or
\* adds an active record whose ports were free and no longer are.
LEMMA CreateShape ==
    ASSUME TypeOK, NEW u \in Users, NEW name \in Names, NEW limit \in Limits,
           \/ \E count \in 1 .. MaxTcpPorts : CreateAuto(u, name, limit, count)
           \/ \E count \in 1 .. MaxTcpPorts, s \in pool.start .. pool.end :
                 CreateAt(u, name, limit, Window(s, count))
           \/ \E subdomain \in Subdomains : CreateHttp(u, name, limit, subdomain)
           \/ CreateXtcp(u, name, limit)
    PROVE  /\ pool'.start = pool.start /\ pool'.end = pool.end
           /\ pool'.available \subseteq pool.available
           /\ \/ UNCHANGED <<store, polling, files, restarts, told>>
              \/ \E proxy \in Proxy :
                    /\ AddProxy(proxy) /\ counter < MaxId /\ proxy.status = "active"
                    /\ proxy.ports \subseteq pool.available
                    /\ pool'.available \subseteq pool.available \ proxy.ports
<1>0. TypeOK /\ PoolInRange(pool)
  BY TypeOKParts
<1>1. CASE \E count \in 1 .. MaxTcpPorts : CreateAuto(u, name, limit, count)
  <2>1. PICK count \in 1 .. MaxTcpPorts : CreateAuto(u, name, limit, count)
    BY <1>1
  <2>2. PICK busy \in SUBSET BusyPorts :
           /\ pool' = AfterAllocate(pool, count, busy)
           /\ LET ports == Allocated(pool, count, busy)
              IN  \/ AddProxy(NewProxy(u, name, "tcp", ports, NoSubdomain, limit))
                  \/ UNCHANGED <<store, polling, files, restarts, told>>
    BY <2>1 DEF CreateAuto
  <2>3. /\ pool'.start = pool.start /\ pool'.end = pool.end
        /\ pool'.available \subseteq pool.available \ Allocated(pool, count, busy)
    BY <1>0, <2>2, AllocateKeepsPool
  <2>4. CASE UNCHANGED <<store, polling, files, restarts, told>>
    BY <2>3, <2>4
  <2>5. CASE AddProxy(NewProxy(u, name, "tcp", Allocated(pool, count, busy),
                               NoSubdomain, limit))
    <3> DEFINE proxy == NewProxy(u, name, "tcp", Allocated(pool, count, busy),
                                 NoSubdomain, limit)
    <3>1. Allocated(pool, count, busy) \subseteq pool.available
      BY <1>0, AllocatedIsFree DEF PoolInRange
    <3>2. Allocated(pool, count, busy) \in SUBSET Nat
      BY <1>0, <3>1 DEF PoolInRange, PoolType
    <3>3. /\ proxy \in Proxy /\ counter < MaxId /\ proxy.status = "active"
          /\ proxy.ports = Allocated(pool, count, busy)
      BY <2>1, <3>2, NewProxyType DEF CreateAuto, ProxyTypes, NewProxy
    <3> HIDE DEF proxy
    <3>4. QED
      BY <2>3, <2>5, <3>1, <3>3 DEF proxy
  <2>6. QED
    BY <2>2, <2>4, <2>5
<1>2. CASE \E count \in 1 .. MaxTcpPorts, s \in pool.start .. pool.end :
              CreateAt(u, name, limit, Window(s, count))
  <2>1. PICK count \in 1 .. MaxTcpPorts, s \in pool.start .. pool.end :
              CreateAt(u, name, limit, Window(s, count))
    BY <1>2
  <2> DEFINE ports == Window(s, count)
             proxy == NewProxy(u, name, "tcp", ports, NoSubdomain, limit)
  <2>2. ports \in SUBSET Nat
    BY <1>0, WindowType, ConstantsAssumption DEF PoolInRange, PoolType
  <2>3. /\ proxy \in Proxy /\ counter < MaxId /\ proxy.status = "active"
        /\ proxy.ports = ports
    BY <2>1, <2>2, NewProxyType DEF CreateAt, ProxyTypes, NewProxy
  <2>4. AddProxy(proxy)
    BY <2>1 DEF CreateAt
  <2> HIDE DEF ports, proxy
  <2>5. PICK busy : /\ UnavailablePorts(pool, ports, busy) = {}
                    /\ pool' = AfterReserve(pool, ports, busy)
    BY <2>1 DEF CreateAt, ports
  <2>6. /\ pool'.start = pool.start /\ pool'.end = pool.end
        /\ pool'.available = pool.available \ ports
    BY <1>0, <2>5, ReserveKeepsPool
  <2>7. ports \subseteq pool.available
    BY <2>5 DEF UnavailablePorts
  <2>8. QED
    BY <2>3, <2>4, <2>6, <2>7
<1>3. CASE \/ \E subdomain \in Subdomains : CreateHttp(u, name, limit, subdomain)
           \/ CreateXtcp(u, name, limit)
  <2>1. PICK proxy \in Proxy :
           /\ AddProxy(proxy) /\ proxy.ports = {} /\ counter < MaxId
           /\ proxy.status = "active" /\ UNCHANGED pool
    <3>1. ASSUME NEW subdomain \in Subdomains, CreateHttp(u, name, limit, subdomain)
          PROVE  \E proxy \in Proxy :
                    /\ AddProxy(proxy) /\ proxy.ports = {} /\ counter < MaxId
                    /\ proxy.status = "active" /\ UNCHANGED pool
      BY <3>1, NewProxyType DEF CreateHttp, ProxyTypes, NewProxy
    <3>2. CASE CreateXtcp(u, name, limit)
      BY <3>2, NewProxyType DEF CreateXtcp, ProxyTypes, NewProxy
    <3>3. QED
      BY <1>3, <3>1, <3>2
  <2>2. QED
    BY <2>1
<1>4. QED
  BY <1>1, <1>2, <1>3

----------------------------------------------------------------------------
(* The ports with a fixed range: failing saves, crashes, busy ports *)
(* and the unsaved operations of the administrator included.               *)

\* A step that keeps the pool's range keeps the invariant if the records of
\* the next state are exclusive, in range, and not free.
LEMMA PortStep ==
    ASSUME PortInvariant, TypeOK',
           ExclusiveIn(proxies'),
           OwnedIn(proxies') \cap pool'.available = {},
           OwnedIn(proxies') \subseteq PortRange(pool.start, pool.end),
           pool'.start = pool.start, pool'.end = pool.end,
           disk'.proxies \in {proxies', disk.proxies}
    PROVE  PortInvariant'
  BY DEF PortInvariant, PortsExclusive, OwnedPortsReserved, OwnedPortsInRange, Owned

\* In particular if no record gains a port and the pool frees none.
LEMMA PortStepWithin ==
    ASSUME PortInvariant, TypeOK', Within(proxies', proxies),
           pool'.start = pool.start, pool'.end = pool.end,
           pool'.available \subseteq pool.available,
           Saved \/ SaveFailed \/ UNCHANGED disk
    PROVE  PortInvariant'
<1>1. /\ ExclusiveIn(proxies')
      /\ OwnedIn(proxies') \subseteq OwnedIn(proxies)
  BY OwnedInclusion DEF PortInvariant, PortsExclusive
<1>2. QED
  BY <1>1, SavedOrNot, PortStep
     DEF PortInvariant, OwnedPortsReserved, OwnedPortsInRange, Owned

\* Or if a record stops being live and its ports are freed.
LEMMA PortStepRelease ==
    ASSUME PortInvariant, TypeOK', Within(proxies', proxies),
           NEW i \in Ids, Live(i), ~LiveIn(proxies', i),
           pool' = AfterRelease(pool, proxies[i].ports),
           Saved \/ SaveFailed \/ UNCHANGED disk
    PROVE  PortInvariant'
<1>1. /\ ExclusiveIn(proxies')
      /\ OwnedIn(proxies') \subseteq OwnedIn(proxies)
      /\ OwnedIn(proxies') \cap proxies[i].ports = {}
  BY OwnedInclusion, OwnedWithout DEF PortInvariant, PortsExclusive, Live
<1>2. /\ pool'.start = pool.start /\ pool'.end = pool.end
      /\ pool'.available \subseteq pool.available \cup proxies[i].ports
  BY TypeOKParts, LiveIsProxy, ReleaseKeepsPool DEF PortInvariant, Live
<1>3. QED
  BY <1>1, <1>2, SavedOrNot, PortStep
     DEF PortInvariant, OwnedPortsReserved, OwnedPortsInRange, Owned

\* Or if a new record takes ports that were free and are free no more.
LEMMA PortStepAdd ==
    ASSUME PortInvariant, TypeOK', counter < MaxId,
           NEW proxy \in Proxy, AddProxy(proxy),
           proxy.ports \subseteq pool.available,
           pool'.start = pool.start, pool'.end = pool.end,
           pool'.available \subseteq pool.available \ proxy.ports
    PROVE  PortInvariant'
<1>1. counter + 1 \in Ids
  BY TypeOKParts, ConstantsAssumption DEF PortInvariant, Ids
<1>2. proxies' = [proxies EXCEPT ![counter + 1] = proxy]
  BY DEF AddProxy
<1>3. proxy.ports \cap OwnedIn(proxies) = {}
  BY DEF PortInvariant, OwnedPortsReserved, Owned
<1>4. /\ OwnedIn(proxies') \subseteq OwnedIn(proxies) \cup proxy.ports
      /\ ExclusiveIn(proxies')
  BY <1>1, <1>2, <1>3, OwnedWith, TypeOKParts DEF PortInvariant, PortsExclusive
<1>5. proxy.ports \subseteq PortRange(pool.start, pool.end)
  BY TypeOKParts DEF PortInvariant, PoolInRange
<1>6. disk'.proxies \in {proxies', disk.proxies}
  BY SavedOrNot, ToldOrNot DEF AddProxy
<1>7. QED
  BY <1>4, <1>5, <1>6, PortStep
     DEF PortInvariant, OwnedPortsReserved, OwnedPortsInRange, Owned

LEMMA CreateKeepsPorts ==
    ASSUME PortInvariant, TypeOK',
           NEW u \in Users, NEW name \in Names, NEW limit \in Limits,
           \/ \E count \in 1 .. MaxTcpPorts : CreateAuto(u, name, limit, count)
           \/ \E count \in 1 .. MaxTcpPorts, s \in pool.start .. pool.end :
                 CreateAt(u, name, limit, Window(s, count))
           \/ \E subdomain \in Subdomains : CreateHttp(u, name, limit, subdomain)
           \/ CreateXtcp(u, name, limit)
    PROVE  PortInvariant'
<1>1. TypeOK
  BY DEF PortInvariant
<1>2. CASE UNCHANGED <<store, polling, files, restarts, told>>
  BY <1>1, <1>2, CreateShape, PortStepWithin DEF store, files, Within
<1>3. QED
  BY <1>1, <1>2, CreateShape, PortStepAdd

LEMMA UserKeepsPorts ==
    ASSUME PortInvariant, TypeOK', NEW i \in Ids,
           \/ UserDelete(i) \/ UserDeleteAgain(i)
           \/ \E status \in LiveStatuses : UserSetStatus(i, status)
           \/ Live(i) /\ \E req \in UpdateRequests(i) : UserUpdate(i, req)
    PROVE  PortInvariant'
<1>0. TypeOK
  BY DEF PortInvariant
<1>1. CASE UserDelete(i)
  <2>1. Within(proxies', proxies)
    BY <1>0, <1>1, StatusIsWithin DEF UserDelete
  <2>2. ~LiveIn(proxies', i)
    BY <1>0, <1>1, TypeOKParts, LiveIsProxy
       DEF UserDelete, Live, LiveIn, LiveStatuses, Records, Proxy
  <2>3. QED
    BY <1>1, <2>1, <2>2, ToldOrNot, PortStepRelease DEF UserDelete
<1>2. CASE UserDeleteAgain(i)
  BY <1>2, PortStepWithin DEF UserDeleteAgain, store, files, Within
<1>3. CASE \E status \in LiveStatuses : UserSetStatus(i, status)
  BY <1>0, <1>3, StatusIsWithin, ToldOrNot, PortStepWithin DEF UserSetStatus
<1>4. CASE \E req \in UpdateRequests(i) : UserUpdate(i, req)
  BY <1>0, <1>4, UpdateKeepsOwners, PortStepWithin
     DEF UserUpdate, SaveOnly, SameOwners
<1>5. QED
  BY <1>1, <1>2, <1>3, <1>4

LEMMA AdminKeepsPorts ==
    ASSUME FixedRange, PortInvariant, TypeOK', NEW i \in Ids,
           AdminStop(i) \/ AdminStart(i) \/ AdminDelete(i)
    PROVE  PortInvariant'
<1>0. TypeOK /\ PoolInRange(pool)
  BY TypeOKParts DEF PortInvariant
<1>1. CASE AdminStop(i)
  BY <1>0, <1>1, StatusIsWithin, PortStepWithin DEF AdminStop, files
<1>2. CASE AdminStart(i)
  <2>1. Within(proxies', proxies)
    BY <1>0, <1>2, StatusIsWithin DEF AdminStart
  <2>2. /\ pool'.start = pool.start /\ pool'.end = pool.end
        /\ pool'.available \subseteq pool.available
    BY <1>0, <1>2, ReserveKeepsPool DEF AdminStart
  <2>3. QED
    BY <1>2, <2>1, <2>2, PortStepWithin DEF AdminStart, files
<1>3. CASE AdminDelete(i)
  <2>1. Live(i)
    BY <1>3 DEF AdminDelete, FixedRange, Live, LiveIn
  <2>2. /\ proxies'[i] = Absent
        /\ \A j \in Ids \ {i} : proxies'[j] = proxies[j]
    BY <1>0, <1>3, TypeOKParts DEF AdminDelete, Records
  <2>3. Within(proxies', proxies) /\ ~LiveIn(proxies', i)
    BY <2>2 DEF Within, LiveIn, LiveStatuses, Absent
  <2>4. QED
    BY <1>3, <2>1, <2>3, PortStepRelease DEF AdminDelete, files
<1>4. QED
  BY <1>1, <1>2, <1>3

LEMMA UpdateRangeKeepsPorts ==
    ASSUME FixedRange, PortInvariant, TypeOK',
           NEW r \in Ranges, UpdateRange(r[1], r[2])
    PROVE  PortInvariant'
<1>1. r[1] = pool.start /\ r[2] = pool.end /\ r[1] \in Nat /\ r[2] \in Nat
  BY ConstantsAssumption DEF FixedRange, PortInvariant
<1>2. /\ pool'.start = pool.start /\ pool'.end = pool.end
      /\ pool'.available = PortRange(r[1], r[2]) \ Owned
  BY <1>1, UpdatedPool DEF UpdateRange
<1>3. proxies' = proxies /\ disk' = disk
  BY DEF UpdateRange, store
<1>4. QED
  BY <1>2, <1>3, PortStep
     DEF PortInvariant, PortsExclusive, OwnedPortsInRange, Owned

\* The one all-or-nothing reservation at boot succeeds: no port is busy, and
\* all ports of the loaded records are in the range.
LEMMA BootKeepsPorts ==
    ASSUME FixedRange, PortInvariant, TypeOK', disk' = disk,
           NEW file \in Ranges \cup {NoFile}, Boot(file)
    PROVE  PortInvariant'
<1> DEFINE s      == DefaultRange[1]
           e      == DefaultRange[2]
           loaded == NewPool(s, e)
<1>1. s \in Nat /\ e \in Nat /\ LoadedRange(file) = DefaultRange
  BY ConstantsAssumption DEF FixedRange, LoadedRange
<1>2. pool' = AfterReserve(loaded, OwnedIn(disk.proxies), {})
  BY <1>1 DEF Boot, FixedRange
<1>3. /\ PoolInRange(loaded) /\ loaded.start = s /\ loaded.end = e
      /\ loaded.available = PortRange(s, e)
  BY <1>1, FreshPool
<1>4. UnavailablePorts(loaded, OwnedIn(disk.proxies), {}) = {}
  <2>1. OwnedIn(disk.proxies) \subseteq PortRange(s, e)
    BY DEF PortInvariant
  <2> HIDE DEF s, e, loaded
  <2>2. QED
    BY <1>1, <1>3, <2>1 DEF UnavailablePorts, InRange, PortRange
<1> HIDE DEF s, e, loaded
<1>5. /\ pool'.start = s /\ pool'.end = e
      /\ pool'.available = PortRange(s, e) \ OwnedIn(disk.proxies)
  BY <1>2, <1>3, <1>4, ReserveKeepsPool
<1>6. proxies' = disk.proxies
  BY DEF Boot
<1>7. QED
  BY <1>5, <1>6, PortStep DEF PortInvariant, s, e

LEMMA NextKeepsPorts ==
    ASSUME FixedRange, PortInvariant, [Next]_vars
    PROVE  PortInvariant'
<1>0. TypeOK /\ TypeOK'
  BY NextKeepsType DEF PortInvariant
<1>1. CASE UserNext
  <2>1. CASE \E u \in Users : Recharge(u)
    BY <1>0, <2>1, PortStepWithin DEF Recharge, SaveOnly, Within
  <2>2. QED
    BY <1>0, <1>1, <2>1, CreateKeepsPorts, UserKeepsPorts DEF UserNext
<1>2. CASE AdminNext
  BY <1>0, <1>2, AdminKeepsPorts, UpdateRangeKeepsPorts DEF AdminNext
<1>3. CASE PollRound
  BY <1>0, <1>3, PollKeepsOwners, PortStepWithin DEF PollRound, SameOwners
<1>4. CASE Restart \/ RestartInRangeSave
  BY <1>0, <1>4, TypeOKParts, BootKeepsPorts DEF Restart, RestartInRangeSave, files
<1>5. CASE UNCHANGED vars
  BY <1>0, <1>5, PortStepWithin DEF vars, Within
<1>6. QED
  BY <1>1, <1>2, <1>3, <1>4, <1>5 DEF Next

LEMMA InitPorts ==
    ASSUME FixedRange, Init
    PROVE  PortInvariant
<1>1. \A i \in Ids : ~LiveIn(proxies, i)
  BY DEF Init, LiveIn, LiveStatuses, Absent
<1>2. OwnedIn(proxies) = {} /\ ExclusiveIn(proxies)
  BY <1>1 DEF OwnedIn, ExclusiveIn
<1>3. disk.proxies = proxies
  BY DEF Init, Snapshot
<1>4. pool.start = DefaultRange[1] /\ pool.end = DefaultRange[2]
  BY DEF Init, NewPool
<1>5. QED
  BY <1>2, <1>3, <1>4, InitTypeOK
     DEF PortInvariant, PortsExclusive, OwnedPortsReserved, OwnedPortsInRange, Owned

----------------------------------------------------------------------------
(* Acknowledged proxies survive, under no assumption but the types.        *)

\* A step that tells the owners nothing new keeps the invariant if it keeps
\* the records' statuses as they were told.
LEMMA AckStep ==
    ASSUME AckInvariant, TypeOK', told' = told,
           \A i \in Ids : AckedAt(proxies, i) => AckedAt(proxies', i),
           Saved \/ SaveFailed \/ UNCHANGED disk
    PROVE  AckInvariant'
<1>1. disk'.proxies \in {proxies', disk.proxies}
  BY SavedOrNot
<1>2. \A i \in Ids : AckedAt(proxies', i) /\ AckedAt(disk'.proxies, i)
  BY <1>1 DEF AckInvariant
<1>3. QED
  BY <1>2 DEF AckInvariant, AckedAt

\* In particular if it changes no status, or only to stopped_by_admin.
LEMMA AckStepStatus ==
    ASSUME AckInvariant, TypeOK', told' = told,
           \A i \in Ids : \/ proxies'[i].status = proxies[i].status
                          \/ Live(i) /\ proxies'[i].status = "stopped_by_admin",
           Saved \/ SaveFailed \/ UNCHANGED disk
    PROVE  AckInvariant'
  BY AckStep DEF AckedAt, LiveIn, LiveStatuses

\* Or if it changes one record, and tells its owner the new status exactly
\* when it has saved it.
LEMMA AckStepTell ==
    ASSUME AckInvariant, TypeOK', NEW i \in Ids, NEW status,
           SaveAndTell(i, status), proxies'[i].status = status,
           \A j \in Ids \ {i} : proxies'[j] = proxies[j]
    PROVE  AckInvariant'
<1>0. told \in ToldType
  BY TypeOKParts DEF AckInvariant
<1>1. ASSUME NEW j \in Ids \ {i}
      PROVE  AckedAt(proxies, j)' /\ AckedAt(disk.proxies, j)'
  <2>1. told'[j] = told[j]
    BY <1>0 DEF SaveAndTell, Tell, ToldType
  <2>2. disk'.proxies[j] \in {proxies[j], disk.proxies[j]}
    BY SavedOrNot, ToldOrNot
  <2>3. QED
    BY <2>1, <2>2 DEF AckInvariant, AckedAt, LiveIn
<1>2. CASE Saved /\ Tell(i, status)
  <2>1. disk'.proxies = proxies' /\ told'[i] = status
    BY <1>0, <1>2 DEF Saved, Snapshot, Tell, ToldType
  <2>2. AckedAt(proxies, i)' /\ AckedAt(disk.proxies, i)'
    BY <2>1 DEF AckedAt, LiveIn
  <2>3. QED
    BY <1>1, <2>2 DEF AckInvariant
<1>3. CASE Tell(i, "unknown")
  <2>1. told'[i] = "unknown"
    BY <1>0, <1>3 DEF Tell, ToldType
  <2>2. AckedAt(proxies, i)' /\ AckedAt(disk.proxies, i)'
    BY <2>1 DEF AckedAt, LiveStatuses
  <2>3. QED
    BY <1>1, <2>2 DEF AckInvariant
<1>4. QED
  BY <1>2, <1>3 DEF SaveAndTell

LEMMA AddProxyAcks ==
    ASSUME AckInvariant, TypeOK', counter < MaxId,
           NEW proxy, proxy.status = "active", AddProxy(proxy)
    PROVE  AckInvariant'
<1>1. counter + 1 \in Ids
  BY TypeOKParts, ConstantsAssumption DEF AckInvariant, Ids
<1>2. /\ proxies'[counter + 1].status = "active"
      /\ \A j \in Ids \ {counter + 1} : proxies'[j] = proxies[j]
  BY <1>1, TypeOKParts DEF AddProxy, AckInvariant, Records
<1>3. QED
  BY <1>1, <1>2, AckStepTell DEF AddProxy

LEMMA CreateAcks ==
    ASSUME AckInvariant, TypeOK',
           NEW u \in Users, NEW name \in Names, NEW limit \in Limits,
           \/ \E count \in 1 .. MaxTcpPorts : CreateAuto(u, name, limit, count)
           \/ \E count \in 1 .. MaxTcpPorts, s \in pool.start .. pool.end :
                 CreateAt(u, name, limit, Window(s, count))
           \/ \E subdomain \in Subdomains : CreateHttp(u, name, limit, subdomain)
           \/ CreateXtcp(u, name, limit)
    PROVE  AckInvariant'
<1>1. TypeOK
  BY DEF AckInvariant
<1>2. CASE UNCHANGED <<store, polling, files, restarts, told>>
  BY <1>2, AckStepStatus DEF store, files
<1>3. QED
  BY <1>1, <1>2, CreateShape, AddProxyAcks

LEMMA UserAcks ==
    ASSUME AckInvariant, TypeOK', NEW i \in Ids,
           \/ UserDelete(i) \/ UserDeleteAgain(i)
           \/ \E status \in LiveStatuses : UserSetStatus(i, status)
           \/ Live(i) /\ \E req \in UpdateRequests(i) : UserUpdate(i, req)
    PROVE  AckInvariant'
<1>0. TypeOK
  BY DEF AckInvariant
<1>1. CASE UserDelete(i)
  BY <1>0, <1>1, SetStatus, AckStepTell DEF UserDelete
<1>2. CASE UserDeleteAgain(i)
  <2>1. told' = [told EXCEPT ![i] = "deleted"] /\ proxies' = proxies /\ disk' = disk
    BY <1>2 DEF UserDeleteAgain, Tell, store, files
  <2>2. told'[i] = "deleted" /\ \A j \in Ids \ {i} : told'[j] = told[j]
    BY <1>0, <2>1, TypeOKParts DEF ToldType
  <2>3. QED
    BY <2>1, <2>2 DEF AckInvariant, AckedAt, LiveStatuses
<1>3. CASE \E status \in LiveStatuses : UserSetStatus(i, status)
  BY <1>0, <1>3, SetStatus, AckStepTell DEF UserSetStatus
<1>4. CASE \E req \in UpdateRequests(i) : UserUpdate(i, req)
  <2>1. PICK req \in UpdateRequests(i) : UserUpdate(i, req)
    BY <1>4
  <2>2. PICK name, limit, subdomain :
           proxies' = [proxies EXCEPT ![i].name      = name,
                                      ![i].limit     = limit,
                                      ![i].subdomain = subdomain]
    BY <2>1 DEF UserUpdate
  <2>3. proxies[i] \in Proxy
    BY <1>0, <2>1, TypeOKParts, LiveIsProxy DEF UserUpdate, Live
  <2>4. \A j \in Ids : proxies'[j].status = proxies[j].status
    BY <1>0, <2>2, <2>3, TypeOKParts DEF Records, Proxy
  <2>5. told' = told /\ (Saved \/ SaveFailed \/ UNCHANGED disk)
    BY <2>1 DEF UserUpdate, SaveOnly
  <2>6. QED
    BY <2>4, <2>5, AckStepStatus
<1>5. QED
  BY <1>1, <1>2, <1>3, <1>4

LEMMA AdminAcks ==
    ASSUME AckInvariant, TypeOK', NEW i \in Ids,
           AdminStop(i) \/ AdminStart(i) \/ AdminDelete(i)
    PROVE  AckInvariant'
<1>0. TypeOK /\ told \in ToldType
  BY TypeOKParts DEF AckInvariant
<1>1. CASE AdminStop(i)
  BY <1>0, <1>1, SetStatus, AckStepStatus DEF AdminStop, files
<1>2. CASE AdminStart(i)
  <2>1. /\ proxies'[i].status = "active"
        /\ \A j \in Ids \ {i} : proxies'[j] = proxies[j]
    BY <1>0, <1>2, SetStatus DEF AdminStart
  <2>2. told'[i] = IF told[i] = "stopped_by_admin" THEN "active" ELSE told[i]
    BY <1>0, <1>2 DEF AdminStart, Tell, ToldType
  <2>3. \A j \in Ids \ {i} : told'[j] = told[j]
    BY <1>0, <1>2 DEF AdminStart, Tell, ToldType
  <2>4. disk' = disk
    BY <1>2 DEF AdminStart, files
  <2>5. AckedAt(proxies, i)' /\ AckedAt(disk.proxies, i)'
    BY <2>1, <2>2, <2>4 DEF AckInvariant, AckedAt, LiveIn, LiveStatuses
  <2>6. \A j \in Ids \ {i} : AckedAt(proxies, j)' /\ AckedAt(disk.proxies, j)'
    BY <2>1, <2>3, <2>4 DEF AckInvariant, AckedAt, LiveIn
  <2>7. QED
    BY <2>5, <2>6 DEF AckInvariant
<1>3. CASE AdminDelete(i)
  <2>1. /\ told'[i] = "unknown" /\ disk' = disk
        /\ \A j \in Ids \ {i} : told'[j] = told[j] /\ proxies'[j] = proxies[j]
    BY <1>0, <1>3, TypeOKParts DEF AdminDelete, Tell, ToldType, Records, files
  <2>2. QED
    BY <2>1 DEF AckInvariant, AckedAt, LiveIn, LiveStatuses
<1>4. QED
  BY <1>1, <1>2, <1>3

\* _apply_stop_rules stops a proxy and never starts one.
LEMMA PollAcks ==
    ASSUME AckInvariant, TypeOK', PollRound
    PROVE  AckInvariant'
<1>1. PICK delta \in Deltas :
         proxies' = [i \in Ids |->
                IF Live(i) THEN Metered(i, delta[i]) ELSE proxies[i]]
  BY DEF PollRound
<1>2. ASSUME NEW i \in Ids, Live(i)
      PROVE  Metered(i, delta[i]).status \in {proxies[i].status, "stopped_by_admin"}
  <2>1. proxies[i] \in Proxy
    BY <1>2, TypeOKParts, LiveIsProxy DEF AckInvariant, Live
  <2>2. QED
    BY <2>1 DEF Metered, Proxy
<1>3. \A i \in Ids : \/ proxies'[i].status = proxies[i].status
                     \/ Live(i) /\ proxies'[i].status = "stopped_by_admin"
  BY <1>1, <1>2
<1>4. QED
  BY <1>3, AckStepStatus DEF PollRound

LEMMA NextKeepsAcks ==
    ASSUME AckInvariant, [Next]_vars
    PROVE  AckInvariant'
<1>0. TypeOK /\ TypeOK'
  BY NextKeepsType DEF AckInvariant
<1>1. CASE UserNext
  <2>1. CASE \E u \in Users : Recharge(u)
    BY <1>0, <2>1, AckStepStatus DEF Recharge, SaveOnly
  <2>2. QED
    BY <1>0, <1>1, <2>1, CreateAcks, UserAcks DEF UserNext
<1>2. CASE AdminNext
  <2>1. CASE \E r \in Ranges : UpdateRange(r[1], r[2])
    BY <1>0, <2>1, AckStepStatus DEF UpdateRange, store
  <2>2. QED
    BY <1>0, <1>2, <2>1, AdminAcks DEF AdminNext
<1>3. CASE PollRound
  BY <1>0, <1>3, PollAcks
<1>4. CASE Restart \/ RestartInRangeSave
  <2>1. proxies' = disk.proxies /\ disk' = disk /\ told' = told
    BY <1>4 DEF Restart, RestartInRangeSave, Boot, files
  <2>2. QED
    BY <1>0, <2>1 DEF AckInvariant, AckedAt
<1>5. CASE UNCHANGED vars
  BY <1>0, <1>5, AckStepStatus DEF vars
<1>6. QED
  BY <1>1, <1>2, <1>3, <1>4, <1>5 DEF Next

\* A proxy whose owner was told it exists, or is stopped, exists, or is
\* stopped, whatever fails and wherever the process crashes: a save that
\* fails is always reported, and the unsaved operations of the administrator
\* cannot be lost in a way that contradicts what the owner was told.
THEOREM AcksSafe == Spec => []AckedProxySurvives
<1>1. Init => AckInvariant
  <2>1. ASSUME Init PROVE \A i \in Ids : told[i] = "unknown"
    BY <2>1 DEF Init
  <2>2. QED
    BY <2>1, InitTypeOK DEF AckInvariant, AckedAt, LiveStatuses
<1>2. AckInvariant /\ [Next]_vars => AckInvariant'
  BY NextKeepsAcks
<1>3. AckInvariant => AckedProxySurvives
  BY DEF AckInvariant, AckedAt, AckedProxySurvives, Live
<1>4. QED
  BY <1>1, <1>2, <1>3, PTL DEF Spec

----------------------------------------------------------------------------
(* The ports when every save succeeds: range changes included.             *)

LEMMA MirrorStep ==
    ASSUME TypeOK', ExclusiveIn(proxies'),
           OwnedIn(proxies') \cap pool'.available = {},
           OwnedIn(proxies') \subseteq PortRange(pool'.start, pool'.end),
           LoadedRange(rangeFile') = <<pool'.start, pool'.end>>,
           SameOwners(disk'.proxies, proxies')
    PROVE  MirrorInvariant'
  BY DEF MirrorInvariant, PortsExclusive, OwnedPortsReserved, OwnedPortsInRange,
         Owned, SameOwners, Within, LiveIn

\* A step that changes no owner.
LEMMA MirrorStepSame ==
    ASSUME MirrorInvariant, TypeOK', SameOwners(proxies', proxies),
           pool'.start = pool.start, pool'.end = pool.end,
           pool'.available \subseteq pool.available, rangeFile' = rangeFile,
           Saved \/ UNCHANGED disk
    PROVE  MirrorInvariant'
<1>1. ExclusiveIn(proxies') /\ OwnedIn(proxies') \subseteq OwnedIn(proxies)
  BY OwnedInclusion DEF MirrorInvariant, PortsExclusive, SameOwners
<1>2. SameOwners(disk'.proxies, proxies')
  <2>1. CASE Saved
    BY <2>1 DEF Saved, Snapshot, SameOwners, Within
  <2>2. CASE UNCHANGED disk
    BY <2>2 DEF MirrorInvariant, SameOwners, Within
  <2>3. QED
    BY <2>1, <2>2
<1>3. QED
  BY <1>1, <1>2, MirrorStep
     DEF MirrorInvariant, OwnedPortsReserved, OwnedPortsInRange, Owned

LEMMA AddProxyMirrors ==
    ASSUME NothingUnsaved, MirrorInvariant, TypeOK', counter < MaxId,
           NEW proxy \in Proxy, proxy.status = "active", AddProxy(proxy),
           proxy.ports \subseteq pool.available,
           pool'.start = pool.start, pool'.end = pool.end,
           pool'.available \subseteq pool.available \ proxy.ports
    PROVE  MirrorInvariant'
<1> DEFINE n == counter + 1
<1>0. TypeOK
  BY DEF MirrorInvariant
<1>1. n \in Ids
  BY <1>0, TypeOKParts, ConstantsAssumption DEF Ids
<1>2. proxies' = [proxies EXCEPT ![n] = proxy] /\ rangeFile' = rangeFile
  BY DEF AddProxy
<1>3. proxy.ports \cap OwnedIn(proxies) = {}
  BY DEF MirrorInvariant, OwnedPortsReserved, Owned
<1>4. /\ OwnedIn(proxies') \subseteq OwnedIn(proxies) \cup proxy.ports
      /\ ExclusiveIn(proxies')
  BY <1>0, <1>1, <1>2, <1>3, OwnedWith, TypeOKParts
     DEF MirrorInvariant, PortsExclusive
<1>5. proxy.ports \subseteq PortRange(pool.start, pool.end)
  BY <1>0, TypeOKParts DEF PoolInRange
<1>6. Saved
  BY DEF AddProxy, SaveAndTell, SaveFailed, NothingUnsaved
<1>7. SameOwners(disk'.proxies, proxies')
  BY <1>6 DEF Saved, Snapshot, SameOwners, Within
<1>8. QED
  BY <1>2, <1>4, <1>5, <1>7, MirrorStep
     DEF MirrorInvariant, OwnedPortsReserved, OwnedPortsInRange, Owned

LEMMA CreateMirrors ==
    ASSUME NothingUnsaved, MirrorInvariant, TypeOK',
           NEW u \in Users, NEW name \in Names, NEW limit \in Limits,
           \/ \E count \in 1 .. MaxTcpPorts : CreateAuto(u, name, limit, count)
           \/ \E count \in 1 .. MaxTcpPorts, s \in pool.start .. pool.end :
                 CreateAt(u, name, limit, Window(s, count))
           \/ \E subdomain \in Subdomains : CreateHttp(u, name, limit, subdomain)
           \/ CreateXtcp(u, name, limit)
    PROVE  MirrorInvariant'
<1>1. TypeOK
  BY DEF MirrorInvariant
<1>2. CASE UNCHANGED <<store, polling, files, restarts, told>>
  BY <1>1, <1>2, CreateShape, MirrorStepSame DEF store, files, SameOwners, Within
<1>3. QED
  BY <1>1, <1>2, CreateShape, AddProxyMirrors

LEMMA DeleteMirrors ==
    ASSUME NothingUnsaved, MirrorInvariant, TypeOK', NEW i \in Ids, UserDelete(i)
    PROVE  MirrorInvariant'
<1>0. TypeOK
  BY DEF MirrorInvariant
<1>1. /\ proxies'[i].status = "deleted"
      /\ \A j \in Ids \ {i} : proxies'[j] = proxies[j]
  BY <1>0, SetStatus DEF UserDelete
<1>2. Within(proxies', proxies) /\ ~LiveIn(proxies', i)
  BY <1>1 DEF Within, LiveIn, LiveStatuses
<1>3. /\ ExclusiveIn(proxies') /\ OwnedIn(proxies') \subseteq OwnedIn(proxies)
      /\ OwnedIn(proxies') \cap proxies[i].ports = {}
  BY <1>2, OwnedInclusion, OwnedWithout
     DEF UserDelete, MirrorInvariant, PortsExclusive, Live
<1>4. /\ pool'.start = pool.start /\ pool'.end = pool.end
      /\ pool'.available \subseteq pool.available \cup proxies[i].ports
  BY <1>0, TypeOKParts, LiveIsProxy, ReleaseKeepsPool DEF UserDelete, Live
<1>5. SameOwners(disk'.proxies, proxies')
  <2>1. Saved
    BY DEF UserDelete, SaveAndTell, SaveFailed, NothingUnsaved
  <2>2. QED
    BY <2>1 DEF Saved, Snapshot, SameOwners, Within
<1>6. rangeFile' = rangeFile
  BY DEF UserDelete
<1>7. QED
  BY <1>3, <1>4, <1>5, <1>6, MirrorStep
     DEF MirrorInvariant, OwnedPortsReserved, OwnedPortsInRange, Owned

LEMMA UserMirrors ==
    ASSUME NothingUnsaved, MirrorInvariant, TypeOK', NEW i \in Ids,
           \/ UserDeleteAgain(i)
           \/ \E status \in LiveStatuses : UserSetStatus(i, status)
           \/ Live(i) /\ \E req \in UpdateRequests(i) : UserUpdate(i, req)
    PROVE  MirrorInvariant'
<1>0. TypeOK
  BY DEF MirrorInvariant
<1>1. CASE UserDeleteAgain(i)
  BY <1>1, MirrorStepSame DEF UserDeleteAgain, store, files, SameOwners, Within
<1>2. CASE \E status \in LiveStatuses : UserSetStatus(i, status)
  <2>1. PICK status \in LiveStatuses : UserSetStatus(i, status)
    BY <1>2
  <2>2. SameOwners(proxies', proxies)
    BY <1>0, <2>1, StatusKeepsOwners DEF UserSetStatus
  <2>3. Saved
    BY <2>1 DEF UserSetStatus, SaveAndTell, SaveFailed, NothingUnsaved
  <2>4. QED
    BY <2>1, <2>2, <2>3, MirrorStepSame DEF UserSetStatus
<1>3. CASE \E req \in UpdateRequests(i) : UserUpdate(i, req)
  BY <1>0, <1>3, UpdateKeepsOwners, MirrorStepSame
     DEF UserUpdate, SaveOnly, SaveFailed, NothingUnsaved
<1>4. QED
  BY <1>1, <1>2, <1>3

LEMMA AdminMirrors ==
    ASSUME NothingUnsaved, MirrorInvariant, TypeOK', NEW i \in Ids,
           AdminStop(i) \/ AdminStart(i) \/ AdminDelete(i)
    PROVE  MirrorInvariant'
<1>0. TypeOK /\ PoolInRange(pool)
  BY TypeOKParts DEF MirrorInvariant
<1>1. CASE AdminStop(i)
  <2>1. SameOwners(proxies', proxies)
    BY <1>0, <1>1, StatusKeepsOwners DEF AdminStop, LiveStatuses
  <2>2. QED
    BY <1>1, <2>1, MirrorStepSame DEF AdminStop, files
<1>2. CASE AdminStart(i)
  <2>1. SameOwners(proxies', proxies)
    BY <1>0, <1>2, StatusKeepsOwners DEF AdminStart, LiveStatuses
  <2>2. /\ pool'.start = pool.start /\ pool'.end = pool.end
        /\ pool'.available \subseteq pool.available
    BY <1>0, <1>2, ReserveKeepsPool DEF AdminStart
  <2>3. QED
    BY <1>2, <2>1, <2>2, MirrorStepSame DEF AdminStart, files
<1>3. ~AdminDelete(i)
  BY DEF AdminDelete, NothingUnsaved
<1>4. QED
  BY <1>1, <1>2, <1>3

\* update_config persists the range it installs, and leaves no owner out.
LEMMA UpdateRangeMirrors ==
    ASSUME NothingUnsaved, MirrorInvariant, TypeOK',
           NEW r \in Ranges, UpdateRange(r[1], r[2])
    PROVE  MirrorInvariant'
<1>1. r[1] \in Nat \ {0} /\ r[2] \in Nat
  BY ConstantsAssumption
<1>2. /\ pool'.start = r[1] /\ pool'.end = r[2]
      /\ pool'.available = PortRange(r[1], r[2]) \ Owned
  BY <1>1, UpdatedPool DEF UpdateRange
<1>3. /\ proxies' = proxies /\ disk' = disk
      /\ rangeFile' = <<r[1], r[2]>> /\ Owned \subseteq PortRange(r[1], r[2])
  BY DEF UpdateRange, store, NothingUnsaved
<1>4. LoadedRange(rangeFile') = <<r[1], r[2]>>
  BY <1>1, <1>3 DEF LoadedRange, NoFile
<1>5. QED
  BY <1>2, <1>3, <1>4, MirrorStep DEF MirrorInvariant, PortsExclusive, Owned

\* A crash brings back the owners and the range there were.
LEMMA RestartMirrors ==
    ASSUME NothingUnsaved, MirrorInvariant, TypeOK', Restart \/ RestartInRangeSave
    PROVE  MirrorInvariant'
<1>0. TypeOK /\ rangeFile \in Ranges \cup {NoFile}
  BY TypeOKParts DEF MirrorInvariant
<1>1. Boot(rangeFile) /\ UNCHANGED <<disk, rangeFile, told>>
  BY DEF Restart, RestartInRangeSave, NothingUnsaved, files
<1> DEFINE s      == LoadedRange(rangeFile)[1]
           e      == LoadedRange(rangeFile)[2]
           loaded == NewPool(s, e)
<1>2. s \in Nat /\ e \in Nat /\ s = pool.start /\ e = pool.end
  BY <1>0, LoadedRangeType DEF MirrorInvariant
<1>3. pool' = AfterReserve(loaded, OwnedIn(disk.proxies), {})
  BY <1>1 DEF Boot, NothingUnsaved
<1> HIDE DEF s, e
<1>4. /\ PoolInRange(loaded) /\ loaded.start = s /\ loaded.end = e
      /\ loaded.available = PortRange(s, e)
  BY <1>2, FreshPool
<1>5. /\ OwnedIn(disk.proxies) \subseteq OwnedIn(proxies)
      /\ ExclusiveIn(disk.proxies)
  BY OwnedInclusion DEF MirrorInvariant, PortsExclusive, SameOwners
<1> HIDE DEF loaded
<1>6. UnavailablePorts(loaded, OwnedIn(disk.proxies), {}) = {}
  <2>1. OwnedIn(disk.proxies) \subseteq PortRange(s, e)
    BY <1>2, <1>5 DEF MirrorInvariant, OwnedPortsInRange, Owned
  <2>2. QED
    BY <1>2, <1>4, <2>1 DEF UnavailablePorts, InRange, PortRange
<1>7. /\ pool'.start = s /\ pool'.end = e
      /\ pool'.available = PortRange(s, e) \ OwnedIn(disk.proxies)
  BY <1>3, <1>4, <1>6, ReserveKeepsPool
<1>8. proxies' = disk.proxies
  BY <1>1 DEF Boot
<1>9. SameOwners(disk'.proxies, proxies')
  BY <1>1, <1>8 DEF SameOwners, Within
<1>10. QED
  BY <1>1, <1>2, <1>5, <1>7, <1>8, <1>9, MirrorStep
     DEF MirrorInvariant, OwnedPortsInRange, Owned

LEMMA NextMirrors ==
    ASSUME NothingUnsaved, MirrorInvariant, [Next]_vars
    PROVE  MirrorInvariant'
<1>0. TypeOK /\ TypeOK'
  BY NextKeepsType DEF MirrorInvariant
<1>1. CASE UserNext
  <2>1. CASE \E u \in Users : Recharge(u)
    BY <1>0, <2>1, MirrorStepSame
       DEF Recharge, SaveOnly, SaveFailed, NothingUnsaved, SameOwners, Within
  <2>2. QED
    BY <1>0, <1>1, <2>1, CreateMirrors, DeleteMirrors, UserMirrors DEF UserNext
<1>2. CASE AdminNext
  BY <1>0, <1>2, AdminMirrors, UpdateRangeMirrors DEF AdminNext
<1>3. CASE PollRound
  BY <1>0, <1>3, PollKeepsOwners, MirrorStepSame
     DEF PollRound, SaveFailed, NothingUnsaved
<1>4. CASE Restart \/ RestartInRangeSave
  BY <1>0, <1>4, RestartMirrors
<1>5. CASE UNCHANGED vars
  BY <1>0, <1>5, MirrorStepSame DEF vars, SameOwners, Within
<1>6. QED
  BY <1>1, <1>2, <1>3, <1>4, <1>5 DEF Next

LEMMA InitMirrors == Init => MirrorInvariant
<1> SUFFICES ASSUME Init PROVE MirrorInvariant
  OBVIOUS
<1>1. \A i \in Ids : ~LiveIn(proxies, i)
  BY DEF Init, LiveIn, LiveStatuses, Absent
<1>2. OwnedIn(proxies) = {} /\ ExclusiveIn(proxies)
  BY <1>1 DEF OwnedIn, ExclusiveIn
<1>3. SameOwners(disk.proxies, proxies)
  BY DEF Init, Snapshot, SameOwners, Within
<1>4. LoadedRange(rangeFile) = <<pool.start, pool.end>>
  BY ConstantsAssumption DEF Init, LoadedRange, NewPool
<1>5. QED
  BY <1>2, <1>3, <1>4, InitTypeOK
     DEF MirrorInvariant, PortsExclusive, OwnedPortsReserved, OwnedPortsInRange, Owned

\* What either invariant says of the ports.  Neither assumption can just be
\* dropped: after a change of range that could not be written, the process boots
\* with a range that may leave a mapped port out.
LEMMA PortsKept ==
    ASSUME FixedRange \/ NothingUnsaved
    PROVE  Spec => [](PortsExclusive /\ OwnedPortsReserved /\ OwnedPortsInRange)
<1>1. CASE FixedRange
  <2>1. Init => PortInvariant
    BY <1>1, InitPorts
  <2>2. PortInvariant /\ [Next]_vars => PortInvariant'
    BY <1>1, NextKeepsPorts
  <2>3. PortInvariant => PortsExclusive /\ OwnedPortsReserved /\ OwnedPortsInRange
    BY DEF PortInvariant
  <2>4. QED
    BY <2>1, <2>2, <2>3, PTL DEF Spec
<1>2. CASE NothingUnsaved
  <2>1. Init => MirrorInvariant
    BY InitMirrors
  <2>2. MirrorInvariant /\ [Next]_vars => MirrorInvariant'
    BY <1>2, NextMirrors
  <2>3. MirrorInvariant => PortsExclusive /\ OwnedPortsReserved /\ OwnedPortsInRange
    BY DEF MirrorInvariant
  <2>4. QED
    BY <2>1, <2>2, <2>3, PTL DEF Spec
<1>3. QED
  BY <1>1, <1>2

\* No public port is ever mapped by two live proxies: with one port range, no
\* port busy at boot and no tombstone purged, whichever saves fail and wherever
\* the process crashes; or with every save succeeding and nothing deleted by
\* the administrator, across every sequence of range changes and crashes.
THEOREM PortsSafe ==
    ASSUME FixedRange \/ NothingUnsaved
    PROVE  Spec => []PortsExclusive
  BY PortsKept, PTL

\* In the same two environments no mapped port is ever free in the pool, so no
\* create_proxy hands it out again.
THEOREM MappedNeverFree ==
    ASSUME FixedRange \/ NothingUnsaved
    PROVE  Spec => []OwnedPortsReserved
  BY PortsKept, PTL

\* In the same two environments the configured range covers every mapped port,
\* the range that is loaded after a crash included.
THEOREM RangeCovers ==
    ASSUME FixedRange \/ NothingUnsaved
    PROVE  Spec => []OwnedPortsInRange
  BY PortsKept, PTL

----------------------------------------------------------------------------
(* Deletions that were saved, whatever is not saved.                       *)

\* A record turns live when create_proxy adds it under a new id, or when the
\* process loads a mirror that has it live.
LEMMA LiveAgain ==
    ASSUME TypeOK, [Next]_vars, NEW i \in Ids, Live(i)', ~Live(i)
    PROVE  \/ i = counter + 1 /\ counter' = i /\ (Saved \/ SaveFailed)
           \/ restarts' = restarts + 1 /\ LiveIn(disk.proxies, i)
<1>1. CASE \E u \in Users, name \in Names, limit \in Limits :
              \/ \E count \in 1 .. MaxTcpPorts : CreateAuto(u, name, limit, count)
              \/ \E count \in 1 .. MaxTcpPorts, s \in pool.start .. pool.end :
                    CreateAt(u, name, limit, Window(s, count))
              \/ \E subdomain \in Subdomains : CreateHttp(u, name, limit, subdomain)
              \/ CreateXtcp(u, name, limit)
  <2>1. proxies' # proxies
    BY DEF Live
  <2>2. \E proxy \in Proxy : AddProxy(proxy)
    BY <1>1, <2>1, CreateShape DEF store
  <2>3. /\ counter' = counter + 1 /\ (Saved \/ SaveFailed)
        /\ \A j \in Ids : j # counter + 1 => proxies'[j] = proxies[j]
    BY <2>2, TypeOKParts, ToldOrNot DEF AddProxy, Records
  <2>4. i = counter + 1
    BY <2>3 DEF Live, LiveIn
  <2>5. QED
    BY <2>3, <2>4
<1>2. CASE \E u \in Users : Recharge(u)
  BY <1>2 DEF Recharge, Live
<1>3. CASE \E j \in Ids :
              \/ UserDelete(j) \/ UserDeleteAgain(j)
              \/ \E status \in LiveStatuses : UserSetStatus(j, status)
              \/ AdminStop(j) \/ AdminStart(j)
  <2>1. PICK j \in Ids :
              \/ UserDelete(j) \/ UserDeleteAgain(j)
              \/ \E status \in LiveStatuses : UserSetStatus(j, status)
              \/ AdminStop(j) \/ AdminStart(j)
    BY <1>3
  <2>2. CASE proxies' = proxies
    BY <2>2 DEF Live
  <2>3. CASE Live(j) /\ \E status : proxies' = [proxies EXCEPT ![j].status = status]
    BY <2>3, StatusIsWithin DEF Within, Live
  <2>4. QED
    BY <2>1, <2>2, <2>3
       DEF UserDelete, UserDeleteAgain, UserSetStatus, AdminStop, AdminStart, store
<1>4. CASE \E j \in Ids : Live(j) /\ \E req \in UpdateRequests(j) : UserUpdate(j, req)
  BY <1>4, UpdateKeepsOwners DEF SameOwners, Within, Live
<1>5. CASE \E r \in Ranges : UpdateRange(r[1], r[2])
  BY <1>5 DEF UpdateRange, store, Live
<1>6. CASE PollRound
  BY <1>6, PollKeepsOwners DEF SameOwners, Within, Live
<1>7. CASE Restart \/ RestartInRangeSave
  BY <1>7 DEF Restart, RestartInRangeSave, Boot, Live
<1>8. CASE UNCHANGED vars
  BY <1>8 DEF vars, Live
<1>9. CASE \E j \in Ids : AdminDelete(j)
  BY <1>9, TypeOKParts DEF AdminDelete, Absent, Records, Live, LiveIn, LiveStatuses
<1>10. QED
  BY <1>1, <1>2, <1>3, <1>4, <1>5, <1>6, <1>7, <1>8, <1>9
     DEF Next, UserNext, AdminNext

\* The largest id there is bounds every id there is.
LEMMA LastIdBounds ==
    ASSUME NEW ps \in Records, NEW n \in LastId(ps)
    PROVE  UsedUpTo(ps, n)
  BY DEF UsedUpTo, LastId

\* A step other than a restart leaves in the mirror what it had or what is in
\* memory, and adds at most the record with the next id.
LEMMA HandlerShape ==
    ASSUME TypeOK, [Next]_vars, ~(Restart \/ RestartInRangeSave)
    PROVE  /\ disk'.proxies \in {proxies', disk.proxies}
           /\ counter' \in Nat /\ counter <= counter'
           /\ \A i \in Ids : \/ proxies'[i].status = "absent"
                             \/ proxies[i].status # "absent"
                             \/ i <= counter'
<1>0. counter \in Nat /\ proxies \in Records
  BY TypeOKParts
<1>1. CASE \E u \in Users, name \in Names, limit \in Limits :
             \/ \E count \in 1 .. MaxTcpPorts : CreateAuto(u, name, limit, count)
             \/ \E count \in 1 .. MaxTcpPorts, s \in pool.start .. pool.end :
                   CreateAt(u, name, limit, Window(s, count))
             \/ \E subdomain \in Subdomains : CreateHttp(u, name, limit, subdomain)
             \/ CreateXtcp(u, name, limit)
  <2>1. \/ UNCHANGED <<store, files>>
        \/ \E proxy \in Proxy : AddProxy(proxy)
    BY <1>0, <1>1, CreateShape
  <2>2. CASE UNCHANGED <<store, files>>
    BY <1>0, <2>2 DEF store, files
  <2>3. CASE \E proxy \in Proxy : AddProxy(proxy)
    <3>1. /\ counter' = counter + 1 /\ (Saved \/ SaveFailed)
          /\ \A i \in Ids : i # counter + 1 => proxies'[i] = proxies[i]
      BY <1>0, <2>3, ToldOrNot DEF AddProxy, Records
    <3>2. QED
      BY <1>0, <3>1, SavedOrNot DEF Ids
  <2>4. QED
    BY <2>1, <2>2, <2>3
<1>2. CASE \E i \in Ids :
             \/ UserDelete(i) \/ UserDeleteAgain(i)
             \/ \E status \in LiveStatuses : UserSetStatus(i, status)
             \/ AdminStop(i) \/ AdminStart(i) \/ AdminDelete(i)
  <2>1. PICK i \in Ids :
             \/ UserDelete(i) \/ UserDeleteAgain(i)
             \/ \E status \in LiveStatuses : UserSetStatus(i, status)
             \/ AdminStop(i) \/ AdminStart(i) \/ AdminDelete(i)
    BY <1>2
  <2>2. /\ Saved \/ SaveFailed \/ UNCHANGED disk
        /\ counter' = counter
    BY <2>1, ToldOrNot
       DEF UserDelete, UserDeleteAgain, UserSetStatus, AdminStop, AdminStart,
           AdminDelete, store, files
  <2>3. proxies[i].status # "absent"
    BY <2>1, ConstantsAssumption
       DEF UserDelete, UserDeleteAgain, UserSetStatus, AdminStop, AdminStart,
           AdminDelete, Live, LiveIn, LiveStatuses
  <2>4. \A j \in Ids \ {i} : proxies'[j] = proxies[j]
    BY <1>0, <2>1
       DEF UserDelete, UserDeleteAgain, UserSetStatus, AdminStop, AdminStart,
           AdminDelete, store, Records
  <2>5. QED
    BY <1>0, <2>2, <2>3, <2>4, SavedOrNot
<1>3. CASE \E i \in Ids : Live(i) /\ \E req \in UpdateRequests(i) : UserUpdate(i, req)
  <2>0. PICK i \in Ids : \E req \in UpdateRequests(i) : UserUpdate(i, req)
    BY <1>3
  <2>1. PICK req \in UpdateRequests(i) : UserUpdate(i, req)
    BY <2>0
  <2>2. /\ Saved \/ SaveFailed \/ UNCHANGED disk
        /\ counter' = counter
        /\ Live(i)
        /\ \A j \in Ids \ {i} : proxies'[j] = proxies[j]
    BY <1>0, <2>1 DEF UserUpdate, SaveOnly, Records
  <2>3. QED
    BY <1>0, <2>2, SavedOrNot DEF Live, LiveIn, LiveStatuses
<1>4. CASE PollRound
  <2>1. /\ Saved \/ SaveFailed
        /\ counter' = counter
        /\ \A i \in Ids : ~Live(i) => proxies'[i] = proxies[i]
    BY <1>4 DEF PollRound
  <2>2. QED
    BY <1>0, <2>1, SavedOrNot DEF Live, LiveIn, LiveStatuses
<1>5. CASE \/ \E u \in Users : Recharge(u)
           \/ \E r \in Ranges : UpdateRange(r[1], r[2])
           \/ UNCHANGED vars
  <2>1. /\ Saved \/ SaveFailed \/ UNCHANGED disk
        /\ UNCHANGED <<proxies, counter>>
    BY <1>5 DEF Recharge, SaveOnly, UpdateRange, store, vars
  <2>2. QED
    BY <1>0, <2>1, SavedOrNot
<1>6. QED
  BY <1>1, <1>2, <1>3, <1>4, <1>5 DEF Next, UserNext, AdminNext

\* Memory grows by the record with the next id, or starts again from the mirror.
LEMMA CounterBounds ==
    ASSUME TombstoneInvariant, [Next]_vars
    PROVE  UsedUpTo(proxies', counter') /\ UsedUpTo(disk'.proxies, counter')
<1>0. TypeOK /\ counter \in Nat /\ disk.proxies \in Records
  BY TypeOKParts DEF TombstoneInvariant, DiskType
<1>1. CASE Restart \/ RestartInRangeSave
  <2>1. /\ proxies' = disk.proxies /\ disk' = disk
        /\ counter' \in LastId(disk.proxies)
    BY <1>1 DEF Restart, RestartInRangeSave, Boot, files
  <2>2. QED
    BY <1>0, <2>1, LastIdBounds
<1>2. CASE ~(Restart \/ RestartInRangeSave)
  BY <1>0, <1>2, HandlerShape DEF TombstoneInvariant, UsedUpTo, Ids
<1>3. QED
  BY <1>1, <1>2

\* A tombstone in the mirror stays dead in the next state, which is what
\* DeletionSticks says of every step.
LEMMA TombstoneStays ==
    ASSUME TombstoneInvariant, [Next]_vars,
           NEW i \in Ids, disk.proxies[i].status = "deleted"
    PROVE  ~Live(i)'
<1>1. TypeOK /\ ~Live(i) /\ counter \in Nat
  BY TypeOKParts DEF TombstoneInvariant
<1>2. i <= counter
  BY DEF TombstoneInvariant, UsedUpTo
<1>3. ~LiveIn(disk.proxies, i)
  BY DEF LiveIn, LiveStatuses
<1>4. QED
  BY <1>1, <1>2, <1>3, LiveAgain DEF Ids

LEMMA NextKeepsTombstones ==
    ASSUME TombstoneInvariant, [Next]_vars
    PROVE  TombstoneInvariant'
<1>1. TypeOK'
  BY NextKeepsType DEF TombstoneInvariant
<1>2. ASSUME NEW i \in Ids, disk'.proxies[i].status = "deleted"
      PROVE  ~Live(i)'
  <2>1. CASE disk.proxies[i].status = "deleted"
    BY <2>1, TombstoneStays
  <2>2. CASE disk'.proxies = proxies'
    BY <1>2, <2>2 DEF Live, LiveIn, LiveStatuses
  <2>3. disk'.proxies \in {proxies', disk.proxies}
    BY HandlerShape DEF TombstoneInvariant, Restart, RestartInRangeSave, files
  <2>4. QED
    BY <1>2, <2>1, <2>2, <2>3
<1>3. QED
  BY <1>1, <1>2, CounterBounds DEF TombstoneInvariant

LEMMA InitTombstones == Init => TombstoneInvariant
<1> SUFFICES ASSUME Init PROVE TombstoneInvariant
  OBVIOUS
<1>1. /\ \A i \in Ids : proxies[i].status = "absent"
      /\ disk.proxies = proxies
  BY DEF Init, Absent, Snapshot
<1>2. QED
  BY <1>1, InitTypeOK DEF TombstoneInvariant, UsedUpTo

\* A deletion that has reached the mirror is never undone: for failing saves,
\* the administrator's unsaved deletions and purges, torn range files and busy
\* ports alike.  The ids are what it rests on: the mirror that is loaded after
\* a crash may lack the latest records, but never an id that it has as deleted.
THEOREM Durable == Spec => DeletionSticks
<1>1. Init => TombstoneInvariant
  BY InitTombstones
<1>2. TombstoneInvariant /\ [Next]_vars => TombstoneInvariant'
  BY NextKeepsTombstones
<1>3. TombstoneInvariant /\ [Next]_vars
         => [\A i \in Ids : disk.proxies[i].status = "deleted" => ~Live(i)']_vars
  BY TombstoneStays
<1>4. QED
  BY <1>1, <1>2, <1>3, PTL DEF Spec, DeletionSticks

\* A record that is gone comes back only when the process loads a mirror its
\* deletion never reached; every other record that turns live is a new one.
THEOREM NothingReturns == Spec => NoResurrection
<1>1. Spec => []TypeOK
  BY TypeCorrect
<1>2. TypeOK /\ [Next]_vars
         => [\A i \in Ids : Live(i)' /\ ~Live(i) =>
                \/ counter < i /\ counter' = i
                \/ restarts' = restarts + 1 /\ LiveIn(disk.proxies, i)]_vars
  <2>1. TypeOK => counter \in Nat
    BY TypeOKParts
  <2>2. QED
    BY <2>1, LiveAgain
<1>3. QED
  BY <1>1, <1>2, PTL DEF Spec, NoResurrection

----------------------------------------------------------------------------
(* Names and subdomains.                                                   *)

\* What create_proxy has checked of the record it adds.
LEMMA CreateChecks ==
    ASSUME TypeOK, NEW u \in Users, NEW name \in Names, NEW limit \in Limits,
           \/ \E count \in 1 .. MaxTcpPorts : CreateAuto(u, name, limit, count)
           \/ \E count \in 1 .. MaxTcpPorts, s \in pool.start .. pool.end :
                 CreateAt(u, name, limit, Window(s, count))
           \/ \E subdomain \in Subdomains : CreateHttp(u, name, limit, subdomain)
           \/ CreateXtcp(u, name, limit)
    PROVE  \/ UNCHANGED <<store, polling, files, restarts, told>>
           \/ \E proxy \in Proxy :
                 /\ AddProxy(proxy) /\ counter < MaxId /\ proxy.limit <= balance[proxy.uid]
                 /\ proxy.status = "active"
                 /\ ~HasName(proxy.uid, proxy.name, 0)
                 /\ proxy.type = "http" => ~SubdomainTaken(proxy.subdomain, 0)
<1>1. ASSUME NEW type \in ProxyTypes, NEW ports \in SUBSET Nat,
             NEW subdomain \in Subdomains \cup {NoSubdomain},
             MayCreate(u, name, limit), type = "http" => ~SubdomainTaken(subdomain, 0)
      PROVE  LET proxy == NewProxy(u, name, type, ports, subdomain, limit)
             IN  /\ proxy \in Proxy /\ counter < MaxId /\ proxy.limit <= balance[proxy.uid]
                 /\ proxy.status = "active"
                 /\ ~HasName(proxy.uid, proxy.name, 0)
                 /\ proxy.type = "http" => ~SubdomainTaken(proxy.subdomain, 0)
  <2> DEFINE proxy == NewProxy(u, name, type, ports, subdomain, limit)
  <2>1. /\ proxy \in Proxy /\ proxy.status = "active"
        /\ proxy.limit <= balance[proxy.uid] /\ counter < MaxId
    BY <1>1, NewProxyType
  <2>2. /\ proxy.uid = u /\ proxy.name = name /\ proxy.type = type
        /\ proxy.subdomain = subdomain
    BY DEF NewProxy
  <2>3. ~HasName(u, name, 0)
    BY <1>1 DEF MayCreate
  <2> HIDE DEF proxy
  <2>4. QED
    BY <1>1, <2>1, <2>2, <2>3 DEF proxy
<1>2. {"tcp", "http", "xtcp"} \subseteq ProxyTypes
  BY DEF ProxyTypes
<1>3. ASSUME NEW count \in 1 .. MaxTcpPorts, CreateAuto(u, name, limit, count)
      PROVE  \/ UNCHANGED <<store, polling, files, restarts, told>>
             \/ \E ports \in SUBSET Nat :
                   /\ MayCreate(u, name, limit)
                   /\ AddProxy(NewProxy(u, name, "tcp", ports, NoSubdomain, limit))
  <2>1. PICK busy \in SUBSET BusyPorts :
           \/ UNCHANGED <<store, polling, files, restarts, told>>
           \/ AddProxy(NewProxy(u, name, "tcp", Allocated(pool, count, busy), NoSubdomain, limit))
    BY <1>3 DEF CreateAuto
  <2>2. Allocated(pool, count, busy) \in SUBSET Nat
    BY TypeOKParts, AllocatedIsFree, ConstantsAssumption DEF PoolInRange, PoolType
  <2>3. MayCreate(u, name, limit)
    BY <1>3 DEF CreateAuto
  <2>4. QED
    BY <2>1, <2>2, <2>3
<1>4. ASSUME NEW count \in 1 .. MaxTcpPorts, NEW s \in pool.start .. pool.end,
             CreateAt(u, name, limit, Window(s, count))
      PROVE  \E ports \in SUBSET Nat :
                   /\ MayCreate(u, name, limit)
                   /\ AddProxy(NewProxy(u, name, "tcp", ports, NoSubdomain, limit))
  <2>1. Window(s, count) \in SUBSET Nat
    BY TypeOKParts, WindowType, ConstantsAssumption DEF PoolInRange, PoolType
  <2>2. QED
    BY <1>4, <2>1 DEF CreateAt
<1>5. ASSUME NEW ports \in SUBSET Nat, MayCreate(u, name, limit),
             AddProxy(NewProxy(u, name, "tcp", ports, NoSubdomain, limit))
      PROVE  \E proxy \in Proxy :
                 /\ AddProxy(proxy) /\ counter < MaxId /\ proxy.limit <= balance[proxy.uid]
                 /\ proxy.status = "active"
                 /\ ~HasName(proxy.uid, proxy.name, 0)
                 /\ proxy.type = "http" => ~SubdomainTaken(proxy.subdomain, 0)
  BY <1>1, <1>2, <1>5
<1>6. CASE \E subdomain \in Subdomains : CreateHttp(u, name, limit, subdomain)
  BY <1>1, <1>2, <1>6 DEF CreateHttp
<1>7. CASE CreateXtcp(u, name, limit)
  BY <1>1, <1>2, <1>7 DEF CreateXtcp
<1>8. QED
  BY <1>3, <1>4, <1>5, <1>6, <1>7

\* What update_proxy does to the record, however far it gets.
LEMMA UpdateShape ==
    ASSUME TypeOK, NEW i \in Ids, NEW req \in UpdateRequests(i), UserUpdate(i, req)
    PROVE  /\ Live(i) /\ LiveIn(proxies', i) /\ \A j \in Ids \ {i} : proxies'[j] = proxies[j]
           /\ proxies'[i].uid = proxies[i].uid /\ proxies'[i].type = proxies[i].type
           /\ proxies'[i].name = req.name /\ ~HasName(proxies[i].uid, req.name, i)
           /\ \/ proxies'[i].subdomain = proxies[i].subdomain
              \/ /\ proxies'[i].subdomain = req.subdomain
                 /\ ~SubdomainTaken(req.subdomain, i)
           /\ \/ proxies'[i].limit = proxies[i].limit /\ balance' = balance
              \/ /\ LimitAllowed(i, proxies'[i].limit)
                 /\ balance' = [balance EXCEPT ![proxies[i].uid] =
                                   @ - LimitCost(i, proxies'[i].limit)]
<1> USE ConstantsAssumption
<1> DEFINE u      == proxies[i].uid
           named  == ~HasName(u, req.name, i)
           rated  == /\ named /\ req.bad # "local"
                     /\ req.limit = Keep \/ LimitAllowed(i, req.limit)
           moved  == rated /\ ~SubdomainTaken(req.subdomain, i)
           limit  == IF req.limit = Keep THEN proxies[i].limit ELSE req.limit
<1>1. /\ Live(i) /\ named
      /\ proxies' = [proxies EXCEPT
              ![i].name      = req.name,
              ![i].limit     = IF rated THEN limit ELSE @,
              ![i].subdomain = IF moved THEN req.subdomain ELSE @]
      /\ balance' = [balance EXCEPT
              ![u] = IF rated THEN @ - LimitCost(i, limit) ELSE @]
  BY DEF UserUpdate
<1>2. proxies[i] \in Proxy /\ u \in Users /\ proxies[i].limit \in Nat /\ balance \in Amounts
  BY <1>1, TypeOKParts, LiveIsProxy DEF Live
<1>3. /\ proxies'[i].name = req.name
      /\ proxies'[i].limit = IF rated THEN limit ELSE proxies[i].limit
      /\ proxies'[i].subdomain = IF moved THEN req.subdomain ELSE proxies[i].subdomain
      /\ proxies'[i].status = proxies[i].status
      /\ proxies'[i].uid = proxies[i].uid /\ proxies'[i].type = proxies[i].type
      /\ \A j \in Ids \ {i} : proxies'[j] = proxies[j]
  <2> HIDE DEF rated, moved, limit
  <2>1. QED
    BY <1>1, <1>2, TypeOKParts DEF Records, Proxy
<1>4. moved => ~SubdomainTaken(req.subdomain, i)
  OBVIOUS
<1>5. rated => limit = proxies[i].limit \/ LimitAllowed(i, limit)
  OBVIOUS
<1>6. limit = proxies[i].limit => LimitCost(i, limit) = 0
  BY <1>2 DEF LimitCost
<1>7. \/ ~rated /\ balance' = balance
      \/ rated /\ balance' = [balance EXCEPT ![u] = @ - LimitCost(i, limit)]
  <2> HIDE DEF rated, limit
  <2>1. QED
    BY <1>1, <1>2 DEF Amounts
<1>8. limit = proxies[i].limit => [balance EXCEPT ![u] = @ - LimitCost(i, limit)] = balance
  <2> HIDE DEF limit
  <2>1. balance[u] - 0 = balance[u]
    BY <1>2 DEF Amounts
  <2>2. QED
    BY <1>2, <1>6, <2>1 DEF Amounts
<1>9. /\ \/ proxies'[i].subdomain = proxies[i].subdomain
         \/ proxies'[i].subdomain = req.subdomain /\ ~SubdomainTaken(req.subdomain, i)
      /\ \/ proxies'[i].limit = proxies[i].limit /\ balance' = balance
         \/ /\ LimitAllowed(i, proxies'[i].limit)
            /\ balance' = [balance EXCEPT ![u] = @ - LimitCost(i, proxies'[i].limit)]
  <2> HIDE DEF rated, moved, limit
  <2>1. QED
    BY <1>3, <1>4, <1>5, <1>7, <1>8
<1>10. LiveIn(proxies', i)
  BY <1>1, <1>3 DEF Live, LiveIn
<1>11. QED
  BY <1>1, <1>3, <1>9, <1>10

\* No two live records of ps have the same name and user, or subdomain.
UniqueIn(ps) ==
    \A i, j \in Ids :
        i # j /\ LiveIn(ps, i) /\ LiveIn(ps, j) =>
            /\ ps[i].uid # ps[j].uid \/ ps[i].name # ps[j].name
            /\ ps[i].type = "http" /\ ps[j].type = "http" => ps[i].subdomain # ps[j].subdomain

UniqueInvariant == TypeOK /\ UniqueIn(proxies) /\ UniqueIn(disk.proxies)

\* Every live record of qs is live in ps, under the same name.
KeepsNames(qs, ps) ==
    \A i \in Ids : LiveIn(qs, i) => /\ LiveIn(ps, i)
                                    /\ qs[i].uid = ps[i].uid /\ qs[i].name = ps[i].name
                                    /\ qs[i].type = ps[i].type
                                    /\ qs[i].subdomain = ps[i].subdomain

LEMMA NamesKept ==
    ASSUME NEW qs, NEW ps, KeepsNames(qs, ps), UniqueIn(ps)
    PROVE  UniqueIn(qs)
  BY DEF KeepsNames, UniqueIn

LEMMA UniqueStep ==
    ASSUME UniqueInvariant, TypeOK', UniqueIn(proxies'), Saved \/ SaveFailed \/ UNCHANGED disk
    PROVE  UniqueInvariant'
<1>1. disk'.proxies = proxies' \/ disk'.proxies = disk.proxies
  BY SavedOrNot
<1>2. UniqueIn(disk'.proxies)
  BY <1>1 DEF UniqueInvariant
<1>3. QED
  BY <1>2 DEF UniqueInvariant, UniqueIn, LiveIn

\* A record whose name and subdomain are free may take any id.
LEMMA AddKeepsUnique ==
    ASSUME UniqueInvariant, TypeOK', counter < MaxId,
           NEW proxy \in Proxy, AddProxy(proxy),
           ~HasName(proxy.uid, proxy.name, 0),
           proxy.type = "http" => ~SubdomainTaken(proxy.subdomain, 0)
    PROVE  UniqueInvariant'
<1> DEFINE n == counter + 1
<1>1. n \in Ids /\ 0 \notin Ids
  BY TypeOKParts, ConstantsAssumption DEF UniqueInvariant, Ids
<1>2. proxies'[n] = proxy /\ \A j \in Ids \ {n} : proxies'[j] = proxies[j]
  BY <1>1, TypeOKParts DEF UniqueInvariant, AddProxy, Records
<1> HIDE DEF n
<1>3. ASSUME NEW j \in Ids, j # n, LiveIn(proxies', j)
      PROVE  /\ proxy.uid # proxies[j].uid \/ proxy.name # proxies[j].name
             /\ proxy.type = "http" /\ proxies[j].type = "http"
                  => proxy.subdomain # proxies[j].subdomain
  BY <1>1, <1>2, <1>3 DEF HasName, SubdomainTaken, Live, LiveIn
<1>4. UniqueIn(proxies')
  <2> SUFFICES ASSUME NEW i \in Ids, NEW j \in Ids, i # j,
                      LiveIn(proxies', i), LiveIn(proxies', j)
               PROVE  /\ proxies'[i].uid # proxies'[j].uid \/ proxies'[i].name # proxies'[j].name
                      /\ proxies'[i].type = "http" /\ proxies'[j].type = "http"
                           => proxies'[i].subdomain # proxies'[j].subdomain
    BY DEF UniqueIn
  <2>1. CASE i = n
    BY <1>2, <1>3, <2>1
  <2>2. CASE j = n
    BY <1>2, <1>3, <2>2
  <2>3. CASE i # n /\ j # n
    BY <1>2, <2>3 DEF UniqueInvariant, UniqueIn, LiveIn
  <2>4. QED
    BY <2>1, <2>2, <2>3
<1>5. Saved \/ SaveFailed
  BY ToldOrNot DEF AddProxy
<1>6. QED
  BY <1>4, <1>5, UniqueStep

\* Neither does a renamed record, nor one whose update fails half way.
LEMMA UpdateKeepsUnique ==
    ASSUME UniqueInvariant, TypeOK', NEW i \in Ids, NEW req \in UpdateRequests(i),
           UserUpdate(i, req)
    PROVE  UniqueInvariant'
<1>1. /\ Live(i) /\ \A j \in Ids \ {i} : proxies'[j] = proxies[j]
      /\ proxies'[i].uid = proxies[i].uid /\ proxies'[i].type = proxies[i].type
      /\ proxies'[i].name = req.name /\ ~HasName(proxies[i].uid, req.name, i)
      /\ \/ proxies'[i].subdomain = proxies[i].subdomain
         \/ proxies'[i].subdomain = req.subdomain /\ ~SubdomainTaken(req.subdomain, i)
  BY UpdateShape DEF UniqueInvariant
<1>2. ASSUME NEW j \in Ids, j # i, LiveIn(proxies', j)
      PROVE  /\ proxies'[i].uid # proxies'[j].uid \/ proxies'[i].name # proxies'[j].name
             /\ proxies'[i].type = "http" /\ proxies'[j].type = "http"
                  => proxies'[i].subdomain # proxies'[j].subdomain
  <2>1. proxies'[j] = proxies[j] /\ Live(j)
    BY <1>1, <1>2 DEF Live, LiveIn
  <2>2. proxies'[i].uid # proxies'[j].uid \/ proxies'[i].name # proxies'[j].name
    BY <1>1, <1>2, <2>1 DEF HasName
  <2>3. ASSUME proxies'[i].type = "http", proxies'[j].type = "http"
        PROVE  proxies'[i].subdomain # proxies'[j].subdomain
    BY <1>1, <1>2, <2>1, <2>3 DEF UniqueInvariant, UniqueIn, SubdomainTaken, Live
  <2>4. QED
    BY <2>2, <2>3
<1>3. UniqueIn(proxies')
  <2> SUFFICES ASSUME NEW k \in Ids, NEW j \in Ids, k # j,
                      LiveIn(proxies', k), LiveIn(proxies', j)
               PROVE  /\ proxies'[k].uid # proxies'[j].uid \/ proxies'[k].name # proxies'[j].name
                      /\ proxies'[k].type = "http" /\ proxies'[j].type = "http"
                           => proxies'[k].subdomain # proxies'[j].subdomain
    BY DEF UniqueIn
  <2>1. CASE k = i
    BY <1>2, <2>1
  <2>2. CASE j = i
    BY <1>2, <2>2
  <2>3. CASE k # i /\ j # i
    BY <1>1, <2>3 DEF UniqueInvariant, UniqueIn, LiveIn
  <2>4. QED
    BY <2>1, <2>2, <2>3
<1>4. Saved \/ SaveFailed \/ UNCHANGED disk
  BY DEF UserUpdate, SaveOnly
<1>5. QED
  BY <1>3, <1>4, UniqueStep

\* The other steps rename nothing and make no record live.
LEMMA OthersKeepNames ==
    ASSUME TypeOK,
           \/ \E u \in Users : Recharge(u)
           \/ \E i \in Ids : \/ UserDelete(i) \/ UserDeleteAgain(i)
                             \/ \E status \in LiveStatuses : UserSetStatus(i, status)
                             \/ AdminStop(i) \/ AdminStart(i) \/ AdminDelete(i)
           \/ \E r \in Ranges : UpdateRange(r[1], r[2])
           \/ PollRound \/ UNCHANGED vars
    PROVE  KeepsNames(proxies', proxies) /\ (Saved \/ SaveFailed \/ UNCHANGED disk)
<1>1. CASE UNCHANGED <<proxies>>
  BY <1>1, ToldOrNot
     DEF KeepsNames, LiveIn, Recharge, SaveOnly, UserDelete, UserDeleteAgain, UserSetStatus,
         AdminStop, AdminStart, AdminDelete, UpdateRange, PollRound, vars, files
<1>2. ASSUME NEW i \in Ids,
             \/ UserDelete(i) \/ \E status \in LiveStatuses : UserSetStatus(i, status)
             \/ AdminStop(i) \/ AdminStart(i)
      PROVE  KeepsNames(proxies', proxies) /\ (Saved \/ SaveFailed \/ UNCHANGED disk)
  <2>1. PICK status : Live(i) /\ proxies' = [proxies EXCEPT ![i].status = status]
    BY <1>2 DEF UserDelete, UserSetStatus, AdminStop, AdminStart
  <2>2. proxies[i] \in Proxy
    BY <2>1, TypeOKParts, LiveIsProxy DEF Live
  <2>3. /\ \A j \in Ids \ {i} : proxies'[j] = proxies[j]
        /\ proxies'[i].uid = proxies[i].uid /\ proxies'[i].name = proxies[i].name
        /\ proxies'[i].type = proxies[i].type /\ proxies'[i].subdomain = proxies[i].subdomain
    BY <2>1, <2>2, TypeOKParts DEF Records, Proxy
  <2>4. KeepsNames(proxies', proxies)
    BY <2>1, <2>3 DEF KeepsNames, Live, LiveIn
  <2>5. QED
    BY <1>2, <2>4, ToldOrNot DEF UserDelete, UserSetStatus, AdminStop, AdminStart, files
<1>3. ASSUME NEW i \in Ids, AdminDelete(i) PROVE KeepsNames(proxies', proxies) /\ UNCHANGED disk
  <2>1. proxies'[i] = Absent /\ \A j \in Ids \ {i} : proxies'[j] = proxies[j]
    BY <1>3, TypeOKParts DEF AdminDelete, Records
  <2>2. ~LiveIn(proxies', i)
    BY <2>1 DEF LiveIn, LiveStatuses, Absent
  <2>3. QED
    BY <1>3, <2>1, <2>2 DEF KeepsNames, LiveIn, AdminDelete, files
<1>4. CASE PollRound
  <2>1. PICK delta \in Deltas :
           proxies' = [i \in Ids |-> IF Live(i) THEN Metered(i, delta[i]) ELSE proxies[i]]
    BY <1>4 DEF PollRound
  <2>2. ASSUME NEW i \in Ids, Live(i)
        PROVE  /\ Metered(i, delta[i]).uid = proxies[i].uid
               /\ Metered(i, delta[i]).name = proxies[i].name
               /\ Metered(i, delta[i]).type = proxies[i].type
               /\ Metered(i, delta[i]).subdomain = proxies[i].subdomain
    <3>1. proxies[i] \in Proxy
      BY <2>2, TypeOKParts, LiveIsProxy DEF Live
    <3>2. QED
      BY <3>1 DEF Metered, Proxy
  <2>3. KeepsNames(proxies', proxies)
    BY <2>1, <2>2 DEF KeepsNames, Live, LiveIn
  <2>4. QED
    BY <1>4, <2>3 DEF PollRound
<1>5. CASE \/ \E u \in Users : Recharge(u)
           \/ \E i \in Ids : UserDeleteAgain(i)
           \/ \E r \in Ranges : UpdateRange(r[1], r[2])
           \/ UNCHANGED vars
  BY <1>1, <1>5 DEF Recharge, UserDeleteAgain, UpdateRange, vars, store
<1>6. QED
  BY <1>2, <1>3, <1>4, <1>5

LEMMA NextKeepsUnique == ASSUME UniqueInvariant, [Next]_vars PROVE UniqueInvariant'
<1>0. TypeOK /\ TypeOK'
  BY NextKeepsType DEF UniqueInvariant
<1>1. CASE \E u \in Users, name \in Names, limit \in Limits :
              \/ \E count \in 1 .. MaxTcpPorts : CreateAuto(u, name, limit, count)
              \/ \E count \in 1 .. MaxTcpPorts, s \in pool.start .. pool.end :
                    CreateAt(u, name, limit, Window(s, count))
              \/ \E subdomain \in Subdomains : CreateHttp(u, name, limit, subdomain)
              \/ CreateXtcp(u, name, limit)
  <2>1. CASE UNCHANGED <<store, polling, files, restarts, told>>
    BY <1>0, <2>1, UniqueStep DEF UniqueInvariant, store, files
  <2>2. QED
    BY <1>0, <1>1, <2>1, CreateChecks, AddKeepsUnique
<1>2. CASE \E i \in Ids : Live(i) /\ \E req \in UpdateRequests(i) : UserUpdate(i, req)
  BY <1>0, <1>2, UpdateKeepsUnique
<1>3. CASE \/ \E u \in Users : Recharge(u)
           \/ \E i \in Ids : \/ UserDelete(i) \/ UserDeleteAgain(i)
                             \/ \E status \in LiveStatuses : UserSetStatus(i, status)
                             \/ AdminStop(i) \/ AdminStart(i) \/ AdminDelete(i)
           \/ \E r \in Ranges : UpdateRange(r[1], r[2])
           \/ PollRound \/ UNCHANGED vars
  <2>1. KeepsNames(proxies', proxies) /\ (Saved \/ SaveFailed \/ UNCHANGED disk)
    BY <1>0, <1>3, OthersKeepNames
  <2>2. QED
    BY <1>0, <2>1, NamesKept, UniqueStep DEF UniqueInvariant
<1>4. CASE Restart \/ RestartInRangeSave
  <2>1. proxies' = disk.proxies /\ disk' = disk
    BY <1>4 DEF Restart, RestartInRangeSave, Boot, files
  <2>2. QED
    BY <1>0, <2>1, UniqueStep DEF UniqueInvariant
<1>5. QED
  BY <1>1, <1>2, <1>3, <1>4 DEF Next, UserNext, AdminNext

\* No user ever has two live proxies of one name, and no two live HTTP proxies
\* share a subdomain: whatever updates fail half way, whatever saves fail, and
\* wherever a crash brings back an older mirror.
THEOREM NamesSafe == Spec => []NamesAndSubdomainsUnique
<1>1. Init => UniqueInvariant
  <2> SUFFICES ASSUME Init PROVE UniqueInvariant
    OBVIOUS
  <2>1. \A i \in Ids : ~LiveIn(proxies, i)
    BY DEF Init, LiveIn, LiveStatuses, Absent
  <2>2. disk.proxies = proxies
    BY DEF Init, Snapshot
  <2>3. UniqueIn(proxies) /\ UniqueIn(disk.proxies)
    BY <2>1, <2>2 DEF UniqueIn
  <2>4. QED
    BY <2>3, InitTypeOK DEF UniqueInvariant
<1>2. UniqueInvariant /\ [Next]_vars => UniqueInvariant'
  BY NextKeepsUnique
<1>3. UniqueInvariant => NamesAndSubdomainsUnique
  BY DEF UniqueInvariant, UniqueIn, NamesAndSubdomainsUnique, Live
<1>4. QED
  BY <1>1, <1>2, <1>3, PTL DEF Spec

----------------------------------------------------------------------------
(* Quotas.                                                                 *)

LimitsOf(ps)  == [i \in Ids |-> ps[i].limit]
PaidIn(ps, u) == {i \in Ids : ps[i].status # "absent" /\ ps[i].uid = u /\ ps[i].type # "xtcp"}
PaidFor(ps, u) == Total(LimitsOf(ps), PaidIn(ps, u))

CoveredIn(ps, b, r) == \A u \in Users : b[u] + PaidFor(ps, u) <= r[u]

\* The records after the counter's are still to be made.
FreshIds == \A i \in Ids : counter < i => proxies[i] = Absent

QuotaInvariant ==
    /\ TypeOK
    /\ CoveredIn(proxies, balance, recharged)
    /\ CoveredIn(disk.proxies, disk.balance, disk.recharged)
    /\ FreshIds

LEMMA IdsFinite == IsFiniteSet(Ids)
<1>1. 1 \in Int /\ MaxId \in Int
  BY ConstantsAssumption
<1>2. QED
  BY <1>1, FS_Interval DEF Ids

\* The sum that QuotaCovered states is a total.
LEMMA CommittedTotal ==
    ASSUME NEW u
    PROVE  Committed(u) = PaidFor(proxies, u)
<1> DEFINE S == PaidIn(proxies, u)
           f == LimitsOf(proxies)
           A(g) == g = [s \in SUBSET S |->
                          IF s = {} THEN 0 ELSE proxies[Pick(s)].limit + g[s \ {Pick(s)}]]
<1>1. Committed(u) = (CHOOSE g : A(g))[S]
  BY DEF Committed, MapThenSumSet, MapThenFoldSet, Pick, PaidIn
<1>2. IsFiniteSet(S)
  BY IdsFinite, FS_Subset DEF PaidIn
<1>3. \A s \in SUBSET S : s # {} => f[Pick(s)] = proxies[Pick(s)].limit
  BY PickLess DEF PaidIn, LimitsOf
<1>4. ASSUME NEW g PROVE A(g) <=> SumsOver(f, S, g)
  <2> DEFINE a == [s \in SUBSET S |->
                     IF s = {} THEN 0 ELSE proxies[Pick(s)].limit + g[s \ {Pick(s)}]]
             b == [s \in SUBSET S |->
                     IF s = {} THEN 0 ELSE f[Pick(s)] + g[s \ {Pick(s)}]]
  <2> HIDE DEF f, S
  <2>1. a = b
    BY <1>3
  <2>2. QED
    BY <2>1 DEF SumsOver
<1> HIDE DEF A, S, f
<1>5. \E g : A(g)
  BY <1>2, <1>4, SumsExist
<1>6. A(CHOOSE g : A(g))
  BY <1>5
<1>7. (CHOOSE g : A(g))[S] = Total(f, S)
  BY <1>2, <1>4, <1>6, TotalIs
<1>8. QED
  BY <1>1, <1>7 DEF PaidFor, S, f

LEMMA PaidType ==
    ASSUME NEW ps \in Records, NEW u
    PROVE  /\ IsFiniteSet(PaidIn(ps, u)) /\ PaidIn(ps, u) \subseteq Ids
           /\ \A i \in PaidIn(ps, u) : LimitsOf(ps)[i] = ps[i].limit /\ ps[i].limit \in Nat
           /\ PaidFor(ps, u) \in Nat
<1>1. IsFiniteSet(Ids) /\ PaidIn(ps, u) \subseteq Ids
  BY IdsFinite DEF PaidIn
<1>2. IsFiniteSet(PaidIn(ps, u))
  BY <1>1, FS_Subset
<1>3. \A i \in PaidIn(ps, u) : LimitsOf(ps)[i] = ps[i].limit /\ ps[i].limit \in Nat
  BY DEF PaidIn, LimitsOf, Records, Proxy, Absent
<1>4. QED
  BY <1>1, <1>2, <1>3, TotalType DEF PaidFor

\* The records of qs are those of ps but for what costs nothing.
SamePaid(qs, ps) ==
    \A i \in Ids : /\ qs[i].status = "absent" <=> ps[i].status = "absent"
                   /\ ps[i].status # "absent" =>
                        qs[i].uid = ps[i].uid /\ qs[i].type = ps[i].type /\ qs[i].limit = ps[i].limit

LEMMA SameTotals ==
    ASSUME NEW qs, NEW ps \in Records, SamePaid(qs, ps), NEW u
    PROVE  PaidFor(qs, u) = PaidFor(ps, u)
<1>1. PaidIn(qs, u) = PaidIn(ps, u)
  BY DEF SamePaid, PaidIn
<1>2. \A i \in PaidIn(ps, u) : LimitsOf(qs)[i] = LimitsOf(ps)[i]
  BY DEF SamePaid, PaidIn, LimitsOf
<1>3. IsFiniteSet(PaidIn(ps, u))
  BY PaidType
<1>4. QED
  BY <1>1, <1>2, <1>3, TotalSame DEF PaidFor

LEMMA QuotaStep ==
    ASSUME QuotaInvariant, TypeOK', CoveredIn(proxies', balance', recharged'), FreshIds',
           Saved \/ SaveFailed \/ UNCHANGED disk
    PROVE  QuotaInvariant'
<1>1. \/ /\ disk'.proxies = proxies' /\ disk'.balance = balance'
         /\ disk'.recharged = recharged'
      \/ disk' = disk
  BY DEF Saved, SaveFailed, Snapshot
<1>2. CoveredIn(disk'.proxies, disk'.balance, disk'.recharged)
  BY <1>1 DEF QuotaInvariant
<1>3. QED
  BY <1>2 DEF QuotaInvariant, CoveredIn, PaidFor, PaidIn, LimitsOf

\* A step that neither makes nor prices a record and pays nothing out.
LEMMA QuotaStepSame ==
    ASSUME QuotaInvariant, TypeOK', SamePaid(proxies', proxies),
           \A u \in Users : balance'[u] <= balance[u], recharged' = recharged,
           counter' = counter, Saved \/ SaveFailed \/ UNCHANGED disk
    PROVE  QuotaInvariant'
<1>1. /\ proxies \in Records /\ proxies' \in Records
      /\ balance \in Amounts /\ recharged \in Amounts /\ balance' \in Amounts
  BY TypeOKParts, TypeOKPartsPrimed DEF QuotaInvariant
<1>2. ASSUME NEW u \in Users PROVE balance'[u] + PaidFor(proxies', u) <= recharged'[u]
  <2>1. PaidFor(proxies', u) = PaidFor(proxies, u) /\ PaidFor(proxies, u) \in Nat
    BY <1>1, SameTotals, PaidType
  <2>2. balance[u] + PaidFor(proxies, u) <= recharged[u]
    BY DEF QuotaInvariant, CoveredIn
  <2>3. balance'[u] \in Nat /\ balance[u] \in Nat /\ recharged[u] \in Nat /\ balance'[u] <= balance[u]
    BY <1>1 DEF Amounts
  <2>4. QED
    BY <2>1, <2>2, <2>3
<1>3. FreshIds'
  <2>1. \A i \in Ids : proxies'[i].status = "absent" => proxies'[i] = Absent
    BY <1>1 DEF Records, Proxy, LiveStatuses
  <2>2. \A i \in Ids : counter < i => proxies[i].status = "absent"
    BY DEF QuotaInvariant, FreshIds, Absent
  <2>3. QED
    BY <2>1, <2>2 DEF FreshIds, SamePaid
<1>4. QED
  BY <1>2, <1>3, QuotaStep DEF CoveredIn

LEMMA RechargeCovers ==
    ASSUME QuotaInvariant, TypeOK', NEW u \in Users, Recharge(u)
    PROVE  QuotaInvariant'
<1>1. /\ proxies \in Records /\ balance \in Amounts /\ recharged \in Amounts
      /\ proxies' = proxies /\ counter' = counter
  BY TypeOKParts DEF QuotaInvariant, Recharge
<1>2. ASSUME NEW v \in Users PROVE balance'[v] + PaidFor(proxies', v) <= recharged'[v]
  <2>1. /\ balance[v] \in Nat /\ recharged[v] \in Nat /\ PaidFor(proxies, v) \in Nat
        /\ balance[v] + PaidFor(proxies, v) <= recharged[v]
    BY <1>1, PaidType DEF Amounts, QuotaInvariant, CoveredIn
  <2>2. \/ balance'[v] = balance[v] /\ recharged'[v] = recharged[v]
        \/ balance'[v] = balance[v] + FreeAmount /\ recharged'[v] = recharged[v] + FreeAmount
    BY <1>1 DEF Recharge, Amounts
  <2>3. QED
    BY <1>1, <2>1, <2>2, ConstantsAssumption
<1>3. FreshIds'
  BY <1>1 DEF QuotaInvariant, FreshIds
<1>4. QED
  BY <1>2, <1>3, QuotaStep DEF CoveredIn, Recharge, SaveOnly

\* A new record is paid for out of the balance.
LEMMA AddCovers ==
    ASSUME QuotaInvariant, TypeOK', counter < MaxId, NEW proxy \in Proxy, AddProxy(proxy),
           proxy.status = "active", proxy.limit <= balance[proxy.uid]
    PROVE  QuotaInvariant'
<1> DEFINE n == counter + 1
<1>1. /\ proxies \in Records /\ proxies' \in Records /\ counter \in Nat /\ n \in Ids
      /\ balance \in Amounts /\ recharged \in Amounts /\ recharged' = recharged
  BY TypeOKParts, TypeOKPartsPrimed, ConstantsAssumption DEF QuotaInvariant, AddProxy, Ids
<1>2. /\ proxies'[n] = proxy /\ \A j \in Ids \ {n} : proxies'[j] = proxies[j]
      /\ proxies[n] = Absent /\ counter' = n
      /\ proxy.uid \in Users /\ proxy.limit \in Nat /\ proxy.status # "absent"
  BY <1>1 DEF AddProxy, Records, QuotaInvariant, FreshIds, Proxy
<1>3. balance' = [balance EXCEPT ![proxy.uid] = IF proxy.type = "xtcp" THEN @ ELSE @ - proxy.limit]
  BY DEF AddProxy
<1> HIDE DEF n
<1>4. ASSUME NEW u \in Users PROVE balance'[u] + PaidFor(proxies', u) <= recharged'[u]
  <2>1. /\ balance[u] \in Nat /\ recharged[u] \in Nat /\ PaidFor(proxies, u) \in Nat
        /\ balance[u] + PaidFor(proxies, u) <= recharged[u]
    BY <1>1, PaidType DEF Amounts, QuotaInvariant, CoveredIn
  <2>2. CASE proxy.uid = u /\ proxy.type # "xtcp"
    <3>1. n \in PaidIn(proxies', u) /\ PaidIn(proxies', u) \ {n} = PaidIn(proxies, u)
      BY <1>1, <1>2, <2>2 DEF PaidIn, Absent
    <3>2. /\ IsFiniteSet(PaidIn(proxies', u)) /\ IsFiniteSet(PaidIn(proxies, u))
          /\ \A i \in PaidIn(proxies', u) : LimitsOf(proxies')[i] \in Int
      BY <1>1, PaidType
    <3>3. PaidFor(proxies', u) = LimitsOf(proxies')[n]
                                   + Total(LimitsOf(proxies'), PaidIn(proxies, u))
      BY <3>1, <3>2, TotalWithout DEF PaidFor
    <3>4. \A i \in PaidIn(proxies, u) : LimitsOf(proxies')[i] = LimitsOf(proxies)[i]
      BY <1>2, <3>1 DEF PaidIn, LimitsOf
    <3>5. Total(LimitsOf(proxies'), PaidIn(proxies, u)) = PaidFor(proxies, u)
      BY <3>2, <3>4, TotalSame DEF PaidFor
    <3>6. LimitsOf(proxies')[n] = proxy.limit
      BY <1>1, <1>2 DEF LimitsOf
    <3>7. balance'[u] = balance[u] - proxy.limit
      BY <1>1, <1>3, <2>2 DEF Amounts
    <3>8. QED
      BY <1>1, <1>2, <2>1, <3>3, <3>5, <3>6, <3>7
  <2>3. CASE ~(proxy.uid = u /\ proxy.type # "xtcp")
    <3>1. PaidIn(proxies', u) = PaidIn(proxies, u)
      BY <1>2, <2>3 DEF PaidIn, Absent
    <3>2. \A i \in PaidIn(proxies, u) : LimitsOf(proxies')[i] = LimitsOf(proxies)[i]
      BY <1>2 DEF PaidIn, LimitsOf, Absent
    <3>3. PaidFor(proxies', u) = PaidFor(proxies, u)
      BY <1>1, <3>1, <3>2, PaidType, TotalSame DEF PaidFor
    <3>4. balance'[u] = balance[u]
      BY <1>1, <1>3, <2>3 DEF Amounts
    <3>5. QED
      BY <1>1, <2>1, <3>3, <3>4
  <2>4. QED
    BY <2>2, <2>3
<1>5. FreshIds'
  <2>1. \A i \in Ids : n < i => counter < i /\ i # n
    BY <1>1 DEF n, Ids
  <2>2. QED
    BY <1>2, <2>1 DEF QuotaInvariant, FreshIds
<1>6. QED
  BY <1>4, <1>5, ToldOrNot, QuotaStep DEF CoveredIn, AddProxy

\* A limit that is raised is paid for; one that is lowered is not paid back.
LEMMA UpdateCovers ==
    ASSUME QuotaInvariant, TypeOK', NEW i \in Ids, NEW req \in UpdateRequests(i),
           UserUpdate(i, req)
    PROVE  QuotaInvariant'
<1> DEFINE new == proxies'[i].limit
           old == proxies[i].limit
<1>1. /\ Live(i) /\ LiveIn(proxies', i) /\ \A j \in Ids \ {i} : proxies'[j] = proxies[j]
      /\ proxies'[i].uid = proxies[i].uid /\ proxies'[i].type = proxies[i].type
      /\ \/ new = old /\ balance' = balance
         \/ balance' = [balance EXCEPT ![proxies[i].uid] = @ - LimitCost(i, new)]
  BY UpdateShape DEF QuotaInvariant
<1>2. /\ proxies \in Records /\ proxies' \in Records /\ balance \in Amounts
      /\ recharged \in Amounts /\ counter' = counter /\ recharged' = recharged
  BY TypeOKParts, TypeOKPartsPrimed DEF QuotaInvariant, UserUpdate
<1>3. new \in Nat /\ old \in Nat /\ proxies[i].uid \in Users
  BY <1>1, <1>2, LiveIsProxy DEF Live
<1>4. proxies[i].status # "absent" /\ proxies'[i].status # "absent"
  BY <1>1 DEF Live, LiveIn, LiveStatuses
<1>5. ASSUME NEW u \in Users PROVE balance'[u] + PaidFor(proxies', u) <= recharged'[u]
  <2>1. /\ balance[u] \in Nat /\ recharged[u] \in Nat /\ PaidFor(proxies, u) \in Nat
        /\ balance[u] + PaidFor(proxies, u) <= recharged[u]
    BY <1>2, PaidType DEF Amounts, QuotaInvariant, CoveredIn
  <2>2. PaidIn(proxies', u) = PaidIn(proxies, u)
    BY <1>1, <1>4 DEF PaidIn
  <2>3. \A j \in PaidIn(proxies, u) \ {i} : LimitsOf(proxies')[j] = LimitsOf(proxies)[j]
    BY <1>1 DEF PaidIn, LimitsOf
  <2>4. /\ IsFiniteSet(PaidIn(proxies, u))
        /\ \A j \in PaidIn(proxies, u) : /\ LimitsOf(proxies)[j] \in Int
                                         /\ LimitsOf(proxies')[j] \in Int
    BY <1>2, <2>2, PaidType
  <2>5. CASE i \in PaidIn(proxies, u)
    <3>1. proxies[i].uid = u /\ proxies[i].type # "xtcp"
      BY <2>5 DEF PaidIn
    <3>2. LimitsOf(proxies)[i] = old /\ LimitsOf(proxies')[i] = new
      BY DEF LimitsOf
    <3>3. PaidFor(proxies', u) = PaidFor(proxies, u) - old + new
      <4> HIDE DEF old, new
      <4>1. QED
        BY <2>2, <2>3, <2>4, <2>5, <3>2, TotalExcept DEF PaidFor
    <3>4. LimitCost(i, new) = IF new > old THEN new - old ELSE 0
      BY <3>1 DEF LimitCost
    <3> HIDE DEF old, new
    <3>5. \/ new = old /\ balance'[u] = balance[u]
          \/ balance'[u] = balance[u] - LimitCost(i, new)
      BY <1>1, <1>2, <3>1 DEF Amounts
    <3>6. QED
      BY <1>2, <1>3, <2>1, <3>3, <3>4, <3>5
  <2>6. CASE i \notin PaidIn(proxies, u)
    <3>1. PaidFor(proxies', u) = PaidFor(proxies, u)
      BY <2>2, <2>3, <2>4, <2>6, TotalSame DEF PaidFor
    <3>2. proxies[i].uid # u \/ proxies[i].type = "xtcp"
      BY <1>4, <2>6 DEF PaidIn
    <3>3. proxies[i].type = "xtcp" => LimitCost(i, new) = 0
      BY DEF LimitCost
    <3> HIDE DEF old, new
    <3>4. balance'[u] = balance[u] \/ balance'[u] = balance[u] - 0
      BY <1>1, <1>2, <3>2, <3>3 DEF Amounts
    <3>5. QED
      BY <1>2, <2>1, <3>1, <3>4
  <2>7. QED
    BY <2>5, <2>6
<1>6. FreshIds'
  BY <1>1, <1>2, <1>4 DEF QuotaInvariant, FreshIds, Absent
<1>7. QED
  BY <1>5, <1>6, QuotaStep DEF CoveredIn, UserUpdate, SaveOnly

\* A record that the administrator removes was paid for, and stays so.
LEMMA AdminDeleteCovers ==
    ASSUME QuotaInvariant, TypeOK', NEW i \in Ids, AdminDelete(i)
    PROVE  QuotaInvariant'
<1>1. /\ proxies \in Records /\ proxies' \in Records /\ balance \in Amounts
      /\ recharged \in Amounts /\ counter' = counter /\ balance' = balance
      /\ recharged' = recharged
  BY TypeOKParts, TypeOKPartsPrimed DEF QuotaInvariant, AdminDelete
<1>2. proxies'[i] = Absent /\ \A j \in Ids \ {i} : proxies'[j] = proxies[j]
  BY <1>1 DEF AdminDelete, Records
<1>3. ASSUME NEW u \in Users PROVE balance'[u] + PaidFor(proxies', u) <= recharged'[u]
  <2>1. /\ balance[u] \in Nat /\ recharged[u] \in Nat
        /\ PaidFor(proxies, u) \in Nat /\ PaidFor(proxies', u) \in Nat
        /\ balance[u] + PaidFor(proxies, u) <= recharged[u]
    BY <1>1, PaidType DEF Amounts, QuotaInvariant, CoveredIn
  <2>2. PaidIn(proxies', u) = PaidIn(proxies, u) \ {i}
    BY <1>2 DEF PaidIn, Absent
  <2>3. /\ IsFiniteSet(PaidIn(proxies, u)) /\ IsFiniteSet(PaidIn(proxies', u))
        /\ \A j \in PaidIn(proxies, u) : LimitsOf(proxies)[j] \in Nat
    BY <1>1, PaidType
  <2>4. \A j \in PaidIn(proxies', u) : LimitsOf(proxies')[j] = LimitsOf(proxies)[j]
    BY <1>2, <2>2 DEF PaidIn, LimitsOf
  <2>5. PaidFor(proxies', u) = Total(LimitsOf(proxies), PaidIn(proxies, u) \ {i})
    BY <2>2, <2>3, <2>4, TotalSame DEF PaidFor
  <2>6. CASE i \in PaidIn(proxies, u)
    <3>1. PaidFor(proxies, u) = LimitsOf(proxies)[i] + PaidFor(proxies', u)
      BY <2>3, <2>5, <2>6, TotalWithout DEF PaidFor
    <3>2. LimitsOf(proxies)[i] \in Nat
      BY <2>3, <2>6
    <3>3. QED
      BY <1>1, <2>1, <3>1, <3>2
  <2>7. CASE i \notin PaidIn(proxies, u)
    <3>1. PaidIn(proxies, u) \ {i} = PaidIn(proxies, u)
      BY <2>7
    <3>2. PaidFor(proxies', u) = PaidFor(proxies, u)
      BY <2>5, <3>1 DEF PaidFor
    <3>3. QED
      BY <1>1, <2>1, <3>2
  <2>8. QED
    BY <2>6, <2>7
<1>4. FreshIds'
  BY <1>1, <1>2 DEF QuotaInvariant, FreshIds
<1>5. QED
  BY <1>3, <1>4, QuotaStep DEF CoveredIn, AdminDelete, files

\* What is loaded was paid for when it was saved.
LEMMA RestartCovers ==
    ASSUME QuotaInvariant, TypeOK', Restart \/ RestartInRangeSave
    PROVE  QuotaInvariant'
<1>1. /\ proxies' = disk.proxies /\ balance' = disk.balance /\ recharged' = disk.recharged
      /\ counter' \in LastId(disk.proxies) /\ disk' = disk
  BY DEF Restart, RestartInRangeSave, Boot, files
<1>2. CoveredIn(proxies', balance', recharged')
  BY <1>1 DEF QuotaInvariant
<1>3. FreshIds'
  <2>1. proxies' \in Records /\ counter' \in Nat
    BY TypeOKPartsPrimed
  <2>2. \A i \in Ids : proxies'[i].status # "absent" => i <= counter'
    BY <1>1 DEF LastId
  <2>3. \A i \in Ids : proxies'[i].status = "absent" => proxies'[i] = Absent
    BY <2>1 DEF Records, Proxy, LiveStatuses
  <2>4. \A i \in Ids : counter' < i => ~(i <= counter')
    BY <2>1, ConstantsAssumption DEF Ids
  <2>5. QED
    BY <2>2, <2>3, <2>4 DEF FreshIds
<1>4. QED
  BY <1>1, <1>2, <1>3, QuotaStep

\* The other steps make and price no record.
LEMMA OthersPaySame ==
    ASSUME TypeOK,
           \/ \E i \in Ids : \/ UserDelete(i) \/ UserDeleteAgain(i)
                             \/ \E status \in LiveStatuses : UserSetStatus(i, status)
                             \/ AdminStop(i) \/ AdminStart(i)
           \/ \E r \in Ranges : UpdateRange(r[1], r[2])
           \/ PollRound \/ UNCHANGED vars
    PROVE  /\ SamePaid(proxies', proxies) /\ \A u \in Users : balance'[u] <= balance[u]
           /\ recharged' = recharged /\ counter' = counter
           /\ Saved \/ SaveFailed \/ UNCHANGED disk
<1>1. proxies \in Records /\ balance \in Amounts
  BY TypeOKParts
<1>2. \A u \in Users : balance[u] <= balance[u]
  BY <1>1 DEF Amounts
<1>3. ASSUME NEW i \in Ids,
             \/ UserDelete(i) \/ \E status \in LiveStatuses : UserSetStatus(i, status)
             \/ AdminStop(i) \/ AdminStart(i)
      PROVE  /\ SamePaid(proxies', proxies)
             /\ UNCHANGED <<balance, recharged, counter>>
             /\ Saved \/ SaveFailed \/ UNCHANGED disk
  <2>1. PICK status \in LiveStatuses \cup {"deleted"} :
           Live(i) /\ proxies' = [proxies EXCEPT ![i].status = status]
    BY <1>3 DEF UserDelete, UserSetStatus, AdminStop, AdminStart, LiveStatuses
  <2>2. proxies[i] \in Proxy
    BY <1>1, <2>1, LiveIsProxy DEF Live
  <2>3. /\ \A j \in Ids \ {i} : proxies'[j] = proxies[j]
        /\ proxies'[i].uid = proxies[i].uid /\ proxies'[i].limit = proxies[i].limit
        /\ proxies'[i].type = proxies[i].type /\ proxies'[i].status = status
    BY <1>1, <2>1, <2>2 DEF Records, Proxy
  <2>4. SamePaid(proxies', proxies)
    BY <2>1, <2>3 DEF SamePaid, Live, LiveIn, LiveStatuses
  <2>5. QED
    BY <1>3, <2>4, ToldOrNot DEF UserDelete, UserSetStatus, AdminStop, AdminStart, files
<1>4. CASE PollRound
  <2>1. PICK delta \in Deltas :
           /\ proxies' = [i \in Ids |-> IF Live(i) THEN Metered(i, delta[i]) ELSE proxies[i]]
           /\ balance' = [u \in Users |-> BalanceLeft(u, delta)]
    BY <1>4 DEF PollRound
  <2>2. ASSUME NEW i \in Ids, Live(i)
        PROVE  /\ Metered(i, delta[i]).uid = proxies[i].uid
               /\ Metered(i, delta[i]).limit = proxies[i].limit
               /\ Metered(i, delta[i]).type = proxies[i].type
               /\ Metered(i, delta[i]).status \in LiveStatuses
    <3>1. proxies[i] \in Proxy
      BY <1>1, <2>2, LiveIsProxy DEF Live
    <3>2. QED
      BY <2>2, <3>1 DEF Metered, Proxy, Live, LiveIn, LiveStatuses
  <2>3. SamePaid(proxies', proxies)
    BY <2>1, <2>2 DEF SamePaid, Live, LiveIn, LiveStatuses
  <2>4. \A u \in Users : BalanceLeft(u, delta) <= balance[u]
    BY <1>1 DEF BalanceLeft, Amounts
  <2>5. QED
    BY <1>4, <2>1, <2>3, <2>4 DEF PollRound
<1>5. CASE \/ \E i \in Ids : UserDeleteAgain(i)
           \/ \E r \in Ranges : UpdateRange(r[1], r[2])
           \/ UNCHANGED vars
  <2>1. UNCHANGED <<proxies, balance, recharged, counter, disk>>
    BY <1>5 DEF UserDeleteAgain, UpdateRange, vars, store, files
  <2>2. QED
    BY <1>2, <2>1 DEF SamePaid
<1>6. QED
  BY <1>2, <1>3, <1>4, <1>5

LEMMA NextCovers == ASSUME QuotaInvariant, [Next]_vars PROVE QuotaInvariant'
<1>0. TypeOK /\ TypeOK'
  BY NextKeepsType DEF QuotaInvariant
<1>1. CASE \E u \in Users, name \in Names, limit \in Limits :
              \/ \E count \in 1 .. MaxTcpPorts : CreateAuto(u, name, limit, count)
              \/ \E count \in 1 .. MaxTcpPorts, s \in pool.start .. pool.end :
                    CreateAt(u, name, limit, Window(s, count))
              \/ \E subdomain \in Subdomains : CreateHttp(u, name, limit, subdomain)
              \/ CreateXtcp(u, name, limit)
  <2>1. CASE UNCHANGED <<store, polling, files, restarts, told>>
    BY <1>0, <2>1, QuotaStep DEF QuotaInvariant, FreshIds, store, files
  <2>2. QED
    BY <1>0, <1>1, <2>1, CreateChecks, AddCovers
<1>2. CASE \E i \in Ids : Live(i) /\ \E req \in UpdateRequests(i) : UserUpdate(i, req)
  BY <1>0, <1>2, UpdateCovers
<1>3. CASE \/ \E i \in Ids : \/ UserDelete(i) \/ UserDeleteAgain(i)
                             \/ \E status \in LiveStatuses : UserSetStatus(i, status)
                             \/ AdminStop(i) \/ AdminStart(i)
           \/ \E r \in Ranges : UpdateRange(r[1], r[2])
           \/ PollRound \/ UNCHANGED vars
  BY <1>0, <1>3, OthersPaySame, QuotaStepSame
<1>4. CASE \E u \in Users : Recharge(u)
  BY <1>0, <1>4, RechargeCovers
<1>5. CASE \E i \in Ids : AdminDelete(i)
  BY <1>0, <1>5, AdminDeleteCovers
<1>6. CASE Restart \/ RestartInRangeSave
  BY <1>0, <1>6, RestartCovers
<1>7. QED
  BY <1>1, <1>2, <1>3, <1>4, <1>5, <1>6 DEF Next, UserNext, AdminNext

LEMMA InitCovers == Init => QuotaInvariant
<1> SUFFICES ASSUME Init PROVE QuotaInvariant
  OBVIOUS
<1>1. TypeOK /\ proxies \in Records
  BY InitTypeOK, TypeOKParts
<1>2. \A i \in Ids : proxies[i] = Absent
  BY DEF Init
<1>3. ASSUME NEW u \in Users PROVE balance[u] + PaidFor(proxies, u) <= recharged[u]
  <2>1. PaidIn(proxies, u) = {}
    BY <1>2 DEF PaidIn, Absent
  <2>2. PaidFor(proxies, u) = 0
    BY <2>1, TotalEmpty DEF PaidFor
  <2>3. QED
    BY <2>2, ConstantsAssumption DEF Init
<1>4. disk.proxies = proxies /\ disk.balance = balance /\ disk.recharged = recharged
  BY DEF Init, Snapshot
<1>5. QED
  BY <1>1, <1>2, <1>3, <1>4 DEF QuotaInvariant, CoveredIn, FreshIds

\* What a user's paid proxies may carry and the balance that is left never
\* exceed what the user recharged: no failed update, no deletion, no failed save,
\* no poll round and no crash makes traffic out of nothing.
THEOREM QuotaSafe == Spec => []QuotaCovered
<1>1. Init => QuotaInvariant
  BY InitCovers
<1>2. QuotaInvariant /\ [Next]_vars => QuotaInvariant'
  BY NextCovers
<1>3. QuotaInvariant => QuotaCovered
  BY CommittedTotal DEF QuotaInvariant, CoveredIn, QuotaCovered
<1>4. QED
  BY <1>1, <1>2, <1>3, PTL DEF Spec

----------------------------------------------------------------------------
(* The scanning loop of the pool computes its closed forms.                *)

\* What the windows before s give up, for all starts up to n.
GivesUp(p, count, busy, n, lost) ==
    lost = [s \in p.start .. n |->
              IF s = p.start THEN {}
              ELSE IF Window(s - 1, count) \subseteq p.available \ lost[s - 1]
                   THEN lost[s - 1] \cup (Window(s - 1, count) \cap busy)
                   ELSE lost[s - 1]]

\* The recurrence has a solution, found start by start.
LEMMA DiscardedExists ==
    ASSUME NEW p \in PoolType, NEW count, NEW busy
    PROVE  \A n \in p.start .. p.end + 1 : \E lost : GivesUp(p, count, busy, n, lost)
<1> DEFINE D == p.start .. p.end + 1
           T == {n \in D : ~\E lost : GivesUp(p, count, busy, n, lost)}
<1>0. p.start \in Nat /\ p.end \in Nat /\ D \subseteq Nat
  BY DEF PoolType
<1>1. SUFFICES ASSUME T # {} PROVE FALSE
  OBVIOUS
<1>2. PICK n \in T : \A k \in T : n <= k
  BY <1>0, <1>1, LeastNatural
<1>3. CASE n = p.start
  <2>1. GivesUp(p, count, busy, n, [s \in p.start .. n |-> {}])
    BY <1>0, <1>3 DEF GivesUp
  <2>2. QED
    BY <1>2, <2>1
<1>4. CASE n # p.start
  <2>1. n - 1 \in D /\ n - 1 \notin T
    <3>1. n \in D
      BY <1>2
    <3>2. n - 1 \in D /\ ~(n <= n - 1)
      BY <1>0, <1>4, <3>1
    <3> HIDE DEF T, D
    <3>3. QED
      BY <1>2, <3>2
  <2>2. PICK g : GivesUp(p, count, busy, n - 1, g)
    BY <2>1
  <2> DEFINE last == IF Window(n - 1, count) \subseteq p.available \ g[n - 1]
                     THEN g[n - 1] \cup (Window(n - 1, count) \cap busy)
                     ELSE g[n - 1]
             h == [s \in p.start .. n |-> IF s = n THEN last ELSE g[s]]
  <2>3. \A s \in p.start .. n - 1 : h[s] = g[s]
    BY <1>0, <1>2
  <2>4. h[n] = last
    BY <1>0, <1>2
  <2>5. \A s \in p.start .. n : s # n => s \in p.start .. n - 1
    BY <1>0, <1>2
  <2>6. \A s \in p.start .. n : s # p.start => s - 1 \in p.start .. n - 1
    BY <1>0, <1>2
  <2>7. \A s \in p.start .. n - 1 :
           g[s] = IF s = p.start THEN {}
                  ELSE IF Window(s - 1, count) \subseteq p.available \ g[s - 1]
                       THEN g[s - 1] \cup (Window(s - 1, count) \cap busy)
                       ELSE g[s - 1]
    BY <2>2 DEF GivesUp
  <2>8. h = [s \in p.start .. n |-> h[s]]
    OBVIOUS
  <2>9. \A s \in p.start .. n :
           h[s] = IF s = p.start THEN {}
                  ELSE IF Window(s - 1, count) \subseteq p.available \ h[s - 1]
                       THEN h[s - 1] \cup (Window(s - 1, count) \cap busy)
                       ELSE h[s - 1]
    <3> HIDE DEF h
    <3>1. ASSUME NEW s \in p.start .. n, s # n
          PROVE  h[s] = IF s = p.start THEN {}
                        ELSE IF Window(s - 1, count) \subseteq p.available \ h[s - 1]
                             THEN h[s - 1] \cup (Window(s - 1, count) \cap busy)
                             ELSE h[s - 1]
      BY <2>3, <2>5, <2>6, <2>7, <3>1
    <3>2. h[n] = IF Window(n - 1, count) \subseteq p.available \ h[n - 1]
                 THEN h[n - 1] \cup (Window(n - 1, count) \cap busy)
                 ELSE h[n - 1]
      <4>1. h[n - 1] = g[n - 1]
        BY <1>0, <1>2, <1>4, <2>3
      <4>2. QED
        BY <2>4, <4>1
    <3>3. QED
      BY <1>4, <3>1, <3>2
  <2>10. GivesUp(p, count, busy, n, h)
    <3> HIDE DEF h
    <3>1. QED
      BY <2>8, <2>9 DEF GivesUp
  <2>11. QED
    <3> HIDE DEF h
    <3>1. QED
      BY <1>2, <2>10
<1>5. QED
  BY <1>3, <1>4

\* So Discarded is one.
LEMMA DiscardedSolves ==
    ASSUME NEW p \in PoolType, p.start <= p.end, NEW count, NEW busy
    PROVE  GivesUp(p, count, busy, p.end + 1, Discarded(p, count, busy))
<1>1. p.end + 1 \in p.start .. p.end + 1
  BY DEF PoolType
<1>2. Discarded(p, count, busy) = CHOOSE lost : GivesUp(p, count, busy, p.end + 1, lost)
  BY DEF Discarded, GivesUp
<1>3. \E lost : GivesUp(p, count, busy, p.end + 1, lost)
  BY <1>1, DiscardedExists
<1>4. QED
  BY <1>2, <1>3

LEMMA DiscardedStart ==
    ASSUME NEW p \in PoolType, p.start <= p.end, NEW count, NEW busy
    PROVE  Discarded(p, count, busy)[p.start] = {}
<1>1. PICK lost : lost = Discarded(p, count, busy) /\ GivesUp(p, count, busy, p.end + 1, lost)
  BY DiscardedSolves
<1>2. p.start \in p.start .. p.end + 1
  BY DEF PoolType
<1>3. QED
  BY <1>1, <1>2 DEF GivesUp

\* From a start to the next one, it adds what the window there gives up.
OneWindow(p, count, busy, s) ==
    Discarded(p, count, busy)[s + 1] =
      IF Window(s, count) \subseteq p.available \ Discarded(p, count, busy)[s]
      THEN Discarded(p, count, busy)[s] \cup (Window(s, count) \cap busy)
      ELSE Discarded(p, count, busy)[s]

LEMMA DiscardedAfter ==
    ASSUME NEW p \in PoolType, p.start <= p.end, NEW count, NEW busy,
           NEW s \in p.start .. p.end
    PROVE  OneWindow(p, count, busy, s)
<1>0. p.start \in Nat /\ p.end \in Nat /\ s \in Int
  BY DEF PoolType
<1>1. PICK lost : lost = Discarded(p, count, busy) /\ GivesUp(p, count, busy, p.end + 1, lost)
  BY DiscardedSolves
<1>2. s + 1 \in p.start .. p.end + 1 /\ s + 1 # p.start /\ (s + 1) - 1 = s
  BY <1>0
<1>3. \A n \in p.start .. p.end + 1 : n # p.start =>
         lost[n] = IF Window(n - 1, count) \subseteq p.available \ lost[n - 1]
                   THEN lost[n - 1] \cup (Window(n - 1, count) \cap busy)
                   ELSE lost[n - 1]
  BY <1>1 DEF GivesUp
<1>4. lost[s + 1] = IF Window((s + 1) - 1, count) \subseteq p.available \ lost[(s + 1) - 1]
                   THEN lost[(s + 1) - 1] \cup (Window((s + 1) - 1, count) \cap busy)
                   ELSE lost[(s + 1) - 1]
  BY <1>2, <1>3, Zenon
<1>5. lost[s + 1] = IF Window(s, count) \subseteq p.available \ lost[s]
                   THEN lost[s] \cup (Window(s, count) \cap busy)
                   ELSE lost[s]
  BY <1>2, <1>4, Zenon
<1>6. QED
  BY <1>1, <1>5, Zenon DEF OneWindow

\* A scan gives up busy ports only.
LEMMA OnlyBusyGivenUp ==
    ASSUME NEW p \in PoolType, p.start <= p.end, NEW count, NEW busy,
           NEW s \in p.start .. p.end + 1
    PROVE  Discarded(p, count, busy)[s] \subseteq busy
<1> DEFINE lost == Discarded(p, count, busy)
           T    == {t \in p.start .. p.end + 1 : ~(lost[t] \subseteq busy)}
<1>0. p.start \in Nat /\ p.end \in Nat
  BY DEF PoolType
<1>1. SUFFICES ASSUME T # {} PROVE FALSE
  OBVIOUS
<1>2. T \subseteq Nat
  BY <1>0
<1>3. PICK t \in T : \A r \in T : t <= r
  <2> HIDE DEF T
  <2>1. QED
    BY <1>1, <1>2, LeastNatural
<1>4. t # p.start
  BY <1>3, DiscardedStart
<1>5. PICK r : r \in p.start .. p.end /\ r + 1 = t /\ ~(t <= r)
  <2>1. t \in p.start .. p.end + 1
    BY <1>3
  <2>2. t - 1 \in p.start .. p.end /\ (t - 1) + 1 = t /\ ~(t <= t - 1)
    BY <1>0, <1>4, <2>1
  <2> HIDE DEF T, lost
  <2>3. QED
    BY <2>2
<1>6. lost[r] \subseteq busy
  <2>1. r \in p.start .. p.end + 1
    BY <1>0, <1>5
  <2>2. QED
    BY <1>3, <1>5, <2>1
<1>7. \/ lost[t] = lost[r] \cup (Window(r, count) \cap busy)
      \/ lost[t] = lost[r]
  <2>1. OneWindow(p, count, busy, r)
    BY <1>5, DiscardedAfter
  <2>2. lost[r + 1] = lost[r] \cup (Window(r, count) \cap busy) \/ lost[r + 1] = lost[r]
    BY <2>1, Zenon DEF OneWindow
  <2>3. QED
    BY <1>5, <2>2
<1>8. lost[t] \subseteq busy
  <2> HIDE DEF lost, T
  <2>1. QED
    BY <1>6, <1>7
<1>9. QED
  BY <1>3, <1>8

\* While the loop runs, no window before `start' fits, and what it has taken off
\* the free set is what those windows give up.
Lost == Discarded(initial, wanted, refused)

ScanInvariant ==
    /\ initial \in PoolType /\ initial.start <= initial.end
    /\ wanted \in Nat \ {0}
    /\ result = <<>> =>
          /\ start \in initial.start .. initial.end + 1
          /\ start = initial.start \/ start <= initial.end - wanted + 2
          /\ available = initial.available \ Lost[start]
          /\ \A s \in Fits(initial, wanted, refused) : start <= s
    /\ LoopMeetsClosedForm

LEMMA ScanStarts == ScanInit => ScanInvariant
<1> SUFFICES ASSUME ScanInit PROVE ScanInvariant
  OBVIOUS
<1>1. initial \in PoolType /\ initial.start <= initial.end
  <2>1. PICK s \in Low .. High, e \in Low .. High :
           initial \in {[start |-> s, end |-> e, available |-> a] : a \in SUBSET (s .. e)}
    BY DEF ScanInit, Pools
  <2>2. PICK a \in SUBSET (s .. e) : initial = [start |-> s, end |-> e, available |-> a]
    BY <2>1
  <2>3. s \in Nat /\ e \in Nat
    BY BoundsAssumption
  <2>4. a \in SUBSET Nat
    BY <2>3
  <2>5. initial.start <= initial.end
    BY DEF ScanInit
  <2>6. QED
    BY <2>2, <2>3, <2>4, <2>5 DEF PoolType
<1>2. wanted \in Nat \ {0}
  BY BoundsAssumption DEF ScanInit
<1>3. initial.start \in Nat /\ initial.end \in Nat
  BY <1>1 DEF PoolType
<1>4. Lost[initial.start] = {}
  BY <1>1, DiscardedStart DEF Lost
<1>5. /\ start = initial.start /\ available = initial.available /\ result = <<>>
  BY DEF ScanInit
<1>6. \A s \in Fits(initial, wanted, refused) : initial.start <= s
  BY <1>3 DEF Fits
<1>7. available = initial.available \ Lost[start]
  BY <1>4, <1>5
<1>8. QED
  BY <1>1, <1>2, <1>3, <1>5, <1>6, <1>7 DEF ScanInvariant, LoopMeetsClosedForm

\* A window that is skipped does not fit, and gives up its busy ports if it was
\* free when the scan reached it.
LEMMA ScanSkips ==
    ASSUME ScanInvariant, result = <<>>, InScan, SkipTaken \/ SkipBusy,
           UNCHANGED <<initial, wanted, refused>>
    PROVE  ScanInvariant'
<1> DEFINE w == Window(start, wanted)
<1>0. /\ initial \in PoolType /\ initial.start <= initial.end /\ wanted \in Nat \ {0}
      /\ start \in initial.start .. initial.end + 1
      /\ available = initial.available \ Lost[start]
      /\ \A s \in Fits(initial, wanted, refused) : start <= s
      /\ initial.start \in Nat /\ initial.end \in Nat
  BY DEF ScanInvariant, PoolType
<1>1. start' = start + 1 /\ result' = <<>>
  BY DEF SkipTaken, SkipBusy
<1>2. start \in initial.start .. initial.end /\ start + 1 <= initial.end - wanted + 2
  BY <1>0 DEF InScan
<1>3. Lost[start] \subseteq refused
  BY <1>0, OnlyBusyGivenUp DEF Lost
<1>4. Lost[start + 1] = IF w \subseteq initial.available \ Lost[start]
                        THEN Lost[start] \cup (w \cap refused) ELSE Lost[start]
  <2>1. OneWindow(initial, wanted, refused, start)
    BY <1>0, <1>2, DiscardedAfter
  <2>2. QED
    BY <2>1, Zenon DEF Lost, OneWindow
<1>5. /\ start \notin Fits(initial, wanted, refused)
      /\ available' = initial.available \ Lost[start + 1]
  <2>1. CASE SkipTaken
    <3>1. ~(w \subseteq available) /\ available' = available
      BY <2>1 DEF SkipTaken
    <3>2. QED
      BY <1>0, <1>3, <1>4, <3>1 DEF Fits
  <2>2. CASE SkipBusy
    <3>1. /\ w \subseteq available /\ w \cap refused # {}
          /\ available' = available \ (w \cap refused)
      BY <2>2 DEF SkipBusy
    <3>2. start \notin Fits(initial, wanted, refused)
      BY <3>1 DEF Fits
    <3> HIDE DEF w
    <3>3. QED
      BY <1>0, <1>4, <3>1, <3>2
  <2>3. QED
    BY <2>1, <2>2
<1>6. \A s \in Fits(initial, wanted, refused) : start + 1 <= s
  <2>1. \A s \in Fits(initial, wanted, refused) : s \in Nat /\ start <= s /\ s # start
    BY <1>0, <1>5 DEF Fits
  <2>2. QED
    BY <1>0, <2>1
<1>7. start + 1 \in initial.start .. initial.end + 1
  BY <1>0, <1>2
<1>8. Lost' = Lost
  BY DEF Lost
<1>9. QED
  BY <1>0, <1>1, <1>2, <1>5, <1>6, <1>7, <1>8 DEF ScanInvariant, LoopMeetsClosedForm

\* The window that is taken is the first that fits.
LEMMA ScanTakes ==
    ASSUME ScanInvariant, result = <<>>, InScan, Take,
           UNCHANGED <<initial, wanted, refused>>
    PROVE  ScanInvariant'
<1> DEFINE w    == Window(start, wanted)
           fits == Fits(initial, wanted, refused)
<1>0. /\ initial \in PoolType /\ initial.start <= initial.end /\ wanted \in Nat \ {0}
      /\ start \in initial.start .. initial.end + 1
      /\ available = initial.available \ Lost[start]
      /\ \A s \in fits : start <= s
      /\ initial.start \in Nat /\ initial.end \in Nat
  BY DEF ScanInvariant, PoolType
<1>1. /\ w \subseteq available /\ w \cap refused = {}
      /\ available' = available \ w /\ result' = <<w>>
  BY DEF Take
<1>2. start \in fits
  <2>1. start \in initial.start .. initial.end /\ start + wanted - 1 <= initial.end
    BY <1>0 DEF InScan
  <2>2. w \subseteq initial.available \ refused
    BY <1>0, <1>1
  <2>3. QED
    BY <2>1, <2>2 DEF Fits
<1>3. \A s \in fits : s \in Nat
  BY <1>0 DEF Fits
<1>4. FirstFit(initial, wanted, refused) = start
  <2>1. /\ FirstFit(initial, wanted, refused) \in fits
        /\ \A s \in fits : FirstFit(initial, wanted, refused) <= s
    BY <1>0, <1>2 DEF FirstFit
  <2>2. \A s \in Nat : s <= start /\ start <= s => s = start
    BY <1>0
  <2> HIDE DEF fits
  <2>3. QED
    BY <1>0, <1>2, <1>3, <2>1, <2>2
<1>5. /\ Allocated(initial, wanted, refused) = w
      /\ ScanEnd(initial, wanted, refused) = start
  BY <1>2, <1>4 DEF Allocated, ScanEnd
<1>6. AfterAllocate(initial, wanted, refused).available = (initial.available \ w) \ Lost[start]
  BY <1>0, <1>5 DEF AfterAllocate, PoolType, Lost
<1>7. LoopMeetsClosedForm'
  <2> HIDE DEF w
  <2>1. QED
    BY <1>0, <1>1, <1>5, <1>6 DEF LoopMeetsClosedForm
<1>8. result' # <<>>
  BY <1>1
<1>9. QED
  BY <1>0, <1>7, <1>8 DEF ScanInvariant

\* The loop gives up past the last window, when none fits.
LEMMA ScanGivesUp ==
    ASSUME ScanInvariant, result = <<>>, GiveUp, UNCHANGED <<initial, wanted, refused>>
    PROVE  ScanInvariant'
<1> DEFINE fits == Fits(initial, wanted, refused)
<1>0. /\ initial \in PoolType /\ initial.start <= initial.end /\ wanted \in Nat \ {0}
      /\ start \in initial.start .. initial.end + 1
      /\ start = initial.start \/ start <= initial.end - wanted + 2
      /\ available = initial.available \ Lost[start]
      /\ \A s \in fits : start <= s
      /\ initial.start \in Nat /\ initial.end \in Nat
  BY DEF ScanInvariant, PoolType
<1>1. result' = <<{}>> /\ available' = available /\ ~(start <= initial.end - wanted + 1)
  BY DEF GiveUp, InScan
<1>2. fits = {}
  <2>1. ASSUME NEW s \in fits PROVE FALSE
    <3>1. s \in Nat /\ start <= s /\ s + wanted - 1 <= initial.end
      BY <1>0 DEF Fits
    <3>2. QED
      BY <1>0, <1>1, <3>1
  <2>2. QED
    BY <2>1
<1>3. ScanEnd(initial, wanted, refused) = start
  BY <1>0, <1>1, <1>2 DEF ScanEnd
<1>4. Allocated(initial, wanted, refused) = {}
  BY <1>2 DEF Allocated
<1>5. AfterAllocate(initial, wanted, refused).available = initial.available \ Lost[start]
  BY <1>0, <1>3, <1>4 DEF AfterAllocate, PoolType, Lost
<1>6. LoopMeetsClosedForm' /\ result' # <<>>
  BY <1>0, <1>1, <1>4, <1>5 DEF LoopMeetsClosedForm
<1>7. QED
  BY <1>0, <1>6 DEF ScanInvariant

\* For every pool, request and set of busy ports, the loop of
\* allocate_contiguous returns the ports and leaves the free set that the
\* operators of PortPool say.
THEOREM LoopIsClosedForm == ScanSpec => []LoopMeetsClosedForm
<1>1. ScanInvariant /\ [ScanNext]_scanVars => ScanInvariant'
  <2>1. CASE UNCHANGED scanVars
    BY <2>1 DEF scanVars, ScanInvariant, LoopMeetsClosedForm, Lost
  <2>2. QED
    BY <2>1, ScanSkips, ScanTakes, ScanGivesUp DEF ScanNext
<1>2. ScanInvariant => LoopMeetsClosedForm
  BY DEF ScanInvariant
<1>3. QED
  BY ScanStarts, <1>1, <1>2, PTL DEF ScanSpec

----------------------------------------------------------------------------
(* No leak: a port of the range is free or mapped, as long as no other     *)
(* program holds one while the pool is scanned.                            *)

\* The scan stops at a start of the range, or one past the last.
LEMMA ScanStops ==
    ASSUME NEW p \in PoolType, p.start <= p.end, NEW count \in Nat \ {0}, NEW busy
    PROVE  ScanEnd(p, count, busy) \in p.start .. p.end + 1
<1>0. p.start \in Nat /\ p.end \in Nat
  BY DEF PoolType
<1>1. CASE Fits(p, count, busy) = {}
  BY <1>0, <1>1 DEF ScanEnd
<1>2. CASE Fits(p, count, busy) # {}
  <2>1. Fits(p, count, busy) \subseteq Nat
    BY <1>0 DEF Fits
  <2>2. \E s \in Fits(p, count, busy) : \A t \in Fits(p, count, busy) : s <= t
    BY <1>2, <2>1, LeastNatural
  <2>3. FirstFit(p, count, busy) \in Fits(p, count, busy)
    BY <2>2 DEF FirstFit
  <2>4. QED
    BY <1>0, <1>2, <2>3 DEF ScanEnd, Fits
<1>3. QED
  BY <1>1, <1>2

\* What an undisturbed allocation takes is what the caller gets.
LEMMA AllocateLosesNothing ==
    ASSUME NEW p \in PoolType, p.start <= p.end, NEW count \in Nat \ {0}
    PROVE  AfterAllocate(p, count, {}).available = p.available \ Allocated(p, count, {})
<1>1. Discarded(p, count, {})[ScanEnd(p, count, {})] = {}
  BY ScanStops, OnlyBusyGivenUp
<1>2. QED
  BY <1>1 DEF AfterAllocate, PoolType

\* The parts of the leak-free store: ids not yet used map no port.
LeakInvariant ==
    /\ QuotaInvariant
    /\ NoPortLost
    /\ pool.start <= pool.end

LEMMA LeakStep ==
    ASSUME QuotaInvariant',
           PortRange(pool'.start, pool'.end) \subseteq pool'.available \cup OwnedIn(proxies'),
           pool'.start <= pool'.end
    PROVE  LeakInvariant'
  BY DEF LeakInvariant, NoPortLost, Owned, OwnedIn, LiveIn

\* A step that keeps the free ports and every owner.
LEMMA LeakStepSame ==
    ASSUME LeakInvariant, QuotaInvariant', Within(proxies, proxies'), UNCHANGED pool
    PROVE  LeakInvariant'
<1>1. OwnedIn(proxies) \subseteq OwnedIn(proxies')
  BY OwnedInclusion
<1>2. QED
  BY <1>1, LeakStep DEF LeakInvariant, NoPortLost, Owned

\* A record that goes leaves its ports to the pool.
LEMMA LeakStepRelease ==
    ASSUME LeakInvariant, QuotaInvariant', TypeOK, NEW i \in Ids,
           \A j \in Ids \ {i} : proxies'[j] = proxies[j],
           LiveIn(proxies, i) => proxies[i].ports \in SUBSET Nat,
           pool' = AfterRelease(pool, proxies[i].ports)
    PROVE  LeakInvariant'
<1>1. PoolInRange(pool)
  BY TypeOKParts
<1>2. /\ pool'.start = pool.start /\ pool'.end = pool.end
      /\ pool.available \subseteq pool'.available
  BY <1>1 DEF AfterRelease, PoolInRange, PoolType
<1>3. LiveIn(proxies, i) =>
         proxies[i].ports \cap PortRange(pool.start, pool.end) \subseteq pool'.available
  BY <1>1 DEF AfterRelease, PoolInRange, PoolType, InRange, PortRange
<1>4. \A p \in OwnedIn(proxies) \ OwnedIn(proxies') :
         LiveIn(proxies, i) /\ p \in proxies[i].ports
  BY DEF OwnedIn, LiveIn
<1>5. PortRange(pool.start, pool.end) \subseteq pool'.available \cup OwnedIn(proxies')
  BY <1>2, <1>3, <1>4 DEF LeakInvariant, NoPortLost, Owned
<1>6. QED
  BY <1>2, <1>5, LeakStep DEF LeakInvariant

\* A new record takes an id that mapped nothing, and the ports it maps.
LEMMA LeakStepAdd ==
    ASSUME LeakInvariant, QuotaInvariant', TypeOK, counter < MaxId,
           NEW proxy \in Proxy, proxy.status = "active", AddProxy(proxy),
           pool'.start = pool.start, pool'.end = pool.end,
           pool.available \subseteq pool'.available \cup proxy.ports
    PROVE  LeakInvariant'
<1> DEFINE n == counter + 1
<1>1. n \in Ids /\ counter < n
  BY TypeOKParts, ConstantsAssumption DEF Ids
<1>2. proxies[n] = Absent
  BY <1>1 DEF LeakInvariant, QuotaInvariant, FreshIds
<1>3. proxies'[n] = proxy /\ \A j \in Ids \ {n} : proxies'[j] = proxies[j]
  BY <1>1, TypeOKParts DEF AddProxy, Records
<1> HIDE DEF n
<1>4. OwnedIn(proxies) \cup proxy.ports \subseteq OwnedIn(proxies')
  <2>1. ~LiveIn(proxies, n) /\ LiveIn(proxies', n)
    BY <1>2, <1>3 DEF LiveIn, Absent, LiveStatuses
  <2>2. QED
    BY <1>1, <1>3, <2>1 DEF OwnedIn, LiveIn
<1>5. QED
  BY <1>4, LeakStep DEF LeakInvariant, NoPortLost, Owned

\* create_proxy takes no more than it records.
LEMMA CreateTakes ==
    ASSUME BusyPorts = {}, LeakInvariant, TypeOK,
           NEW u \in Users, NEW name \in Names, NEW limit \in Limits,
           \/ \E count \in 1 .. MaxTcpPorts : CreateAuto(u, name, limit, count)
           \/ \E count \in 1 .. MaxTcpPorts, s \in pool.start .. pool.end :
                 CreateAt(u, name, limit, Window(s, count))
           \/ \E subdomain \in Subdomains : CreateHttp(u, name, limit, subdomain)
           \/ CreateXtcp(u, name, limit)
    PROVE  \/ proxies' = proxies /\ pool'.available = pool.available
           \/ \E proxy \in Proxy :
                 /\ AddProxy(proxy) /\ counter < MaxId /\ proxy.status = "active"
                 /\ pool.available \subseteq pool'.available \cup proxy.ports
<1>0. PoolInRange(pool) /\ pool \in PoolType /\ pool.start <= pool.end
  BY TypeOKParts DEF PoolInRange, LeakInvariant
<1>1. CASE \E count \in 1 .. MaxTcpPorts : CreateAuto(u, name, limit, count)
  <2>1. PICK count \in 1 .. MaxTcpPorts : CreateAuto(u, name, limit, count)
    BY <1>1
  <2> DEFINE ports == Allocated(pool, count, {})
  <2>2. /\ pool' = AfterAllocate(pool, count, {})
        /\ \/ AddProxy(NewProxy(u, name, "tcp", ports, NoSubdomain, limit))
           \/ ports = {} /\ proxies' = proxies
    BY <2>1 DEF CreateAuto, store
  <2>3. pool'.available = pool.available \ ports
    BY <1>0, <2>2, AllocateLosesNothing, ConstantsAssumption
  <2>4. ports \in SUBSET Nat
    BY <1>0, AllocatedIsFree DEF PoolInRange, PoolType
  <2>5. LET proxy == NewProxy(u, name, "tcp", ports, NoSubdomain, limit)
        IN  /\ proxy \in Proxy /\ counter < MaxId /\ proxy.status = "active"
            /\ proxy.ports = ports
    BY <2>1, <2>4, NewProxyType DEF CreateAuto, ProxyTypes, NewProxy
  <2> HIDE DEF ports
  <2>6. QED
    BY <2>2, <2>3, <2>5
<1>2. CASE \E count \in 1 .. MaxTcpPorts, s \in pool.start .. pool.end :
              CreateAt(u, name, limit, Window(s, count))
  <2>1. PICK count \in 1 .. MaxTcpPorts, s \in pool.start .. pool.end :
              CreateAt(u, name, limit, Window(s, count))
    BY <1>2
  <2> DEFINE ports == Window(s, count)
  <2>2. ports \in SUBSET Nat
    BY <1>0, WindowType, ConstantsAssumption DEF PoolType
  <2>3. LET proxy == NewProxy(u, name, "tcp", ports, NoSubdomain, limit)
        IN  /\ proxy \in Proxy /\ counter < MaxId /\ proxy.status = "active"
            /\ proxy.ports = ports
    BY <2>1, <2>2, NewProxyType DEF CreateAt, ProxyTypes, NewProxy
  <2>4. /\ AddProxy(NewProxy(u, name, "tcp", ports, NoSubdomain, limit))
        /\ UnavailablePorts(pool, ports, {}) = {}
        /\ pool' = AfterReserve(pool, ports, {})
    BY <2>1 DEF CreateAt
  <2> HIDE DEF ports
  <2>5. pool'.available = pool.available \ ports
    BY <1>0, <2>4, ReserveKeepsPool
  <2>6. QED
    BY <2>3, <2>4, <2>5
<1>3. CASE \E subdomain \in Subdomains : CreateHttp(u, name, limit, subdomain)
  BY <1>3, NewProxyType DEF CreateHttp, ProxyTypes
<1>4. CASE CreateXtcp(u, name, limit)
  BY <1>4, NewProxyType DEF CreateXtcp, ProxyTypes
<1>5. QED
  BY <1>1, <1>2, <1>3, <1>4

LEMMA CreateLeaksNothing ==
    ASSUME BusyPorts = {}, LeakInvariant, QuotaInvariant', TypeOK,
           NEW u \in Users, NEW name \in Names, NEW limit \in Limits,
           \/ \E count \in 1 .. MaxTcpPorts : CreateAuto(u, name, limit, count)
           \/ \E count \in 1 .. MaxTcpPorts, s \in pool.start .. pool.end :
                 CreateAt(u, name, limit, Window(s, count))
           \/ \E subdomain \in Subdomains : CreateHttp(u, name, limit, subdomain)
           \/ CreateXtcp(u, name, limit)
    PROVE  LeakInvariant'
<1>1. pool'.start = pool.start /\ pool'.end = pool.end
  BY CreateShape
<1>2. CASE proxies' = proxies /\ pool'.available = pool.available
  BY <1>1, <1>2, LeakStep DEF LeakInvariant, NoPortLost, Owned
<1>3. QED
  BY <1>1, <1>2, CreateTakes, LeakStepAdd

\* Handlers of one proxy: a record that is no longer live gives its ports
\* back, one that is started again maps those it takes.
LEMMA HandlersLeakNothing ==
    ASSUME LeakInvariant, QuotaInvariant', TypeOK, NEW i \in Ids,
           \/ UserDelete(i) \/ UserDeleteAgain(i)
           \/ \E status \in LiveStatuses : UserSetStatus(i, status)
           \/ Live(i) /\ \E req \in UpdateRequests(i) : UserUpdate(i, req)
           \/ AdminStop(i) \/ AdminStart(i) \/ AdminDelete(i)
    PROVE  LeakInvariant'
<1>0. PoolInRange(pool) /\ proxies \in Records
  BY TypeOKParts
<1>1. LiveIn(proxies, i) => proxies[i].ports \in SUBSET Nat
  BY <1>0, LiveIsProxy
<1>2. CASE UserDelete(i)
  <2>1. \A j \in Ids \ {i} : proxies'[j] = proxies[j]
    BY <1>2, SetStatus DEF UserDelete
  <2>2. QED
    BY <1>1, <1>2, <2>1, LeakStepRelease DEF UserDelete
<1>3. CASE AdminDelete(i)
  <2>1. \A j \in Ids \ {i} : proxies'[j] = proxies[j]
    BY <1>0, <1>3 DEF AdminDelete, Records
  <2>2. QED
    BY <1>1, <1>3, <2>1, LeakStepRelease DEF AdminDelete
<1>4. CASE UserDeleteAgain(i)
  BY <1>4, LeakStepSame DEF UserDeleteAgain, store, Within
<1>5. CASE AdminStop(i) \/ \E status \in LiveStatuses : UserSetStatus(i, status)
  <2>1. SameOwners(proxies', proxies)
    BY <1>5, StatusKeepsOwners DEF AdminStop, UserSetStatus, LiveStatuses
  <2>2. QED
    BY <1>5, <2>1, LeakStepSame DEF AdminStop, UserSetStatus, SameOwners
<1>6. CASE \E req \in UpdateRequests(i) : UserUpdate(i, req)
  BY <1>6, UpdateKeepsOwners, LeakStepSame DEF UserUpdate, SameOwners
<1>7. CASE AdminStart(i)
  <2>1. SameOwners(proxies', proxies)
    BY <1>7, StatusKeepsOwners DEF AdminStart, LiveStatuses
  <2>2. OwnedIn(proxies) \subseteq OwnedIn(proxies')
    BY <2>1, OwnedInclusion DEF SameOwners
  <2>3. /\ pool'.start = pool.start /\ pool'.end = pool.end
        /\ pool'.available = pool.available \ Unreserved(pool, proxies[i].ports)
    BY <1>0, <1>7, ReserveKeepsPool DEF AdminStart
  <2>4. Unreserved(pool, proxies[i].ports) \subseteq OwnedIn(proxies)
    BY <1>7 DEF AdminStart, Unreserved, OwnedIn, Live
  <2>5. QED
    BY <2>2, <2>3, <2>4, LeakStep DEF LeakInvariant, NoPortLost, Owned
<1>8. QED
  BY <1>2, <1>3, <1>4, <1>5, <1>6, <1>7

\* A new range has every port that nobody maps; so has the pool at boot,
\* whether the mapped ports could be reserved or not.
LEMMA RangesLeakNothing ==
    ASSUME LeakInvariant, QuotaInvariant', TypeOK,
           \/ \E r \in Ranges : UpdateRange(r[1], r[2])
           \/ Restart \/ RestartInRangeSave
    PROVE  LeakInvariant'
<1>1. CASE \E r \in Ranges : UpdateRange(r[1], r[2])
  <2>1. PICK r \in Ranges : UpdateRange(r[1], r[2])
    BY <1>1
  <2>2. r[1] \in Nat /\ r[2] \in Nat /\ r[1] <= r[2]
    BY ConstantsAssumption
  <2>3. /\ pool'.start = r[1] /\ pool'.end = r[2]
        /\ pool'.available = PortRange(r[1], r[2]) \ Owned
    BY <2>1, <2>2, UpdatedPool DEF UpdateRange
  <2>4. proxies' = proxies
    BY <2>1 DEF UpdateRange, store
  <2>5. QED
    BY <2>2, <2>3, <2>4, LeakStep DEF Owned
<1>2. CASE Restart \/ RestartInRangeSave
  <2>1. PICK file \in Ranges \cup {NoFile} : Boot(file)
    BY <1>2, TypeOKParts DEF Restart, RestartInRangeSave
  <2> DEFINE r == LoadedRange(file)
             loaded == NewPool(r[1], r[2])
  <2>2. r[1] \in Nat /\ r[2] \in Nat /\ r[1] <= r[2]
    BY ConstantsAssumption DEF LoadedRange
  <2>3. PICK busy : pool' = AfterReserve(loaded, OwnedIn(disk.proxies), busy)
    BY <2>1 DEF Boot
  <2> HIDE DEF r
  <2>4. /\ loaded.start = r[1] /\ loaded.end = r[2]
        /\ loaded.available = PortRange(r[1], r[2]) /\ PoolInRange(loaded)
    BY <2>2, FreshPool
  <2> HIDE DEF loaded
  <2>5. /\ pool'.start = r[1] /\ pool'.end = r[2]
        /\ PortRange(r[1], r[2]) \subseteq pool'.available \cup OwnedIn(disk.proxies)
    BY <2>3, <2>4, ReserveKeepsPool DEF AfterReserve, PoolInRange, PoolType
  <2>6. proxies' = disk.proxies
    BY <2>1 DEF Boot
  <2>7. QED
    BY <2>2, <2>5, <2>6, LeakStep
<1>3. QED
  BY <1>1, <1>2

LEMMA NextLeaksNothing ==
    ASSUME BusyPorts = {}, LeakInvariant, [Next]_vars
    PROVE  LeakInvariant'
<1>0. TypeOK /\ QuotaInvariant'
  BY NextCovers DEF LeakInvariant, QuotaInvariant
<1>1. CASE \E u \in Users, name \in Names, limit \in Limits :
              \/ \E count \in 1 .. MaxTcpPorts : CreateAuto(u, name, limit, count)
              \/ \E count \in 1 .. MaxTcpPorts, s \in pool.start .. pool.end :
                    CreateAt(u, name, limit, Window(s, count))
              \/ \E subdomain \in Subdomains : CreateHttp(u, name, limit, subdomain)
              \/ CreateXtcp(u, name, limit)
  BY <1>0, <1>1, CreateLeaksNothing
<1>2. CASE \E i \in Ids :
              \/ UserDelete(i) \/ UserDeleteAgain(i)
              \/ \E status \in LiveStatuses : UserSetStatus(i, status)
              \/ Live(i) /\ \E req \in UpdateRequests(i) : UserUpdate(i, req)
              \/ AdminStop(i) \/ AdminStart(i) \/ AdminDelete(i)
  BY <1>0, <1>2, HandlersLeakNothing
<1>3. CASE \/ \E r \in Ranges : UpdateRange(r[1], r[2])
           \/ Restart \/ RestartInRangeSave
  BY <1>0, <1>3, RangesLeakNothing
<1>4. CASE PollRound
  BY <1>0, <1>4, PollKeepsOwners, LeakStepSame DEF PollRound, SameOwners
<1>5. CASE UNCHANGED vars \/ \E u \in Users : Recharge(u)
  BY <1>0, <1>5, LeakStepSame DEF vars, Recharge, Within
<1>6. QED
  BY <1>1, <1>2, <1>3, <1>4, <1>5 DEF Next, UserNext, AdminNext

\* If no other program holds a port of the range during a scan, no port ever
\* leaks: each is free or mapped, whatever requests, failing saves, range changes
\* and crashes there were.  A busy port is discarded for good.
THEOREM NothingLeaks ==
    ASSUME BusyPorts = {}
    PROVE  Spec => []NoPortLost
<1>1. Init => LeakInvariant
  <2> SUFFICES ASSUME Init PROVE LeakInvariant
    OBVIOUS
  <2>1. QuotaInvariant
    BY InitCovers
  <2>2. DefaultRange[1] <= DefaultRange[2]
    BY ConstantsAssumption
  <2>3. QED
    BY <2>1, <2>2 DEF LeakInvariant, Init, NewPool, NoPortLost
<1>2. LeakInvariant /\ [Next]_vars => LeakInvariant'
  BY NextLeaksNothing
<1>3. LeakInvariant => NoPortLost
  BY DEF LeakInvariant
<1>4. QED
  BY <1>1, <1>2, <1>3, PTL DEF Spec
=============================================================================
